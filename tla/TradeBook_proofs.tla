--------------------------- MODULE TradeBook_proofs ---------------------------
(***************************************************************************)
(* Proofs about TradeBook for every number of traders, pairs, slots and    *)
(* orders: its types, the two registries kept with swap-and-pop, the slot  *)
(* budget that rests on them; then, on top of these, what becomes of a     *)
(* limit order, who is listed as a trader of a pair, that the counters     *)
(* count what is stored, and that each order accepted finds a slot.  Last, *)
(* that all of this storage together is a behaviour of the ideal book.     *)
(***************************************************************************)
EXTENDS TradeBookRefinement, SequenceTheorems, FiniteSetTheorems, TLAPS

-----------------------------------------------------------------------------
(* Sequences and keys. *)

\* Popping an element leaves a shorter sequence of the same type, in which the
\* last element has taken the place of the removed one.
LEMMA SwapPopType ==
    ASSUME NEW S, NEW s \in Seq(S), NEW i \in 1 .. Len(s)
    PROVE  /\ SwapPop(s, i) \in Seq(S)
           /\ Len(SwapPop(s, i)) = Len(s) - 1
           /\ \A j \in 1 .. Len(s) - 1 :
                SwapPop(s, i)[j] = IF j = i THEN s[Len(s)] ELSE s[j]
<1>1. Len(s) \in Nat /\ Len(s) - 1 \in Nat
  OBVIOUS
<1>2. \A j \in 1 .. Len(s) : s[j] \in S
  OBVIOUS
<1>3. SwapPop(s, i) \in [1 .. Len(s) - 1 -> S]
  BY <1>1, <1>2 DEF SwapPop
<1>4. QED
  BY <1>1, <1>3 DEF SwapPop

\* A key is given by its book and its slot.
LEMMA KeyType == \A b \in Books, i \in Slots : Key(b, i) \in Keys
BY DEF Key, Keys

LEMMA KeyBook == \A k \in Keys : k.book \in Books /\ k.book.trader \in Traders
                                 /\ k.book.pair \in Pairs
BY DEF Keys, Books

\* A counter of a book set to a natural number is still a counter.
LEMMA CountStep ==
    ASSUME NEW f \in [Books -> Nat], NEW b \in Books, NEW n \in Nat
    PROVE  [f EXCEPT ![b] = n] \in [Books -> Nat]
OBVIOUS

-----------------------------------------------------------------------------
(* Types. *)

LEMMA InitType == Init => TypeOK
<1> SUFFICES ASSUME Init PROVE TypeOK
  OBVIOUS
<1>1. openTrades \in [Keys -> Trade]
  BY DEF Init, Trade, NoTrade
<1>2. /\ openLimitOrders \in Seq(LimitOrder)
      /\ pairTraders \in [Pairs -> Seq(Traders)]
      /\ pendingOrderIds \in [Traders -> Seq(OrderIds)]
  BY DEF Init
<1>3. /\ reqIDpendingMarketOrder \in [OrderIds -> PendingOrder \cup {NoOrder}]
      /\ orders \in [OrderIds -> {"none", "MARKET_OPEN", "MARKET_CLOSE"}]
  BY DEF Init
<1>4. currentOrderId \in 1 .. MaxOrders + 1
  BY LimitsAssumption DEF Init
<1>5. QED
  BY <1>1, <1>2, <1>3, <1>4 DEF Init, TypeOK

LEMMA StoreTradeType ==
    ASSUME TypeOK, NEW k \in Keys, NEW coll \in Nat, StoreTrade(k, coll)
    PROVE  /\ openTrades' \in [Keys -> Trade]
           /\ beingMarketClosed' \in [Keys -> BOOLEAN]
           /\ openTradesCount' \in [Books -> Nat]
           /\ pairTraders' \in [Pairs -> Seq(Traders)]
           /\ pairTradersId' \in [Books -> Nat]
<1> USE DEF TypeOK
<1>1. k.book \in Books /\ k.book.trader \in Traders /\ k.book.pair \in Pairs
  BY KeyBook
<1>2. openTrades' \in [Keys -> Trade]
  BY DEF StoreTrade, Trade
<1>3. /\ beingMarketClosed' \in [Keys -> BOOLEAN]
      /\ openTradesCount' \in [Books -> Nat]
  <2>1. beingMarketClosed' \in [Keys -> BOOLEAN]
    BY DEF StoreTrade
  <2>2. openTradesCount' \in [Books -> Nat]
    <3>1. openTradesCount[k.book] + 1 \in Nat
      BY <1>1
    <3>2. QED
      BY <1>1, <3>1, CountStep DEF StoreTrade
  <2>3. QED
    BY <2>1, <2>2
<1>4. /\ pairTraders' \in [Pairs -> Seq(Traders)]
      /\ pairTradersId' \in [Books -> Nat]
  <2>1. CASE openTradesCount[k.book] = 0
    <3>1. Len(pairTraders[k.book.pair]) \in Nat
      BY <1>1
    <3>2. Append(pairTraders[k.book.pair], k.book.trader) \in Seq(Traders)
      BY <1>1
    <3>3. QED
      BY <1>1, <2>1, <3>1, <3>2 DEF StoreTrade
  <2>2. CASE openTradesCount[k.book] # 0
    BY <2>2 DEF StoreTrade
  <2>3. QED
    BY <2>1, <2>2
<1>5. QED
  BY <1>2, <1>3, <1>4

LEMMA UnregisterTradeType ==
    ASSUME TypeOK, NEW k \in Keys, UnregisterTrade(k)
    PROVE  /\ openTrades' \in [Keys -> Trade]
           /\ beingMarketClosed' \in [Keys -> BOOLEAN]
           /\ openTradesCount' \in [Books -> Nat]
           /\ pairTraders' \in [Pairs -> Seq(Traders)]
           /\ pairTradersId' \in [Books -> Nat]
<1> USE DEF TypeOK
<1>1. k.book \in Books /\ k.book.trader \in Traders /\ k.book.pair \in Pairs
  BY KeyBook
<1>2. openTrades' \in [Keys -> Trade]
  BY DEF UnregisterTrade, Trade, NoTrade
<1>3. /\ beingMarketClosed' \in [Keys -> BOOLEAN]
      /\ openTradesCount' \in [Books -> Nat]
  <2>1. beingMarketClosed' \in [Keys -> BOOLEAN]
    BY DEF UnregisterTrade
  <2>2. openTradesCount' \in [Books -> Nat]
    <3>1. openTradesCount[k.book] - 1 \in Nat
      <4>1. openTradesCount[k.book] \in Nat
        BY <1>1
      <4>2. openTradesCount[k.book] > 0
        BY DEF UnregisterTrade
      <4>3. QED
        BY <4>1, <4>2
    <3>2. QED
      BY <1>1, <3>1, CountStep DEF UnregisterTrade
  <2>3. QED
    BY <2>1, <2>2
<1>4. /\ pairTraders' \in [Pairs -> Seq(Traders)]
      /\ pairTradersId' \in [Books -> Nat]
  <2> DEFINE p == pairTraders[k.book.pair]
             i == pairTradersId[k.book] + 1
  <2>1. CASE openTradesCount[k.book] = 1
    <3>1. p \in Seq(Traders) /\ i \in 1 .. Len(p)
      BY <1>1, <2>1 DEF UnregisterTrade
    <3>2. SwapPop(p, i) \in Seq(Traders)
      BY <3>1, SwapPopType, SMTT(30)
    <3>3. pairTraders' \in [Pairs -> Seq(Traders)]
      BY <1>1, <2>1, <3>2 DEF UnregisterTrade
    <3>4. i - 1 \in Nat /\ p[Len(p)] \in Traders
      <4> HIDE DEF p, i, TypeOK
      <4>1. Len(p) \in Nat /\ Len(p) > 0 /\ i \in Nat /\ i > 0
        BY <3>1
      <4>2. QED
        BY <3>1, <4>1
    <3> DEFINE last == [k.book EXCEPT !.trader = p[Len(p)]]
               moved == [pairTradersId EXCEPT ![last] = i - 1]
    <3>5. last \in Books
      BY <1>1, <3>4 DEF Books
    <3>6. moved \in [Books -> Nat]
      BY <3>4, <3>5, CountStep
    <3>7. pairTradersId' = [moved EXCEPT ![k.book] = 0]
      BY <2>1 DEF UnregisterTrade
    <3> HIDE DEF moved
    <3>8. pairTradersId' \in [Books -> Nat]
      BY <1>1, <3>6, <3>7, CountStep
    <3>9. QED
      BY <3>3, <3>8
  <2>2. CASE openTradesCount[k.book] # 1
    BY <2>2 DEF UnregisterTrade
  <2>3. QED
    BY <2>1, <2>2
<1>5. QED
  BY <1>2, <1>3, <1>4

\* The types of the variables a pending order lives in.
PendingType ==
    /\ pendingOrderIds \in [Traders -> Seq(OrderIds)]
    /\ reqIDpendingMarketOrder \in [OrderIds -> PendingOrder \cup {NoOrder}]
    /\ pendingMarketOpenCount \in [Books -> Nat]
    /\ pendingMarketCloseCount \in [Books -> Nat]

LEMMA PendingOrderBook ==
    ASSUME TypeOK, NEW id \in OrderIds, reqIDpendingMarketOrder[id] # NoOrder
    PROVE  LET k == reqIDpendingMarketOrder[id].key IN
           /\ k \in Keys /\ k.book \in Books /\ k.book.trader \in Traders
           /\ reqIDpendingMarketOrder[id].amount \in Nat
<1>1. reqIDpendingMarketOrder[id] \in PendingOrder
  BY DEF TypeOK
<1>2. QED
  BY <1>1, KeyBook DEF PendingOrder

LEMMA DropPendingIdType ==
    ASSUME TypeOK, NEW id \in OrderIds, reqIDpendingMarketOrder[id] # NoOrder,
           NEW i, DropPendingId(id, i)
    PROVE  /\ pendingOrderIds' \in [Traders -> Seq(OrderIds)]
           /\ reqIDpendingMarketOrder' \in [OrderIds -> PendingOrder \cup {NoOrder}]
<1> DEFINE t == reqIDpendingMarketOrder[id].key.book.trader
<1>1. t \in Traders /\ pendingOrderIds[t] \in Seq(OrderIds)
  BY PendingOrderBook DEF TypeOK
<1>2. SwapPop(pendingOrderIds[t], i) \in Seq(OrderIds)
  BY <1>1, SwapPopType DEF DropPendingId
<1>3. QED
  BY <1>1, <1>2 DEF DropPendingId, TypeOK

LEMMA UnregisterPendingType ==
    ASSUME TypeOK, NEW id \in OrderIds, reqIDpendingMarketOrder[id] # NoOrder,
           UnregisterPendingOpen(id) \/ UnregisterPendingClose(id)
    PROVE  PendingType'
<1>1. CASE ~Listed(id)
  BY <1>1 DEF UnregisterPendingOpen, UnregisterPendingClose, pendingVars,
              PendingType, TypeOK
<1>2. CASE Listed(id)
  <2>1. PICK i : DropPendingId(id, i)
    BY <1>2 DEF UnregisterPendingOpen, UnregisterPendingClose
  <2>2. /\ pendingOrderIds' \in [Traders -> Seq(OrderIds)]
        /\ reqIDpendingMarketOrder' \in [OrderIds -> PendingOrder \cup {NoOrder}]
    BY <2>1, DropPendingIdType
  <2> DEFINE b == reqIDpendingMarketOrder[id].key.book
  <2>3. /\ pendingMarketOpenCount' \in [Books -> Nat]
        /\ pendingMarketCloseCount' \in [Books -> Nat]
    <3>1. b \in Books
      BY PendingOrderBook
    <3>2. CASE UnregisterPendingOpen(id)
      <4>1. pendingMarketOpenCount[b] - 1 \in Nat
        BY <1>2, <3>1, <3>2 DEF UnregisterPendingOpen, TypeOK
      <4>2. [pendingMarketOpenCount EXCEPT ![b] = @ - 1] \in [Books -> Nat]
        BY <3>1, <4>1, CountStep DEF TypeOK
      <4>3. QED
        BY <1>2, <3>2, <4>2 DEF UnregisterPendingOpen, TypeOK
    <3>3. CASE UnregisterPendingClose(id)
      <4>1. pendingMarketCloseCount[b] - 1 \in Nat
        BY <1>2, <3>1, <3>3 DEF UnregisterPendingClose, TypeOK
      <4>2. [pendingMarketCloseCount EXCEPT ![b] = @ - 1] \in [Books -> Nat]
        BY <3>1, <4>1, CountStep DEF TypeOK
      <4>3. QED
        BY <1>2, <3>3, <4>2 DEF UnregisterPendingClose, TypeOK
    <3>4. QED
      BY <3>2, <3>3
  <2>4. QED
    BY <2>2, <2>3 DEF PendingType
<1>3. QED
  BY <1>1, <1>2

LEMMA StorePendingType ==
    ASSUME TypeOK, NEW id \in OrderIds, NEW o \in PendingOrder,
           StorePendingMarketOrder(id, o)
    PROVE  /\ pendingOrderIds' \in [Traders -> Seq(OrderIds)]
           /\ reqIDpendingMarketOrder' \in [OrderIds -> PendingOrder \cup {NoOrder}]
<1>1. o.key.book.trader \in Traders
  BY KeyBook DEF PendingOrder
<1>2. Append(pendingOrderIds[o.key.book.trader], id) \in Seq(OrderIds)
  BY <1>1 DEF TypeOK
<1>3. QED
  BY <1>1, <1>2 DEF StorePendingMarketOrder, TypeOK

\* The types of the variables limit orders live in.
LimitType ==
    /\ openLimitOrders \in Seq(LimitOrder)
    /\ openLimitOrderIds \in [Keys -> Nat]
    /\ openLimitOrdersCount \in [Books -> Nat]

\* A key with an order has it in the array, under that key.
LEMMA LimitOrderAt ==
    ASSUME TypeOK, NEW k \in Keys, HasOpenLimitOrder(k)
    PROVE  LET n == openLimitOrderIds[k] + 1 IN
           /\ n \in 1 .. Len(openLimitOrders)
           /\ openLimitOrders[n] \in LimitOrder
           /\ openLimitOrders[n].key = k
<1> DEFINE n == openLimitOrderIds[k] + 1
<1>1. openLimitOrderIds[k] \in Nat /\ openLimitOrders \in Seq(LimitOrder)
  BY DEF TypeOK
<1>2. openLimitOrderIds[k] < Len(openLimitOrders) /\ openLimitOrders[n].key = k
  BY DEF HasOpenLimitOrder
<1>3. n \in 1 .. Len(openLimitOrders)
  BY <1>1, <1>2
<1>4. QED
  BY <1>1, <1>2, <1>3

LEMMA LimitKeys ==
    ASSUME LimitType
    PROVE  \A n \in 1 .. Len(openLimitOrders) :
             /\ openLimitOrders[n] \in LimitOrder
             /\ openLimitOrders[n].key \in Keys
<1>1. \A n \in 1 .. Len(openLimitOrders) : openLimitOrders[n] \in LimitOrder
  BY DEF LimitType
<1>2. \A o \in LimitOrder : o.key \in Keys
  BY DEF LimitOrder
<1>3. QED
  BY <1>1, <1>2

\* A new order goes to the end of the array.
LEMMA StoreLimitKeepsRegistry ==
    ASSUME TypeOK, LimitRegistry, NEW o \in LimitOrder,
           ~HasOpenLimitOrder(o.key), StoreOpenLimitOrder(o)
    PROVE  LimitType' /\ LimitRegistry'
<1> DEFINE L == Len(openLimitOrders)
<1>0. LimitType
  BY DEF LimitType, TypeOK
<1>1. o.key \in Keys /\ o.key.book \in Books /\ L \in Nat
  BY <1>0, KeyBook DEF LimitOrder, LimitType
<1>2. /\ openLimitOrders' = Append(openLimitOrders, o)
      /\ openLimitOrderIds' = [openLimitOrderIds EXCEPT ![o.key] = L]
  BY DEF StoreOpenLimitOrder
<1>3. /\ openLimitOrders' \in Seq(LimitOrder) /\ Len(openLimitOrders') = L + 1
      /\ openLimitOrders'[L + 1] = o
      /\ \A n \in 1 .. L : openLimitOrders'[n] = openLimitOrders[n]
  BY <1>0, <1>2 DEF LimitType
<1>4. LimitType'
  <2>1. openLimitOrderIds' \in [Keys -> Nat]
    BY <1>0, <1>1, <1>2 DEF LimitType
  <2>2. openLimitOrdersCount[o.key.book] + 1 \in Nat
    BY <1>0, <1>1 DEF LimitType
  <2>3. openLimitOrdersCount' \in [Books -> Nat]
    BY <1>0, <1>1, <2>2, CountStep DEF StoreOpenLimitOrder, LimitType
  <2>4. QED
    BY <1>3, <2>1, <2>3 DEF LimitType
<1>5. \A n \in 1 .. L : openLimitOrders[n].key # o.key
  <2> SUFFICES ASSUME NEW n \in 1 .. L, openLimitOrders[n].key = o.key
               PROVE  FALSE
    OBVIOUS
  <2>1. openLimitOrderIds[o.key] = n - 1
    BY DEF LimitRegistry
  <2>2. openLimitOrders # <<>> /\ n - 1 < L /\ (n - 1) + 1 = n
    BY <1>0, <1>1 DEF LimitType
  <2>3. QED
    BY <2>1, <2>2 DEF HasOpenLimitOrder
<1>6. \A n \in 1 .. L + 1 : openLimitOrderIds'[openLimitOrders'[n].key] = n - 1
  <2> SUFFICES ASSUME NEW n \in 1 .. L + 1
               PROVE  openLimitOrderIds'[openLimitOrders'[n].key] = n - 1
    OBVIOUS
  <2>1. CASE n = L + 1
    BY <1>0, <1>1, <1>2, <1>3, <2>1 DEF LimitType
  <2>2. CASE n # L + 1
    <3>1. n \in 1 .. L
      BY <1>1, <2>2
    <3>2. openLimitOrders[n].key \in Keys /\ openLimitOrders[n].key # o.key
      BY <1>0, <1>5, <3>1, LimitKeys
    <3>3. openLimitOrderIds[openLimitOrders[n].key] = n - 1
      BY <3>1 DEF LimitRegistry
    <3>4. QED
      BY <1>0, <1>2, <1>3, <3>1, <3>2, <3>3 DEF LimitType
  <2>3. QED
    BY <2>1, <2>2
<1>7. ASSUME NEW k \in Keys, openLimitOrderIds'[k] # 0
      PROVE  HasOpenLimitOrder(k)'
  <2>1. openLimitOrders' # <<>>
    BY <1>1, <1>3
  <2>2. CASE k = o.key
    <3>1. openLimitOrderIds'[k] = L
      BY <1>0, <1>1, <1>2, <2>2 DEF LimitType
    <3>2. QED
      BY <1>1, <1>3, <2>1, <2>2, <3>1 DEF HasOpenLimitOrder
  <2>3. CASE k # o.key
    <3>1. openLimitOrderIds'[k] = openLimitOrderIds[k]
      BY <1>0, <1>1, <1>2, <2>3 DEF LimitType
    <3>2. HasOpenLimitOrder(k)
      BY <1>7, <3>1 DEF LimitRegistry
    <3>3. openLimitOrderIds[k] + 1 \in 1 .. L /\ openLimitOrderIds[k] < L + 1
      BY <1>0, <3>2 DEF HasOpenLimitOrder, LimitType
    <3>4. QED
      BY <1>3, <2>1, <3>1, <3>2, <3>3 DEF HasOpenLimitOrder
  <2>4. QED
    BY <2>2, <2>3
<1>8. QED
  BY <1>3, <1>4, <1>6, <1>7 DEF LimitRegistry

\* The last order of the array takes the place of the removed one, and the
\* back-pointer of its key follows it.
LEMMA UnregisterLimitKeepsRegistry ==
    ASSUME TypeOK, LimitRegistry, NEW k \in Keys, HasOpenLimitOrder(k),
           UnregisterOpenLimitOrder(k)
    PROVE  LimitType' /\ LimitRegistry'
<1> DEFINE L    == Len(openLimitOrders)
           i    == openLimitOrderIds[k] + 1
           last == openLimitOrders[L].key
           moved == [openLimitOrderIds EXCEPT ![last] = i - 1]
<1>0. LimitType
  BY DEF LimitType, TypeOK
<1>1. i \in 1 .. L /\ openLimitOrders[i].key = k
  BY LimitOrderAt
<1>2. L \in Nat /\ L \in 1 .. L /\ i - 1 \in Nat /\ i - 1 = openLimitOrderIds[k]
  BY <1>0, <1>1 DEF LimitType
<1>3. last \in Keys /\ k.book \in Books
  BY <1>0, <1>2, LimitKeys, KeyBook
<1>4. /\ openLimitOrders' = SwapPop(openLimitOrders, i)
      /\ openLimitOrderIds' = [moved EXCEPT ![k] = 0]
  BY <1>2 DEF UnregisterOpenLimitOrder
<1>5. /\ openLimitOrders' \in Seq(LimitOrder) /\ Len(openLimitOrders') = L - 1
      /\ \A j \in 1 .. L - 1 :
           openLimitOrders'[j] = IF j = i THEN openLimitOrders[L] ELSE openLimitOrders[j]
  BY <1>0, <1>1, <1>4, SwapPopType DEF LimitType
<1>6. /\ openLimitOrderIds' \in [Keys -> Nat]
      /\ openLimitOrderIds'[k] = 0
      /\ k # last => openLimitOrderIds'[last] = i - 1
      /\ \A q \in Keys : q # k /\ q # last => openLimitOrderIds'[q] = openLimitOrderIds[q]
  <2>1. moved \in [Keys -> Nat]
    BY <1>0, <1>2, <1>3 DEF LimitType
  <2>2. /\ moved[last] = i - 1
        /\ \A q \in Keys : q # last => moved[q] = openLimitOrderIds[q]
    BY <1>0, <1>3 DEF LimitType
  <2> HIDE DEF moved
  <2>3. QED
    BY <1>3, <1>4, <2>1, <2>2
<1>7. LimitType'
  <2>1. openLimitOrdersCount[k.book] - 1 \in Nat
    <3>1. openLimitOrdersCount[k.book] \in Nat
      BY <1>0, <1>3 DEF LimitType
    <3>2. openLimitOrdersCount[k.book] > 0
      BY DEF UnregisterOpenLimitOrder
    <3>3. QED
      BY <3>1, <3>2
  <2>2. openLimitOrdersCount' \in [Books -> Nat]
    BY <1>0, <1>3, <2>1, CountStep DEF UnregisterOpenLimitOrder, LimitType
  <2>3. QED
    BY <1>5, <1>6, <2>2 DEF LimitType
<1>8. \A n \in 1 .. L : openLimitOrderIds[openLimitOrders[n].key] = n - 1
  BY DEF LimitRegistry
\* Two places of the array never have the same key.
<1>9. \A m, n \in 1 .. L : openLimitOrders[m].key = openLimitOrders[n].key => m = n
  <2> SUFFICES ASSUME NEW m \in 1 .. L, NEW n \in 1 .. L,
                      openLimitOrders[m].key = openLimitOrders[n].key
               PROVE  m = n
    OBVIOUS
  <2>1. m - 1 = n - 1
    BY <1>8
  <2>2. QED
    BY <1>2, <2>1
<1> HIDE DEF last, moved, i
<1>10. \A n \in 1 .. L - 1 : openLimitOrderIds'[openLimitOrders'[n].key] = n - 1
  <2> SUFFICES ASSUME NEW n \in 1 .. L - 1
               PROVE  openLimitOrderIds'[openLimitOrders'[n].key] = n - 1
    OBVIOUS
  <2>1. n \in 1 .. L /\ n # L /\ L \in 1 .. L
    BY <1>2
  <2>2. CASE n = i
    <3>1. openLimitOrders'[n].key = last
      BY <1>5, <2>2 DEF last
    <3>2. k # last
      BY <1>1, <1>9, <2>1, <2>2 DEF last
    <3>3. QED
      BY <1>6, <2>2, <3>1, <3>2
  <2>3. CASE n # i
    <3>1. openLimitOrders'[n].key = openLimitOrders[n].key
      BY <1>5, <2>3
    <3>2. openLimitOrders[n].key # k /\ openLimitOrders[n].key # last
      <4>1. openLimitOrders[n].key # k
        BY <1>1, <1>9, <2>1, <2>3
      <4>2. openLimitOrders[n].key # last
        BY <1>9, <2>1 DEF last
      <4>3. QED
        BY <4>1, <4>2
    <3>3. openLimitOrders[n].key \in Keys
      BY <1>0, <2>1, LimitKeys
    <3>4. QED
      BY <1>6, <1>8, <2>1, <3>1, <3>2, <3>3
  <2>4. QED
    BY <2>2, <2>3
<1>11. ASSUME NEW q \in Keys, openLimitOrderIds'[q] # 0
       PROVE  HasOpenLimitOrder(q)'
  <2>1. q # k
    BY <1>6, <1>11
  <2>2. CASE q = last
    <3>1. openLimitOrderIds'[q] = i - 1
      BY <1>6, <2>1, <2>2
    <3>2. i # L
      BY <1>1, <2>1, <2>2 DEF last
    <3>3. i \in 1 .. L - 1 /\ i - 1 < L - 1 /\ (i - 1) + 1 = i
      BY <1>1, <1>2, <3>2
    <3>4. openLimitOrders'[i].key = last /\ openLimitOrders' # <<>>
      <4>1. openLimitOrders'[i] = openLimitOrders[L]
        BY <1>5, <3>3
      <4>2. Len(openLimitOrders') > 0
        BY <1>2, <1>5, <3>3
      <4>3. QED
        BY <4>1, <4>2 DEF last
    <3>5. openLimitOrderIds'[q] + 1 = i /\ openLimitOrderIds'[q] < Len(openLimitOrders')
      BY <1>5, <3>1, <3>3
    <3>6. openLimitOrders'[openLimitOrderIds'[q] + 1].key = q
      BY <2>2, <3>4, <3>5
    <3>7. QED
      BY <3>4, <3>5, <3>6 DEF HasOpenLimitOrder
  <2>3. CASE q # last
    <3> DEFINE m == openLimitOrderIds[q] + 1
    <3>1. openLimitOrderIds'[q] = openLimitOrderIds[q]
      BY <1>6, <2>1, <2>3
    <3>2. HasOpenLimitOrder(q)
      BY <1>11, <3>1 DEF LimitRegistry
    <3>3. m \in 1 .. L /\ openLimitOrders[m].key = q
      BY <3>2, LimitOrderAt
    <3>4. m # i /\ m # L
      BY <1>1, <2>1, <2>3, <3>3 DEF last
    <3>5. m \in 1 .. L - 1 /\ openLimitOrderIds'[q] < L - 1
      BY <1>0, <1>2, <3>1, <3>3, <3>4 DEF LimitType
    <3>6. openLimitOrders'[m].key = q /\ openLimitOrders' # <<>>
      BY <1>2, <1>5, <3>3, <3>4, <3>5, SMTT(30)
    <3>7. openLimitOrders'[openLimitOrderIds'[q] + 1].key = q
      BY <3>1, <3>6
    <3>8. openLimitOrderIds'[q] < Len(openLimitOrders')
      BY <1>5, <3>5
    <3>9. QED
      BY <3>6, <3>7, <3>8 DEF HasOpenLimitOrder
  <2>4. QED
    BY <2>2, <2>3
<1>12. QED
  BY <1>5, <1>7, <1>10, <1>11 DEF LimitRegistry

\* Editing an order in place leaves the registry as it is.
LEMMA EditLimitKeepsRegistry ==
    ASSUME TypeOK, LimitRegistry, NEW k \in Keys, HasOpenLimitOrder(k),
           NEW o \in LimitOrder, o.key = k,
           openLimitOrders' =
             [openLimitOrders EXCEPT ![openLimitOrderIds[k] + 1] = o],
           UNCHANGED <<openLimitOrderIds, openLimitOrdersCount>>
    PROVE  LimitType' /\ LimitRegistry'
<1> DEFINE L == Len(openLimitOrders)
           i == openLimitOrderIds[k] + 1
<1>0. LimitType
  BY DEF LimitType, TypeOK
<1>1. i \in 1 .. L /\ openLimitOrders[i].key = k
  BY LimitOrderAt
<1> HIDE DEF i
<1>2. openLimitOrders' = [openLimitOrders EXCEPT ![i] = o]
  BY DEF i
<1>3. /\ openLimitOrders' \in Seq(LimitOrder) /\ Len(openLimitOrders') = L
      /\ openLimitOrders'[i] = o
      /\ \A n \in 1 .. L : n # i => openLimitOrders'[n] = openLimitOrders[n]
  <2> DEFINE r == [openLimitOrders EXCEPT ![i] = o]
  <2>1. /\ r \in Seq(LimitOrder) /\ Len(r) = L
        /\ \A n \in 1 .. L : r[n] = IF n = i THEN o ELSE openLimitOrders[n]
    BY <1>0, <1>1, ExceptSeq DEF LimitType
  <2> HIDE DEF r
  <2>2. QED
    BY <1>1, <1>2, <2>1 DEF r
<1>4. \A n \in 1 .. L : openLimitOrders'[n].key = openLimitOrders[n].key
  BY <1>1, <1>3
<1>5. LimitType'
  BY <1>0, <1>3 DEF LimitType
<1>6. \A n \in 1 .. Len(openLimitOrders') :
        openLimitOrderIds'[openLimitOrders'[n].key] = n - 1
  BY <1>3, <1>4 DEF LimitRegistry
<1>7. ASSUME NEW q \in Keys, openLimitOrderIds'[q] # 0
      PROVE  HasOpenLimitOrder(q)'
  <2>1. HasOpenLimitOrder(q)
    BY <1>7 DEF LimitRegistry
  <2>2. openLimitOrderIds[q] + 1 \in 1 .. L /\ openLimitOrderIds[q] < L
    BY <1>0, <2>1, LimitOrderAt DEF LimitType
  <2>3. openLimitOrders'[openLimitOrderIds'[q] + 1].key = q
    BY <1>4, <2>1, <2>2 DEF HasOpenLimitOrder
  <2>4. openLimitOrders' # <<>> /\ openLimitOrderIds'[q] < Len(openLimitOrders')
    BY <1>3, <2>2
  <2>5. QED
    BY <2>3, <2>4 DEF HasOpenLimitOrder
<1>8. QED
  BY <1>5, <1>6, <1>7 DEF LimitRegistry

LEMMA LimitsUnchanged ==
    ASSUME TypeOK, LimitRegistry, UNCHANGED limitVars
    PROVE  LimitType' /\ LimitRegistry'
BY DEF TypeOK, LimitType, LimitRegistry, HasOpenLimitOrder, limitVars

-----------------------------------------------------------------------------
(* The registry of pending market orders. *)

\* A pending order is found in the list of its trader.
LEMMA PendingIsListed ==
    ASSUME PendingRegistry, NEW id \in OrderIds,
           reqIDpendingMarketOrder[id] # NoOrder
    PROVE  Listed(id)
BY DEF PendingRegistry, Listed

\* A new order, whose id no list holds yet, goes to the end of its list.
LEMMA StorePendingKeepsRegistry ==
    ASSUME TypeOK, PendingRegistry, NEW id \in OrderIds, NEW o \in PendingOrder,
           NEW type \in {"MARKET_OPEN", "MARKET_CLOSE"},
           FreshOrder(id), orders' = [orders EXCEPT ![id] = type],
           StorePendingMarketOrder(id, o)
    PROVE  PendingRegistry'
<1> DEFINE w == o.key.book.trader
           ids(t) == pendingOrderIds[t]
           req(x) == reqIDpendingMarketOrder[x]
<1>1. w \in Traders
  BY KeyBook DEF PendingOrder
<1>2. /\ id = currentOrderId /\ currentOrderId' = currentOrderId + 1
      /\ currentOrderId \in Nat
  BY LimitsAssumption DEF FreshOrder, TypeOK
<1>3. \A t \in Traders : ids(t) \in Seq(OrderIds)
  BY DEF TypeOK
<1>4. /\ pendingOrderIds' = [pendingOrderIds EXCEPT ![w] = Append(ids(w), id)]
      /\ reqIDpendingMarketOrder' = [reqIDpendingMarketOrder EXCEPT ![id] = o]
  BY DEF StorePendingMarketOrder
<1>5. /\ reqIDpendingMarketOrder'[id] = o /\ o # NoOrder
      /\ \A x \in OrderIds : x # id => reqIDpendingMarketOrder'[x] = req(x)
      /\ orders'[id] # "none"
      /\ \A x \in OrderIds : x # id => orders'[x] = orders[x]
  BY <1>4, NoOrderAssumption DEF TypeOK
<1>6. /\ Len(pendingOrderIds'[w]) = Len(ids(w)) + 1
      /\ pendingOrderIds'[w][Len(ids(w)) + 1] = id
      /\ \A i \in 1 .. Len(ids(w)) : pendingOrderIds'[w][i] = ids(w)[i]
      /\ \A t \in Traders : t # w => pendingOrderIds'[t] = ids(t)
  BY <1>1, <1>3, <1>4 DEF TypeOK
<1>7. \A t \in Traders : \A i \in 1 .. Len(ids(t)) :
        /\ ids(t)[i] \in OrderIds /\ ids(t)[i] # id
        /\ ids(t)[i] < currentOrderId
  <2> SUFFICES ASSUME NEW t \in Traders, NEW i \in 1 .. Len(ids(t))
               PROVE  /\ ids(t)[i] \in OrderIds /\ ids(t)[i] # id
                      /\ ids(t)[i] < currentOrderId
    OBVIOUS
  <2>1. ids(t)[i] \in OrderIds
    BY <1>3
  <2>2. ids(t)[i] < currentOrderId
    BY DEF PendingRegistry
  <2>3. QED
    BY <1>2, <2>1, <2>2 DEF OrderIds
<1>8. ASSUME NEW t \in Traders, NEW i \in 1 .. Len(pendingOrderIds'[t])
      PROVE  LET x == pendingOrderIds'[t][i] IN
             /\ reqIDpendingMarketOrder'[x] # NoOrder
             /\ reqIDpendingMarketOrder'[x].key.book.trader = t
             /\ orders'[x] # "none"
             /\ x < currentOrderId'
             /\ \A j \in 1 .. Len(pendingOrderIds'[t]) :
                  pendingOrderIds'[t][j] = x => j = i
  <2> DEFINE x == pendingOrderIds'[t][i]
  <2> DEFINE n == Len(ids(t))
  <2>0. n \in Nat
    BY <1>3
  \* A place of the list that was there before the new order.
  <2>1. ASSUME i \in 1 .. n, x = ids(t)[i],
               \A j \in 1 .. Len(pendingOrderIds'[t]) :
                 pendingOrderIds'[t][j] = x => j \in 1 .. n /\ ids(t)[j] = x
        PROVE  /\ reqIDpendingMarketOrder'[x] # NoOrder
               /\ reqIDpendingMarketOrder'[x].key.book.trader = t
               /\ orders'[x] # "none"
               /\ x < currentOrderId'
               /\ \A j \in 1 .. Len(pendingOrderIds'[t]) :
                    pendingOrderIds'[t][j] = x => j = i
    <3>1. /\ req(x) # NoOrder /\ req(x).key.book.trader = t /\ orders[x] # "none"
          /\ \A j \in 1 .. n : ids(t)[j] = x => j = i
      BY <2>1 DEF PendingRegistry
    <3>2. x \in OrderIds /\ x # id /\ x < currentOrderId
      BY <1>7, <2>1
    <3>3. x < currentOrderId'
      BY <1>2, <3>2 DEF OrderIds
    <3>4. QED
      BY <1>5, <2>1, <3>1, <3>2, <3>3
  <2>2. CASE t # w
    <3>1. pendingOrderIds'[t] = ids(t)
      BY <1>6, <2>2
    <3>2. QED
      BY <2>1, <3>1
  <2>3. CASE t = w
    <3>1. /\ Len(pendingOrderIds'[t]) = n + 1
          /\ pendingOrderIds'[t][n + 1] = id
          /\ \A j \in 1 .. n : pendingOrderIds'[t][j] = ids(t)[j] /\ ids(t)[j] # id
      BY <1>6, <1>7, <2>3
    <3> HIDE DEF n
    <3>2. \A j \in 1 .. n + 1 : j \in 1 .. n \/ j = n + 1
      BY <2>0
    <3>3. CASE i = n + 1
      <4>1. x = id
        BY <3>1, <3>3
      <4>2. \A j \in 1 .. Len(pendingOrderIds'[t]) :
              pendingOrderIds'[t][j] = x => j = i
        BY <3>1, <3>2, <3>3, <4>1
      <4>3. reqIDpendingMarketOrder'[x].key.book.trader = t
        BY <1>5, <2>3, <4>1
      <4>4. x < currentOrderId'
        BY <1>2, <4>1
      <4>5. QED
        BY <1>5, <4>1, <4>2, <4>3, <4>4
    <3>4. CASE i \in 1 .. n
      <4>1. x = ids(t)[i] /\ x # id
        BY <3>1, <3>4
      <4>2. \A j \in 1 .. Len(pendingOrderIds'[t]) :
              pendingOrderIds'[t][j] = x => j \in 1 .. n /\ ids(t)[j] = x
        BY <3>1, <3>2, <4>1
      <4>3. QED
        BY <2>1, <3>4, <4>1, <4>2
    <3>5. QED
      BY <3>1, <3>2, <3>3, <3>4
  <2>4. QED
    BY <2>2, <2>3
<1>9. ASSUME NEW x \in OrderIds, reqIDpendingMarketOrder'[x] # NoOrder
      PROVE  LET t == reqIDpendingMarketOrder'[x].key.book.trader IN
             \E i \in 1 .. Len(pendingOrderIds'[t]) : pendingOrderIds'[t][i] = x
  <2>1. CASE x = id
    BY <1>1, <1>3, <1>5, <1>6, <2>1
  <2>2. CASE x # id
    <3> DEFINE t == req(x).key.book.trader
    <3>1. reqIDpendingMarketOrder'[x] = req(x) /\ req(x) # NoOrder
      BY <1>5, <1>9, <2>2
    <3>2. t \in Traders
      BY <3>1, PendingOrderBook
    <3>3. PICK i \in 1 .. Len(ids(t)) : ids(t)[i] = x
      BY <3>1 DEF PendingRegistry
    <3>4. i \in 1 .. Len(pendingOrderIds'[t]) /\ pendingOrderIds'[t][i] = x
      <4>1. Len(ids(t)) \in Nat
        BY <1>3, <3>2
      <4>2. CASE t = w
        <5>1. Len(pendingOrderIds'[t]) = Len(ids(t)) + 1
          BY <1>6, <4>2
        <5>2. pendingOrderIds'[t][i] = ids(t)[i]
          BY <1>6, <3>3, <4>2
        <5>3. QED
          BY <3>3, <4>1, <5>1, <5>2
      <4>3. CASE t # w
        BY <1>6, <3>2, <3>3, <4>3
      <4>4. QED
        BY <4>2, <4>3
    <3>5. QED
      BY <3>1, <3>4
  <2>3. QED
    BY <2>1, <2>2
<1>10. QED
  BY <1>8, <1>9 DEF PendingRegistry

\* A settled or cancelled order leaves its list; the last id takes its place.
LEMMA UnregisterPendingKeepsRegistry ==
    ASSUME TypeOK, PendingRegistry, NEW id \in OrderIds,
           reqIDpendingMarketOrder[id] # NoOrder,
           UnregisterPendingOpen(id) \/ UnregisterPendingClose(id),
           orders' = orders \/ FulfilOrder(id),
           UNCHANGED currentOrderId
    PROVE  PendingRegistry'
<1> DEFINE w == reqIDpendingMarketOrder[id].key.book.trader
           ids(t) == pendingOrderIds[t]
           req(x) == reqIDpendingMarketOrder[x]
<1>1. w \in Traders
  BY PendingOrderBook
<1>2. PICK d : DropPendingId(id, d)
  BY PendingIsListed DEF UnregisterPendingOpen, UnregisterPendingClose
<1>3. \A t \in Traders : ids(t) \in Seq(OrderIds)
  BY DEF TypeOK
<1>4. /\ d \in 1 .. Len(ids(w)) /\ ids(w)[d] = id
      /\ pendingOrderIds' = [pendingOrderIds EXCEPT ![w] = SwapPop(ids(w), d)]
      /\ reqIDpendingMarketOrder' = [reqIDpendingMarketOrder EXCEPT ![id] = NoOrder]
  BY <1>2 DEF DropPendingId
<1>5. /\ reqIDpendingMarketOrder'[id] = NoOrder
      /\ \A x \in OrderIds : x # id =>
           reqIDpendingMarketOrder'[x] = req(x) /\ orders'[x] = orders[x]
  BY <1>4 DEF TypeOK, FulfilOrder
<1>6. /\ \A t \in Traders : t # w => pendingOrderIds'[t] = ids(t)
      /\ pendingOrderIds'[w] = SwapPop(ids(w), d)
  BY <1>1, <1>4 DEF TypeOK
<1>7. /\ Len(pendingOrderIds'[w]) = Len(ids(w)) - 1
      /\ \A j \in 1 .. Len(ids(w)) - 1 :
           pendingOrderIds'[w][j] = IF j = d THEN ids(w)[Len(ids(w))] ELSE ids(w)[j]
  <2> DEFINE s == ids(w)
  <2>1. s \in Seq(OrderIds) /\ d \in 1 .. Len(s)
    BY <1>1, <1>3, <1>4
  <2>2. pendingOrderIds'[w] = SwapPop(s, d)
    BY <1>6
  <2> HIDE DEF s
  <2>3. /\ Len(SwapPop(s, d)) = Len(s) - 1
        /\ \A j \in 1 .. Len(s) - 1 :
             SwapPop(s, d)[j] = IF j = d THEN s[Len(s)] ELSE s[j]
    BY <2>1, SwapPopType
  <2>4. QED
    BY <2>2, <2>3 DEF s
<1>8. \A t \in Traders : \A i \in 1 .. Len(ids(t)) :
        /\ ids(t)[i] \in OrderIds
        /\ req(ids(t)[i]) # NoOrder /\ req(ids(t)[i]).key.book.trader = t
        /\ orders[ids(t)[i]] # "none" /\ ids(t)[i] < currentOrderId
        /\ \A j \in 1 .. Len(ids(t)) : ids(t)[j] = ids(t)[i] => j = i
  BY <1>3 DEF PendingRegistry
\* What is listed now was listed before, at a place of its own, and is not id.
<1>9. \A t \in Traders : \A i \in 1 .. Len(pendingOrderIds'[t]) :
        \E m \in 1 .. Len(ids(t)) :
          /\ pendingOrderIds'[t][i] = ids(t)[m]
          /\ m = IF t = w /\ i = d THEN Len(ids(w)) ELSE i
          /\ t = w => m # d
  <2> SUFFICES ASSUME NEW t \in Traders, NEW i \in 1 .. Len(pendingOrderIds'[t])
               PROVE  \E m \in 1 .. Len(ids(t)) :
                        /\ pendingOrderIds'[t][i] = ids(t)[m]
                        /\ m = IF t = w /\ i = d THEN Len(ids(w)) ELSE i
                        /\ t = w => m # d
    OBVIOUS
  <2>0. Len(ids(w)) \in Nat /\ Len(ids(w)) \in 1 .. Len(ids(w))
    BY <1>1, <1>3, <1>4
  <2>i. t = w => i \in 1 .. Len(ids(w)) - 1 /\ i \in 1 .. Len(ids(w))
    <3> DEFINE N == Len(ids(w))
               M == Len(pendingOrderIds'[w])
    <3>1. N \in Nat /\ M = N - 1 /\ (t = w => i \in 1 .. M)
      BY <1>7, <2>0, Zenon
    <3> HIDE DEF N, M
    <3>2. t = w => i \in 1 .. N - 1 /\ i \in 1 .. N
      BY <3>1, SMT
    <3> QED
      BY <3>2 DEF N
  <2>1. CASE t # w
    BY <1>6, <2>1
  <2>2. CASE t = w /\ i = d
    <3>1. i \in 1 .. Len(ids(w)) - 1 /\ Len(ids(w)) # d
      <4> DEFINE N == Len(ids(w))
      <4>1. N \in Nat /\ i \in 1 .. N - 1 /\ i = d
        BY <2>0, <2>i, <2>2
      <4> HIDE DEF N
      <4>2. i \in 1 .. N - 1 /\ N # d
        BY <4>1, SMT
      <4> QED
        BY <4>2 DEF N
    <3>2. pendingOrderIds'[t][i] = ids(t)[Len(ids(w))]
      BY <1>7, <2>2, <3>1
    <3>3. QED
      BY <2>0, <2>2, <3>1, <3>2
  <2>3. CASE t = w /\ i # d
    <3>1. i \in 1 .. Len(ids(w)) - 1 /\ i \in 1 .. Len(ids(w))
      BY <2>i, <2>3, Zenon
    <3>2. pendingOrderIds'[t][i] = ids(t)[i]
      BY <1>7, <2>3, <3>1
    <3>3. QED
      BY <2>3, <3>1, <3>2
  <2>4. QED
    BY <2>1, <2>2, <2>3
<1>10. ASSUME NEW t \in Traders, NEW i \in 1 .. Len(pendingOrderIds'[t])
       PROVE  LET x == pendingOrderIds'[t][i] IN
              /\ reqIDpendingMarketOrder'[x] # NoOrder
              /\ reqIDpendingMarketOrder'[x].key.book.trader = t
              /\ orders'[x] # "none"
              /\ x < currentOrderId'
              /\ \A j \in 1 .. Len(pendingOrderIds'[t]) :
                   pendingOrderIds'[t][j] = x => j = i
  <2> DEFINE x == pendingOrderIds'[t][i]
  <2>1. PICK m \in 1 .. Len(ids(t)) :
          /\ x = ids(t)[m]
          /\ m = IF t = w /\ i = d THEN Len(ids(w)) ELSE i
          /\ t = w => m # d
    BY <1>9
  <2>2. /\ x \in OrderIds /\ req(x) # NoOrder /\ req(x).key.book.trader = t
        /\ orders[x] # "none" /\ x < currentOrderId
        /\ \A j \in 1 .. Len(ids(t)) : ids(t)[j] = x => j = m
    <3> DEFINE y == ids(t)[m]
    <3>1. /\ y \in OrderIds /\ req(y) # NoOrder /\ req(y).key.book.trader = t
          /\ orders[y] # "none" /\ y < currentOrderId
          /\ \A j \in 1 .. Len(ids(t)) : ids(t)[j] = y => j = m
      BY <1>8
    <3>2. x = y
      BY <2>1
    <3> HIDE DEF x, y
    <3>3. QED
      BY <3>1, <3>2
  <2>3. x # id
    BY <1>4, <2>1, <2>2
  <2>4. ASSUME NEW j \in 1 .. Len(pendingOrderIds'[t]), pendingOrderIds'[t][j] = x
        PROVE  j = i
    <3>1. PICK n \in 1 .. Len(ids(t)) :
            /\ pendingOrderIds'[t][j] = ids(t)[n]
            /\ n = IF t = w /\ j = d THEN Len(ids(w)) ELSE j
      BY <1>9
    <3>2. n = m
      BY <2>2, <2>4, <3>1
    <3>3. t = w => Len(pendingOrderIds'[t]) = Len(ids(w)) - 1 /\ Len(ids(w)) \in Nat
      BY <1>1, <1>3, <1>7
    <3>4. ASSUME t = w PROVE i # Len(ids(w)) /\ j # Len(ids(w))
      <4>1. Len(pendingOrderIds'[t]) = Len(ids(w)) - 1
        BY <3>3, <3>4
      <4> DEFINE n0 == Len(ids(w))
      <4>2. i \in 1 .. n0 - 1 /\ j \in 1 .. n0 - 1
        BY <4>1
      <4>3. n0 \in Nat
        BY <3>3, <3>4
      <4> HIDE DEF n0
      <4>4. i # n0 /\ j # n0
        BY <4>2, <4>3
      <4>5. QED
        BY <4>4 DEF n0
    <3>5. QED
      BY <2>1, <3>1, <3>2, <3>4
  <2>5. QED
    BY <1>5, <2>2, <2>3, <2>4
<1>11. ASSUME NEW x \in OrderIds, reqIDpendingMarketOrder'[x] # NoOrder
       PROVE  LET t == reqIDpendingMarketOrder'[x].key.book.trader IN
              \E i \in 1 .. Len(pendingOrderIds'[t]) : pendingOrderIds'[t][i] = x
  <2> DEFINE t == req(x).key.book.trader
  <2>1. x # id /\ reqIDpendingMarketOrder'[x] = req(x) /\ req(x) # NoOrder
    BY <1>5, <1>11
  <2>2. t \in Traders
    BY <2>1, PendingOrderBook
  <2>3. PICK i \in 1 .. Len(ids(t)) : ids(t)[i] = x
    BY <2>1 DEF PendingRegistry
  <2>4. CASE t # w
    BY <1>6, <2>1, <2>2, <2>3, <2>4
  <2>5. CASE t = w
    <3>1. i # d /\ Len(ids(w)) \in Nat
      BY <1>1, <1>3, <1>4, <2>1, <2>3, <2>5
    <3>2. CASE i = Len(ids(w))
      <4>1. d \in 1 .. Len(ids(w)) - 1
        BY <1>4, <3>1, <3>2
      <4>2. pendingOrderIds'[t][d] = x /\ d \in 1 .. Len(pendingOrderIds'[t])
        BY <1>7, <2>3, <2>5, <3>2, <4>1
      <4>3. QED
        BY <2>1, <4>2
    <3>3. CASE i # Len(ids(w))
      <4>1. i \in 1 .. Len(ids(w)) - 1
        BY <2>3, <2>5, <3>1, <3>3
      <4>2. pendingOrderIds'[t][i] = x /\ i \in 1 .. Len(pendingOrderIds'[t])
        BY <1>7, <2>3, <2>5, <3>1, <4>1
      <4>3. QED
        BY <2>1, <4>2
    <3>4. QED
      BY <3>2, <3>3
  <2>6. QED
    BY <2>4, <2>5
<1>12. QED
  BY <1>10, <1>11 DEF PendingRegistry

\* Steps that touch no pending order; an order already cancelled may lose its
\* entry in the aggregator.
LEMMA PendingUnchanged ==
    ASSUME TypeOK, PendingRegistry, UNCHANGED pendingVars,
           \/ orders' = orders
           \/ \E id \in OrderIds : reqIDpendingMarketOrder[id] = NoOrder /\ FulfilOrder(id),
           \/ currentOrderId' = currentOrderId
           \/ InstantOrder
    PROVE  PendingRegistry'
<1>1. currentOrderId \in Nat /\ currentOrderId' \in Nat /\ currentOrderId <= currentOrderId'
  BY LimitsAssumption DEF TypeOK, InstantOrder
<1>2. \A t \in Traders : \A i \in 1 .. Len(pendingOrderIds[t]) :
        pendingOrderIds[t][i] \in OrderIds
  BY DEF TypeOK
<1>3. \A x \in OrderIds : reqIDpendingMarketOrder[x] # NoOrder /\ orders[x] # "none"
        => orders'[x] # "none"
  BY DEF FulfilOrder, TypeOK
<1>4. \A x \in OrderIds : x < currentOrderId => x < currentOrderId'
  BY <1>1 DEF OrderIds
<1>5. UNCHANGED <<pendingOrderIds, reqIDpendingMarketOrder>>
  BY DEF pendingVars
<1>6. QED
  BY <1>2, <1>3, <1>4, <1>5 DEF PendingRegistry

-----------------------------------------------------------------------------
(* The inductive invariant: the slot budget holds because an order that is   *)
(* filled always leaves the counter it was in, and it does because the two   *)
(* registries always find it.                                                *)

IInv == TypeOK /\ LimitRegistry /\ PendingRegistry /\ SlotBudget

LEMMA InitIInv == Init => IInv
<1> SUFFICES ASSUME Init PROVE IInv
  OBVIOUS
<1>1. TypeOK
  BY InitType
<1>2. LimitRegistry
  BY DEF Init, LimitRegistry
<1>3. PendingRegistry
  BY DEF Init, PendingRegistry
<1>4. SlotBudget
  BY LimitsAssumption DEF Init, SlotBudget
<1>5. QED
  BY <1>1, <1>2, <1>3, <1>4 DEF IInv

\* The types again, put together from the parts a step changes.
TradeType ==
    /\ openTrades \in [Keys -> Trade]
    /\ beingMarketClosed \in [Keys -> BOOLEAN]
    /\ openTradesCount \in [Books -> Nat]
    /\ pairTraders \in [Pairs -> Seq(Traders)]
    /\ pairTradersId \in [Books -> Nat]

OracleType ==
    /\ orders \in [OrderIds -> {"none", "MARKET_OPEN", "MARKET_CLOSE"}]
    /\ currentOrderId \in 1 .. MaxOrders + 1
    /\ useBackupOnly \in BOOLEAN
    /\ storageShort \in BOOLEAN

LEMMA TypeParts == TypeOK <=> TradeType /\ PendingType /\ LimitType /\ OracleType
BY DEF TypeOK, TradeType, PendingType, LimitType, OracleType

LEMMA TypeStep ==
    ASSUME TradeType', PendingType', LimitType', OracleType'
    PROVE  TypeOK'
BY DEF TypeOK, TradeType, PendingType, LimitType, OracleType

LEMMA OracleStep ==
    ASSUME OracleType, UNCHANGED <<useBackupOnly, storageShort>>,
           \/ orders' = orders
           \/ \E id \in OrderIds, t \in {"none", "MARKET_OPEN", "MARKET_CLOSE"} :
                orders' = [orders EXCEPT ![id] = t],
           \/ currentOrderId' = currentOrderId
           \/ InstantOrder
    PROVE  OracleType'
<1>1. orders' \in [OrderIds -> {"none", "MARKET_OPEN", "MARKET_CLOSE"}]
  BY DEF OracleType
<1>2. currentOrderId' \in 1 .. MaxOrders + 1
  BY LimitsAssumption DEF OracleType, InstantOrder
<1>3. QED
  BY <1>1, <1>2 DEF OracleType

\* A book's load only grows where the guard left room for it.
LEMMA BudgetStep ==
    ASSUME SlotBudget,
           \A b \in Books :
             \/ openTradesCount'[b] + pendingMarketOpenCount'[b] + openLimitOrdersCount'[b]
                  <= MaxTradesPerPair
             \/ openTradesCount'[b] + pendingMarketOpenCount'[b] + openLimitOrdersCount'[b]
                  = openTradesCount[b] + pendingMarketOpenCount[b] + openLimitOrdersCount[b]
    PROVE  SlotBudget'
BY DEF SlotBudget

-----------------------------------------------------------------------------
(* One lemma per action. *)

LEMMA OpenTradeMarketStep ==
    ASSUME IInv, NEW b \in Books, NEW size \in Sizes, OpenTradeMarket(b, size)
    PROVE  IInv'
<1> DEFINE o == [key |-> Key(b, 0), amount |-> size]
<1>0. TypeOK /\ LimitRegistry /\ PendingRegistry /\ SlotBudget
  BY DEF IInv
<1>1. o \in PendingOrder /\ o.key.book = b
  BY KeyType, LimitsAssumption, AmountsAssumption DEF PendingOrder, Slots, Key
<1>2. PICK id \in OrderIds :
        /\ FreshOrder(id)
        /\ orders' = [orders EXCEPT ![id] = "MARKET_OPEN"]
        /\ StorePendingMarketOrder(id, o)
  BY DEF OpenTradeMarket
<1>3. /\ pendingMarketOpenCount' = [pendingMarketOpenCount EXCEPT ![b] = @ + 1]
      /\ pendingMarketCloseCount' = pendingMarketCloseCount
      /\ UNCHANGED <<tradeVars, beingMarketClosed, limitVars, useBackupOnly, storageShort>>
      /\ RoomForOrder(b)
  BY DEF OpenTradeMarket
<1> HIDE DEF o
<1>4. TypeOK'
  <2>1. TradeType'
    BY <1>0, <1>3 DEF TypeOK, TradeType, tradeVars
  <2>2. pendingMarketOpenCount' \in [Books -> Nat]
    <3>1. pendingMarketOpenCount[b] + 1 \in Nat
      BY <1>0 DEF TypeOK
    <3>2. QED
      BY <1>0, <1>3, <3>1, CountStep DEF TypeOK
  <2>3. PendingType'
    BY <1>0, <1>1, <1>2, <1>3, <2>2, StorePendingType DEF PendingType, TypeOK
  <2>4. OracleType'
    BY <1>0, <1>2, <1>3, OracleStep, TypeParts DEF FreshOrder, InstantOrder
  <2>5. QED
    BY <1>0, <1>3, <2>1, <2>3, <2>4, LimitsUnchanged, TypeStep
<1>5. LimitRegistry'
  BY <1>0, <1>3, LimitsUnchanged
<1>6. PendingRegistry'
  BY <1>0, <1>1, <1>2, StorePendingKeepsRegistry
<1>7. SlotBudget'
  <2>1. \A c \in Books : openTradesCount[c] \in Nat /\ pendingMarketOpenCount[c] \in Nat
                         /\ openLimitOrdersCount[c] \in Nat
    BY <1>0 DEF TypeOK
  <2>2. /\ openTradesCount' = openTradesCount
        /\ openLimitOrdersCount' = openLimitOrdersCount
        /\ pendingMarketOpenCount'[b] = pendingMarketOpenCount[b] + 1
        /\ \A c \in Books : c # b => pendingMarketOpenCount'[c] = pendingMarketOpenCount[c]
    BY <1>0, <1>3 DEF TypeOK, tradeVars, limitVars
  <2>3. openTradesCount[b] + pendingMarketOpenCount[b] + openLimitOrdersCount[b]
          < MaxTradesPerPair
    BY <1>3 DEF RoomForOrder
  <2>4. openTradesCount[b] + (pendingMarketOpenCount[b] + 1) + openLimitOrdersCount[b]
          <= MaxTradesPerPair
    BY <2>1, <2>3, LimitsAssumption
  <2>5. ASSUME NEW c \in Books
        PROVE  \/ openTradesCount'[c] + pendingMarketOpenCount'[c] + openLimitOrdersCount'[c]
                    <= MaxTradesPerPair
               \/ openTradesCount'[c] + pendingMarketOpenCount'[c] + openLimitOrdersCount'[c]
                    = openTradesCount[c] + pendingMarketOpenCount[c] + openLimitOrdersCount[c]
    <3>1. CASE c = b
      BY <2>2, <2>4, <3>1
    <3>2. CASE c # b
      BY <2>2, <3>2
    <3>3. QED
      BY <3>1, <3>2
  <2>6. QED
    BY <1>0, <2>5, BudgetStep
<1>8. QED
  BY <1>4, <1>5, <1>6, <1>7 DEF IInv

LEMMA OpenTradeLimitStep ==
    ASSUME IInv, NEW b \in Books, NEW size \in Sizes, NEW price \in Prices,
           NEW slip \in Slippages, OpenTradeLimit(b, size, price, slip)
    PROVE  IInv'
<1>0. TypeOK /\ LimitRegistry /\ PendingRegistry /\ SlotBudget
  BY DEF IInv
<1>1. PICK i \in Slots :
        /\ FirstEmptyOpenLimitIndex(b, i)
        /\ StoreOpenLimitOrder([key |-> Key(b, i), size |-> size, price |-> price,
                                slippageP |-> slip, ripe |-> FALSE])
  BY DEF OpenTradeLimit
<1> DEFINE o == [key |-> Key(b, i), size |-> size, price |-> price,
                 slippageP |-> slip, ripe |-> FALSE]
<1>2. o \in LimitOrder /\ o.key = Key(b, i) /\ o.key.book = b
  BY KeyType, AmountsAssumption DEF LimitOrder, Key
<1>3. ~HasOpenLimitOrder(o.key) /\ StoreOpenLimitOrder(o)
  BY <1>1 DEF FirstEmptyOpenLimitIndex, IsFirst
<1> HIDE DEF o
<1>4. LimitType' /\ LimitRegistry'
  BY <1>0, <1>2, <1>3, StoreLimitKeepsRegistry
<1>5. /\ UNCHANGED <<tradeVars, beingMarketClosed, pendingVars, orders,
                     currentOrderId, useBackupOnly, storageShort>>
      /\ RoomForOrder(b)
  BY DEF OpenTradeLimit
<1>6. TypeOK'
  <2>1. TradeType' /\ PendingType' /\ OracleType'
    BY <1>0, <1>5 DEF TypeOK, TradeType, PendingType, OracleType, tradeVars, pendingVars
  <2>2. QED
    BY <1>4, <2>1, TypeStep
<1>7. PendingRegistry'
  BY <1>0, <1>5, PendingUnchanged
<1>8. SlotBudget'
  <2>1. \A c \in Books : openTradesCount[c] \in Nat /\ pendingMarketOpenCount[c] \in Nat
                         /\ openLimitOrdersCount[c] \in Nat
    BY <1>0 DEF TypeOK
  <2>2. /\ openTradesCount' = openTradesCount
        /\ pendingMarketOpenCount' = pendingMarketOpenCount
        /\ openLimitOrdersCount'[b] = openLimitOrdersCount[b] + 1
        /\ \A c \in Books : c # b => openLimitOrdersCount'[c] = openLimitOrdersCount[c]
    BY <1>0, <1>2, <1>3, <1>5 DEF TypeOK, tradeVars, pendingVars, StoreOpenLimitOrder
  <2>3. openTradesCount[b] + pendingMarketOpenCount[b] + openLimitOrdersCount[b]
          < MaxTradesPerPair
    BY <1>5 DEF RoomForOrder
  <2>4. openTradesCount[b] + pendingMarketOpenCount[b] + (openLimitOrdersCount[b] + 1)
          <= MaxTradesPerPair
    BY <2>1, <2>3, LimitsAssumption
  <2>5. ASSUME NEW c \in Books
        PROVE  \/ openTradesCount'[c] + pendingMarketOpenCount'[c] + openLimitOrdersCount'[c]
                    <= MaxTradesPerPair
               \/ openTradesCount'[c] + pendingMarketOpenCount'[c] + openLimitOrdersCount'[c]
                    = openTradesCount[c] + pendingMarketOpenCount[c] + openLimitOrdersCount[c]
    <3>1. CASE c = b
      BY <2>2, <2>4, <3>1
    <3>2. CASE c # b
      BY <2>2, <3>2
    <3>3. QED
      BY <3>1, <3>2
  <2>6. QED
    BY <1>0, <2>5, BudgetStep
<1>9. QED
  BY <1>4, <1>6, <1>7, <1>8 DEF IInv

LEMMA CloseTradeMarketStep ==
    ASSUME IInv, NEW k \in Keys, NEW amount \in CloseAmounts,
           CloseTradeMarket(k, amount)
    PROVE  IInv'
<1>0. TypeOK /\ LimitRegistry /\ PendingRegistry /\ SlotBudget
  BY DEF IInv
<1> DEFINE o == [key |-> k, amount |-> amount]
<1>1. o \in PendingOrder /\ o.key = k
  BY <1>0, AmountsAssumption DEF TypeOK, Trade, PendingOrder
<1>2. PICK id \in OrderIds :
        /\ FreshOrder(id)
        /\ orders' = [orders EXCEPT ![id] = "MARKET_CLOSE"]
        /\ StorePendingMarketOrder(id, o)
  BY DEF CloseTradeMarket
<1>3. /\ pendingMarketCloseCount' = [pendingMarketCloseCount EXCEPT ![k.book] = @ + 1]
      /\ beingMarketClosed' = [beingMarketClosed EXCEPT ![k] = TRUE]
      /\ UNCHANGED <<tradeVars, pendingMarketOpenCount, limitVars, useBackupOnly, storageShort>>
  BY DEF CloseTradeMarket
<1> HIDE DEF o
<1>4. TypeOK'
  <2>0. beingMarketClosed' \in [Keys -> BOOLEAN]
    BY <1>0, <1>3 DEF TypeOK
  <2>1. TradeType'
    BY <1>0, <1>3, <2>0 DEF TypeOK, TradeType, tradeVars
  <2>2. pendingMarketCloseCount' \in [Books -> Nat]
    <3>1. k.book \in Books /\ pendingMarketCloseCount[k.book] + 1 \in Nat
      BY <1>0, KeyBook DEF TypeOK
    <3>2. QED
      BY <1>0, <1>3, <3>1, CountStep DEF TypeOK
  <2>3. PendingType'
    BY <1>0, <1>1, <1>2, <1>3, <2>2, StorePendingType DEF PendingType, TypeOK
  <2>4. OracleType'
    BY <1>0, <1>2, <1>3, OracleStep, TypeParts DEF FreshOrder, InstantOrder
  <2>5. QED
    BY <1>0, <1>3, <2>1, <2>3, <2>4, LimitsUnchanged, TypeStep
<1>5. LimitRegistry'
  BY <1>0, <1>3, LimitsUnchanged
<1>6. PendingRegistry'
  BY <1>0, <1>1, <1>2, StorePendingKeepsRegistry
<1>7. SlotBudget'
  BY <1>0, <1>3 DEF SlotBudget, tradeVars, limitVars
<1>8. QED
  BY <1>4, <1>5, <1>6, <1>7 DEF IInv

\* An amendment, and the ripening of an order, edit one element in place.
LEMMA EditLimitStep ==
    ASSUME IInv, NEW k \in Keys, HasOpenLimitOrder(k),
           NEW o \in LimitOrder, o.key = k,
           openLimitOrders' =
             [openLimitOrders EXCEPT ![openLimitOrderIds[k] + 1] = o],
           UNCHANGED <<openLimitOrderIds, openLimitOrdersCount, tradeVars,
                       beingMarketClosed, pendingVars, orders, currentOrderId,
                       useBackupOnly, storageShort>>
    PROVE  IInv'
<1>0. TypeOK /\ LimitRegistry /\ PendingRegistry /\ SlotBudget
  BY DEF IInv
<1>1. LimitType' /\ LimitRegistry'
  BY <1>0, EditLimitKeepsRegistry
<1>2. TypeOK'
  <2>1. TradeType' /\ PendingType' /\ OracleType'
    BY <1>0 DEF TypeOK, TradeType, PendingType, OracleType, tradeVars, pendingVars
  <2>2. QED
    BY <1>1, <2>1, TypeStep
<1>3. PendingRegistry'
  BY <1>0, PendingUnchanged
<1>4. SlotBudget'
  BY <1>0 DEF SlotBudget, tradeVars, pendingVars
<1>5. QED
  BY <1>1, <1>2, <1>3, <1>4 DEF IInv

LEMMA UpdateOpenLimitOrderStep ==
    ASSUME IInv, NEW k \in Keys, NEW price \in Prices, NEW slip \in Slippages,
           UpdateOpenLimitOrder(k, price, slip)
    PROVE  IInv'
<1> DEFINE n   == openLimitOrderIds[k] + 1
           old == openLimitOrders[n]
           o   == StoredLimitUpdate(old, [old EXCEPT !.price = price, !.slippageP = slip])
<1>0. TypeOK /\ HasOpenLimitOrder(k)
  BY DEF IInv, UpdateOpenLimitOrder
<1>1. n \in 1 .. Len(openLimitOrders) /\ old \in LimitOrder /\ old.key = k
  BY <1>0, LimitOrderAt
<1>2. o \in LimitOrder /\ o.key = k
  <2> HIDE DEF old
  <2>1. QED
    BY <1>1 DEF LimitOrder, StoredLimitUpdate
<1>3. openLimitOrders' = [openLimitOrders EXCEPT ![n] = o]
  BY <1>0, <1>1 DEF UpdateOpenLimitOrder, TypeOK
<1>4. UNCHANGED <<openLimitOrderIds, openLimitOrdersCount, tradeVars,
                  beingMarketClosed, pendingVars, orders, currentOrderId,
                  useBackupOnly, storageShort>>
  BY DEF UpdateOpenLimitOrder
<1> HIDE DEF o
<1>5. QED
  BY <1>0, <1>2, <1>3, <1>4, EditLimitStep

LEMMA LimitOrderRipensStep ==
    ASSUME IInv, NEW k \in Keys, LimitOrderRipens(k)
    PROVE  IInv'
<1> DEFINE n   == openLimitOrderIds[k] + 1
           old == openLimitOrders[n]
           o   == [old EXCEPT !.ripe = TRUE]
<1>0. TypeOK /\ HasOpenLimitOrder(k)
  BY DEF IInv, LimitOrderRipens
<1>1. n \in 1 .. Len(openLimitOrders) /\ old \in LimitOrder /\ old.key = k
  BY <1>0, LimitOrderAt
<1>2. o \in LimitOrder /\ o.key = k
  <2> HIDE DEF old
  <2>1. QED
    BY <1>1 DEF LimitOrder
<1>3. openLimitOrders' = [openLimitOrders EXCEPT ![n] = o]
  BY <1>0, <1>1 DEF LimitOrderRipens, TypeOK
<1>4. UNCHANGED <<openLimitOrderIds, openLimitOrdersCount, tradeVars,
                  beingMarketClosed, pendingVars, orders, currentOrderId,
                  useBackupOnly, storageShort>>
  BY DEF LimitOrderRipens
<1> HIDE DEF o
<1>5. QED
  BY <1>0, <1>2, <1>3, <1>4, EditLimitStep

LEMMA CancelOpenLimitOrderStep ==
    ASSUME IInv, NEW k \in Keys, CancelOpenLimitOrder(k)
    PROVE  IInv'
<1>0. TypeOK /\ LimitRegistry /\ PendingRegistry /\ SlotBudget
  BY DEF IInv
<1>1. /\ HasOpenLimitOrder(k) /\ UnregisterOpenLimitOrder(k)
      /\ UNCHANGED <<tradeVars, beingMarketClosed, pendingVars, orders,
                     currentOrderId, useBackupOnly, storageShort>>
  BY DEF CancelOpenLimitOrder
<1>2. LimitType' /\ LimitRegistry'
  BY <1>0, <1>1, UnregisterLimitKeepsRegistry
<1>3. TypeOK'
  <2>1. TradeType' /\ PendingType' /\ OracleType'
    BY <1>0, <1>1 DEF TypeOK, TradeType, PendingType, OracleType, tradeVars, pendingVars
  <2>2. QED
    BY <1>2, <2>1, TypeStep
<1>4. PendingRegistry'
  BY <1>0, <1>1, PendingUnchanged
<1>5. SlotBudget'
  <2>1. \A c \in Books : openLimitOrdersCount'[c] <= openLimitOrdersCount[c]
    BY <1>0, <1>1 DEF UnregisterOpenLimitOrder, TypeOK
  <2>2. openTradesCount' = openTradesCount /\ pendingMarketOpenCount' = pendingMarketOpenCount
    BY <1>1 DEF tradeVars, pendingVars
  <2>3. QED
    BY <1>0, <1>3, <2>1, <2>2, LimitsAssumption DEF SlotBudget, TypeOK
<1>6. QED
  BY <1>2, <1>3, <1>4, <1>5 DEF IInv

\* What a step does to the counters the budget adds up.
LEMMA StoreTradeCount ==
    ASSUME TypeOK, NEW k \in Keys, NEW coll, StoreTrade(k, coll)
    PROVE  /\ openTradesCount'[k.book] = openTradesCount[k.book] + 1
           /\ \A c \in Books : c # k.book => openTradesCount'[c] = openTradesCount[c]
<1>1. /\ openTradesCount \in [Books -> Nat]
      /\ openTradesCount' = [openTradesCount EXCEPT ![k.book] = @ + 1]
  BY DEF StoreTrade, TypeOK
<1>2. QED
  BY <1>1, KeyBook

LEMMA UnregisterTradeCount ==
    ASSUME TypeOK, NEW k \in Keys, UnregisterTrade(k)
    PROVE  \A c \in Books : openTradesCount'[c] <= openTradesCount[c]
<1>1. /\ openTradesCount \in [Books -> Nat]
      /\ openTradesCount' = [openTradesCount EXCEPT ![k.book] = @ - 1]
  BY DEF UnregisterTrade, TypeOK
<1>2. QED
  BY <1>1, KeyBook

LEMMA UnregisterPendingOpenCount ==
    ASSUME TypeOK, PendingRegistry, NEW id \in OrderIds,
           reqIDpendingMarketOrder[id] # NoOrder, UnregisterPendingOpen(id)
    PROVE  LET b == reqIDpendingMarketOrder[id].key.book IN
           /\ pendingMarketOpenCount'[b] = pendingMarketOpenCount[b] - 1
           /\ \A c \in Books : c # b =>
                pendingMarketOpenCount'[c] = pendingMarketOpenCount[c]
<1> DEFINE b == reqIDpendingMarketOrder[id].key.book
<1>1. /\ pendingMarketOpenCount \in [Books -> Nat] /\ b \in Books
      /\ pendingMarketOpenCount' = [pendingMarketOpenCount EXCEPT ![b] = @ - 1]
  BY PendingIsListed, PendingOrderBook DEF UnregisterPendingOpen, TypeOK
<1>2. QED
  BY <1>1

LEMMA UnregisterLimitCount ==
    ASSUME TypeOK, NEW k \in Keys, UnregisterOpenLimitOrder(k)
    PROVE  /\ openLimitOrdersCount'[k.book] = openLimitOrdersCount[k.book] - 1
           /\ \A c \in Books : c # k.book =>
                openLimitOrdersCount'[c] = openLimitOrdersCount[c]
<1>1. /\ openLimitOrdersCount \in [Books -> Nat]
      /\ openLimitOrdersCount' = [openLimitOrdersCount EXCEPT ![k.book] = @ - 1]
  BY DEF UnregisterOpenLimitOrder, TypeOK
<1>2. QED
  BY <1>1, KeyBook

\* No counter of the budget grows.
LEMMA BudgetShrinks ==
    ASSUME TypeOK, TypeOK', SlotBudget,
           \A c \in Books :
             /\ openTradesCount'[c] <= openTradesCount[c]
             /\ pendingMarketOpenCount'[c] <= pendingMarketOpenCount[c]
             /\ openLimitOrdersCount'[c] <= openLimitOrdersCount[c]
    PROVE  SlotBudget'
<1> SUFFICES ASSUME NEW c \in Books
             PROVE  openTradesCount'[c] + pendingMarketOpenCount'[c]
                      + openLimitOrdersCount'[c] <= MaxTradesPerPair
  BY DEF SlotBudget
<1>1. /\ openTradesCount[c] \in Nat /\ openTradesCount'[c] \in Nat
      /\ pendingMarketOpenCount[c] \in Nat /\ pendingMarketOpenCount'[c] \in Nat
      /\ openLimitOrdersCount[c] \in Nat /\ openLimitOrdersCount'[c] \in Nat
      /\ MaxTradesPerPair \in Nat
  BY LimitsAssumption DEF TypeOK
<1>2. openTradesCount[c] + pendingMarketOpenCount[c] + openLimitOrdersCount[c]
        <= MaxTradesPerPair
  BY DEF SlotBudget
<1>3. QED
  BY <1>1, <1>2

\* A request answered in its own transaction only uses an order id up.
LEMMA InstantStep ==
    ASSUME IInv, InstantOrder, TradeType', LimitType', LimitRegistry',
           UNCHANGED <<pendingVars, orders, useBackupOnly, storageShort>>
    PROVE  TypeOK' /\ LimitRegistry' /\ PendingRegistry'
<1>1. TypeOK /\ PendingRegistry /\ OracleType
  BY TypeParts DEF IInv
<1>2. PendingType'
  BY <1>1 DEF TypeOK, PendingType, pendingVars
<1>3. OracleType'
  BY <1>1, OracleStep
<1>4. PendingRegistry'
  BY <1>1, PendingUnchanged
<1>5. QED
  BY <1>2, <1>3, <1>4, TypeStep

\* The settlement or cancellation of a pending order, whatever it does to trades.
LEMMA SettleStep ==
    ASSUME IInv, NEW id \in OrderIds, reqIDpendingMarketOrder[id] # NoOrder,
           UnregisterPendingOpen(id) \/ UnregisterPendingClose(id),
           orders' = orders \/ FulfilOrder(id),
           TradeType', UNCHANGED <<limitVars, currentOrderId, useBackupOnly, storageShort>>
    PROVE  TypeOK' /\ LimitRegistry' /\ PendingRegistry'
<1>1. TypeOK /\ LimitRegistry /\ PendingRegistry /\ OracleType
  BY TypeParts DEF IInv
<1>2. PendingType'
  BY <1>1, UnregisterPendingType
<1>3. OracleType'
  BY <1>1, OracleStep DEF FulfilOrder
<1>4. LimitType' /\ LimitRegistry'
  BY <1>1, LimitsUnchanged
<1>5. PendingRegistry'
  BY <1>1, UnregisterPendingKeepsRegistry
<1>6. QED
  BY <1>2, <1>3, <1>4, <1>5, TypeStep

\* Margin and stop loss change the collateral of one trade.
LEMMA SetCollateralStep ==
    ASSUME IInv, NEW k \in Keys, NEW coll \in Nat, InstantOrder, SetCollateral(k, coll)
    PROVE  IInv'
<1>0. TypeOK /\ LimitRegistry /\ PendingRegistry /\ SlotBudget
  BY DEF IInv
<1>1. /\ openTrades' = [openTrades EXCEPT ![k].coll = coll]
      /\ UNCHANGED <<openTradesCount, pairTraders, pairTradersId,
                     beingMarketClosed, pendingVars, limitVars, orders, useBackupOnly, storageShort>>
  BY DEF SetCollateral
<1>2. TradeType'
  <2>1. openTrades' \in [Keys -> Trade]
    BY <1>0, <1>1 DEF TypeOK, Trade
  <2>2. QED
    BY <1>0, <1>1, <2>1 DEF TypeOK, TradeType
<1>3. LimitType' /\ LimitRegistry'
  BY <1>0, <1>1, LimitsUnchanged
<1>4. TypeOK' /\ LimitRegistry' /\ PendingRegistry'
  BY <1>1, <1>2, <1>3, InstantStep
<1>5. SlotBudget'
  BY <1>0, <1>1 DEF SlotBudget, pendingVars, limitVars
<1>6. QED
  BY <1>4, <1>5 DEF IInv

LEMMA UpdateMarginStep ==
    ASSUME IInv, NEW k \in Keys, NEW coll \in Sizes, UpdateMargin(k, coll)
    PROVE  IInv'
BY AmountsAssumption, SetCollateralStep DEF UpdateMargin

LEMMA UpdateSlStep ==
    ASSUME IInv, NEW k \in Keys, NEW fee \in Fees, UpdateSl(k, fee)
    PROVE  IInv'
<1>1. openTrades[k].coll \in Nat /\ fee \in Nat /\ fee <= openTrades[k].coll
  BY AmountsAssumption DEF UpdateSl, IInv, TypeOK, Trade
<1>2. openTrades[k].coll - fee \in Nat
  BY <1>1
<1>3. QED
  BY <1>2, SetCollateralStep DEF UpdateSl

LEMMA ExecuteLimitOpenStep ==
    ASSUME IInv, NEW k \in Keys, NEW fee \in Fees, ExecuteLimitOpen(k, fee)
    PROVE  IInv'
<1> DEFINE o == openLimitOrders[openLimitOrderIds[k] + 1]
<1>0. TypeOK /\ LimitRegistry /\ PendingRegistry /\ SlotBudget
  BY DEF IInv
<1>1. /\ HasOpenLimitOrder(k) /\ UnregisterOpenLimitOrder(k) /\ InstantOrder
      /\ fee <= o.size
      /\ UNCHANGED <<pendingVars, orders, useBackupOnly, storageShort>>
  BY DEF ExecuteLimitOpen
<1>2. PICK i \in Slots : StoreTrade(Key(k.book, i), o.size - fee)
  BY DEF ExecuteLimitOpen
<1>3. k.book \in Books /\ Key(k.book, i) \in Keys /\ Key(k.book, i).book = k.book
  BY KeyBook, KeyType DEF Key
<1>4. o.size - fee \in Nat
  <2>1. o.size \in Nat
    BY <1>0, <1>1, LimitOrderAt DEF LimitOrder
  <2>2. fee \in Nat
    BY AmountsAssumption
  <2> HIDE DEF o
  <2>3. o.size - fee \in Nat
    BY <1>1, <2>1, <2>2
  <2>4. QED
    BY <2>3
<1> HIDE DEF o
<1>5. TradeType'
  BY <1>0, <1>2, <1>3, <1>4, StoreTradeType DEF TradeType
<1>6. LimitType' /\ LimitRegistry'
  BY <1>0, <1>1, UnregisterLimitKeepsRegistry
<1>7. TypeOK' /\ LimitRegistry' /\ PendingRegistry'
  BY <1>1, <1>5, <1>6, InstantStep
<1>8. SlotBudget'
  <2>1. /\ openTradesCount'[k.book] = openTradesCount[k.book] + 1
        /\ \A c \in Books : c # k.book => openTradesCount'[c] = openTradesCount[c]
    BY <1>0, <1>2, <1>3, StoreTradeCount
  <2>2. /\ openLimitOrdersCount'[k.book] = openLimitOrdersCount[k.book] - 1
        /\ \A c \in Books : c # k.book =>
             openLimitOrdersCount'[c] = openLimitOrdersCount[c]
    BY <1>0, <1>1, UnregisterLimitCount
  <2>3. pendingMarketOpenCount' = pendingMarketOpenCount
    BY <1>1 DEF pendingVars
  <2>4. \A c \in Books : openTradesCount[c] \in Nat /\ pendingMarketOpenCount[c] \in Nat
                         /\ openLimitOrdersCount[c] \in Nat
    BY <1>0 DEF TypeOK
  <2>5. \A c \in Books :
          openTradesCount'[c] + pendingMarketOpenCount'[c] + openLimitOrdersCount'[c]
            = openTradesCount[c] + pendingMarketOpenCount[c] + openLimitOrdersCount[c]
    <3> SUFFICES ASSUME NEW c \in Books
                 PROVE  openTradesCount'[c] + pendingMarketOpenCount'[c]
                          + openLimitOrdersCount'[c]
                        = openTradesCount[c] + pendingMarketOpenCount[c]
                          + openLimitOrdersCount[c]
      OBVIOUS
    <3>1. CASE c = k.book
      BY <1>3, <2>1, <2>2, <2>3, <2>4, <3>1
    <3>2. CASE c # k.book
      BY <2>1, <2>2, <2>3, <3>2
    <3>3. QED
      BY <3>1, <3>2
  <2>6. QED
    BY <1>0, <2>5, BudgetStep
<1>9. QED
  BY <1>7, <1>8 DEF IInv

LEMMA ExecuteLimitCloseStep ==
    ASSUME IInv, NEW k \in Keys, NEW type, ExecuteLimitClose(k, type)
    PROVE  IInv'
<1>0. TypeOK /\ LimitRegistry /\ PendingRegistry /\ SlotBudget
  BY DEF IInv
<1>1. /\ InstantOrder /\ UnregisterTrade(k)
      /\ UNCHANGED <<pendingVars, limitVars, orders, useBackupOnly, storageShort>>
  BY DEF ExecuteLimitClose
<1>2. TradeType'
  BY <1>0, <1>1, UnregisterTradeType DEF TradeType
<1>3. LimitType' /\ LimitRegistry'
  BY <1>0, <1>1, LimitsUnchanged
<1>4. TypeOK' /\ LimitRegistry' /\ PendingRegistry'
  BY <1>1, <1>2, <1>3, InstantStep
<1>5. SlotBudget'
  <2>1. \A c \in Books :
          /\ openTradesCount'[c] <= openTradesCount[c]
          /\ pendingMarketOpenCount'[c] <= pendingMarketOpenCount[c]
          /\ openLimitOrdersCount'[c] <= openLimitOrdersCount[c]
    <3>1. \A c \in Books : openTradesCount'[c] <= openTradesCount[c]
      BY <1>0, <1>1, UnregisterTradeCount
    <3>2. \A c \in Books : /\ pendingMarketOpenCount'[c] <= pendingMarketOpenCount[c]
                           /\ openLimitOrdersCount'[c] <= openLimitOrdersCount[c]
      BY <1>0, <1>1 DEF TypeOK, pendingVars, limitVars
    <3>3. QED
      BY <3>1, <3>2
  <2>2. QED
    BY <1>0, <1>4, <2>1, BudgetShrinks
<1>6. QED
  BY <1>4, <1>5 DEF IInv

LEMMA ExecuteLimitMissStep ==
    ASSUME IInv, NEW k \in Keys, ExecuteLimitMiss(k)
    PROVE  IInv'
<1>0. TypeOK /\ LimitRegistry /\ PendingRegistry /\ SlotBudget
  BY DEF IInv
<1>1. /\ InstantOrder
      /\ UNCHANGED <<tradeVars, beingMarketClosed, pendingVars, limitVars, orders,
                     useBackupOnly, storageShort>>
  BY DEF ExecuteLimitMiss
<1>2. TradeType'
  BY <1>0, <1>1 DEF TypeOK, TradeType, tradeVars
<1>3. LimitType' /\ LimitRegistry'
  BY <1>0, <1>1, LimitsUnchanged
<1>4. TypeOK' /\ LimitRegistry' /\ PendingRegistry'
  BY <1>1, <1>2, <1>3, InstantStep
<1>5. SlotBudget'
  BY <1>0, <1>1 DEF SlotBudget, tradeVars, pendingVars, limitVars
<1>6. QED
  BY <1>4, <1>5 DEF IInv

LEMMA MarketOpenFillsStep ==
    ASSUME IInv, NEW id \in OrderIds, NEW fee \in Fees, MarketOpenFills(id, fee)
    PROVE  IInv'
<1> DEFINE o == reqIDpendingMarketOrder[id]
           b == o.key.book
<1>0. TypeOK /\ LimitRegistry /\ PendingRegistry /\ SlotBudget
  BY DEF IInv
<1>1. /\ o # NoOrder /\ fee <= o.amount
      /\ UnregisterPendingOpen(id) /\ FulfilOrder(id)
      /\ UNCHANGED <<limitVars, currentOrderId, useBackupOnly, storageShort>>
  BY DEF MarketOpenFills, Pending
<1>2. PICK i \in Slots : StoreTrade(Key(b, i), o.amount - fee)
  BY DEF MarketOpenFills
<1>3. b \in Books /\ o.amount \in Nat
  BY <1>0, <1>1, PendingOrderBook
<1>4. Key(b, i) \in Keys /\ Key(b, i).book = b
  BY <1>3, KeyType DEF Key
<1>5. o.amount - fee \in Nat
  <2> HIDE DEF o
  <2>1. fee \in Nat
    BY AmountsAssumption
  <2>2. QED
    BY <1>1, <1>3, <2>1
<1>6. TradeType'
  <2> HIDE DEF o
  <2>1. QED
    BY <1>0, <1>2, <1>4, <1>5, StoreTradeType DEF TradeType
<1>7. TypeOK' /\ LimitRegistry' /\ PendingRegistry'
  BY <1>1, <1>6, SettleStep
<1>8. SlotBudget'
  <2>1. /\ openTradesCount'[b] = openTradesCount[b] + 1
        /\ \A c \in Books : c # b => openTradesCount'[c] = openTradesCount[c]
    <3> HIDE DEF b
    <3>1. QED
      BY <1>0, <1>2, <1>4, StoreTradeCount
  <2>2. /\ pendingMarketOpenCount'[b] = pendingMarketOpenCount[b] - 1
        /\ \A c \in Books : c # b =>
             pendingMarketOpenCount'[c] = pendingMarketOpenCount[c]
    BY <1>0, <1>1, UnregisterPendingOpenCount
  <2>3. openLimitOrdersCount' = openLimitOrdersCount
    BY <1>1 DEF limitVars
  <2>4. \A c \in Books : openTradesCount[c] \in Nat /\ pendingMarketOpenCount[c] \in Nat
                         /\ openLimitOrdersCount[c] \in Nat
    BY <1>0 DEF TypeOK
  <2> HIDE DEF b
  <2>5. \A c \in Books :
          openTradesCount'[c] + pendingMarketOpenCount'[c] + openLimitOrdersCount'[c]
            = openTradesCount[c] + pendingMarketOpenCount[c] + openLimitOrdersCount[c]
    <3> SUFFICES ASSUME NEW c \in Books
                 PROVE  openTradesCount'[c] + pendingMarketOpenCount'[c]
                          + openLimitOrdersCount'[c]
                        = openTradesCount[c] + pendingMarketOpenCount[c]
                          + openLimitOrdersCount[c]
      OBVIOUS
    <3>1. CASE c = b
      BY <1>3, <2>1, <2>2, <2>3, <2>4, <3>1
    <3>2. CASE c # b
      BY <2>1, <2>2, <2>3, <3>2
    <3>3. QED
      BY <3>1, <3>2
  <2>6. QED
    BY <1>0, <2>5, BudgetStep
<1>9. QED
  BY <1>7, <1>8 DEF IInv

\* The other settlements and the cancellation only free what the order held.
LEMMA ReleaseStep ==
    ASSUME IInv, NEW id \in OrderIds, reqIDpendingMarketOrder[id] # NoOrder,
           UnregisterPendingOpen(id) \/ UnregisterPendingClose(id),
           orders' = orders \/ FulfilOrder(id),
           TradeType', UNCHANGED <<limitVars, currentOrderId, useBackupOnly, storageShort>>,
           \A c \in Books : openTradesCount'[c] <= openTradesCount[c]
    PROVE  IInv'
<1>0. TypeOK /\ PendingRegistry /\ SlotBudget
  BY DEF IInv
<1>1. TypeOK' /\ LimitRegistry' /\ PendingRegistry'
  BY SettleStep
<1>2. \A c \in Books : pendingMarketOpenCount'[c] <= pendingMarketOpenCount[c]
  <2>1. CASE UnregisterPendingOpen(id)
    <3> DEFINE b == reqIDpendingMarketOrder[id].key.book
    <3>1. /\ pendingMarketOpenCount'[b] = pendingMarketOpenCount[b] - 1
          /\ \A c \in Books : c # b =>
               pendingMarketOpenCount'[c] = pendingMarketOpenCount[c]
      BY <1>0, <2>1, UnregisterPendingOpenCount
    <3> HIDE DEF b
    <3>2. \A c \in Books : pendingMarketOpenCount[c] \in Nat
      BY <1>0 DEF TypeOK
    <3>3. SUFFICES ASSUME NEW c \in Books
                   PROVE  pendingMarketOpenCount'[c] <= pendingMarketOpenCount[c]
      OBVIOUS
    <3>4. CASE c = b
      BY <3>1, <3>2, <3>4
    <3>5. CASE c # b
      BY <3>1, <3>2, <3>5
    <3>6. QED
      BY <3>4, <3>5
  <2>2. CASE UnregisterPendingClose(id)
    <3>1. pendingMarketOpenCount' = pendingMarketOpenCount
      BY <1>0, <2>2, PendingIsListed DEF UnregisterPendingClose
    <3>2. QED
      BY <1>0, <3>1 DEF TypeOK
  <2>3. QED
    BY <2>1, <2>2
<1>3. \A c \in Books : openLimitOrdersCount'[c] <= openLimitOrdersCount[c]
  BY <1>0 DEF TypeOK, limitVars
<1>4. SlotBudget'
  BY <1>0, <1>1, <1>2, <1>3, BudgetShrinks
<1>5. QED
  BY <1>1, <1>4 DEF IInv

\* Trades left alone keep their types, and the mark of a key may be cleared.
LEMMA TradesUnchanged ==
    ASSUME TypeOK, UNCHANGED tradeVars,
           \/ beingMarketClosed' = beingMarketClosed
           \/ \E id \in OrderIds : ClearBeingMarketClosed(id)
    PROVE  /\ TradeType'
           /\ \A c \in Books : openTradesCount'[c] <= openTradesCount[c]
<1>1. beingMarketClosed' \in [Keys -> BOOLEAN]
  BY DEF TypeOK, ClearBeingMarketClosed
<1>2. QED
  BY <1>1 DEF TypeOK, TradeType, tradeVars

LEMMA MarketOpenRefundsStep ==
    ASSUME IInv, NEW id \in OrderIds, MarketOpenRefunds(id)
    PROVE  IInv'
<1>1. /\ reqIDpendingMarketOrder[id] # NoOrder
      /\ UnregisterPendingOpen(id) /\ FulfilOrder(id)
      /\ UNCHANGED <<tradeVars, beingMarketClosed, limitVars, currentOrderId,
                     useBackupOnly, storageShort>>
  BY DEF MarketOpenRefunds, Pending
<1>2. TypeOK
  BY DEF IInv
<1>3. TradeType' /\ \A c \in Books : openTradesCount'[c] <= openTradesCount[c]
  BY <1>1, <1>2, TradesUnchanged
<1>4. QED
  BY <1>1, <1>3, ReleaseStep

LEMMA MarketOpenIgnoredStep ==
    ASSUME IInv, NEW id \in OrderIds, MarketOpenIgnored(id)
    PROVE  IInv'
<1>0. TypeOK /\ LimitRegistry /\ PendingRegistry /\ SlotBudget /\ OracleType
  BY TypeParts DEF IInv
<1>1. /\ reqIDpendingMarketOrder[id] = NoOrder /\ FulfilOrder(id)
      /\ UNCHANGED <<tradeVars, beingMarketClosed, pendingVars, limitVars,
                     currentOrderId, useBackupOnly, storageShort>>
  BY DEF MarketOpenIgnored
<1>2. TradeType' /\ PendingType'
  BY <1>0, <1>1, TradesUnchanged DEF TypeOK, PendingType, pendingVars
<1>3. OracleType'
  BY <1>0, <1>1, OracleStep DEF FulfilOrder
<1>4. LimitType' /\ LimitRegistry'
  BY <1>0, <1>1, LimitsUnchanged
<1>5. PendingRegistry'
  BY <1>0, <1>1, PendingUnchanged
<1>6. SlotBudget'
  BY <1>0, <1>1 DEF SlotBudget, tradeVars, pendingVars, limitVars
<1>7. QED
  BY <1>2, <1>3, <1>4, <1>5, <1>6, TypeStep DEF IInv

LEMMA MarketCloseFullStep ==
    ASSUME IInv, NEW id \in OrderIds, MarketCloseFull(id)
    PROVE  IInv'
<1> DEFINE k == reqIDpendingMarketOrder[id].key
<1>1. /\ reqIDpendingMarketOrder[id] # NoOrder
      /\ UnregisterTrade(k) /\ UnregisterPendingClose(id) /\ FulfilOrder(id)
      /\ UNCHANGED <<limitVars, currentOrderId, useBackupOnly, storageShort>>
  BY DEF MarketCloseFull, ClosesNow, Pending
<1>2. TypeOK /\ k \in Keys
  BY <1>1, PendingOrderBook DEF IInv
<1> HIDE DEF k
<1>3. TradeType' /\ \A c \in Books : openTradesCount'[c] <= openTradesCount[c]
  BY <1>1, <1>2, UnregisterTradeType, UnregisterTradeCount DEF TradeType
<1>4. QED
  BY <1>1, <1>3, ReleaseStep

LEMMA MarketClosePartialStep ==
    ASSUME IInv, NEW id \in OrderIds, NEW fee \in Fees, MarketClosePartial(id, fee)
    PROVE  IInv'
<1> DEFINE k   == reqIDpendingMarketOrder[id].key
           out == reqIDpendingMarketOrder[id].amount + fee
<1>1. /\ reqIDpendingMarketOrder[id] # NoOrder
      /\ RegisterPartialTrade(k, out) /\ UnregisterPendingClose(id)
      /\ ClearBeingMarketClosed(id) /\ FulfilOrder(id)
      /\ UNCHANGED <<limitVars, currentOrderId, useBackupOnly, storageShort>>
  BY DEF MarketClosePartial, ClosesNow, Pending
<1>2. TypeOK /\ k \in Keys /\ out \in Nat
  BY <1>1, PendingOrderBook, AmountsAssumption DEF IInv
<1> HIDE DEF k, out
<1>3. openTrades' \in [Keys -> Trade]
  <2>1. openTrades[k].coll \in Nat /\ out <= openTrades[k].coll
    BY <1>1, <1>2 DEF RegisterPartialTrade, TypeOK, Trade
  <2>2. openTrades[k].coll - out \in Nat
    BY <1>2, <2>1
  <2>3. openTrades' = [openTrades EXCEPT ![k].coll = openTrades[k].coll - out]
    BY <1>1, <1>2 DEF RegisterPartialTrade, TypeOK, Trade
  <2>4. QED
    BY <1>2, <2>2, <2>3 DEF TypeOK, Trade
<1>4. beingMarketClosed' \in [Keys -> BOOLEAN]
  BY <1>1, <1>2 DEF ClearBeingMarketClosed, TypeOK
<1>5. UNCHANGED <<openTradesCount, pairTraders, pairTradersId>>
  BY <1>1 DEF RegisterPartialTrade
<1>6. TradeType' /\ \A c \in Books : openTradesCount'[c] <= openTradesCount[c]
  BY <1>2, <1>3, <1>4, <1>5 DEF TypeOK, TradeType
<1>7. QED
  BY <1>1, <1>6, ReleaseStep

LEMMA MarketCloseLapsesStep ==
    ASSUME IInv, NEW id \in OrderIds, MarketCloseLapses(id)
    PROVE  IInv'
<1>1. /\ reqIDpendingMarketOrder[id] # NoOrder
      /\ UnregisterPendingClose(id) /\ ClearBeingMarketClosed(id) /\ FulfilOrder(id)
      /\ UNCHANGED <<tradeVars, limitVars, currentOrderId, useBackupOnly, storageShort>>
  BY DEF MarketCloseLapses, Pending
<1>2. TypeOK
  BY DEF IInv
<1>3. TradeType' /\ \A c \in Books : openTradesCount'[c] <= openTradesCount[c]
  BY <1>1, <1>2, TradesUnchanged
<1>4. QED
  BY <1>1, <1>3, ReleaseStep

LEMMA CancelPendingMarketOrderStep ==
    ASSUME IInv, NEW id \in OrderIds, CancelPendingMarketOrder(id)
    PROVE  IInv'
<1>1. /\ reqIDpendingMarketOrder[id] # NoOrder
      /\ UnregisterPendingOpen(id) \/ UnregisterPendingClose(id)
      /\ beingMarketClosed' = beingMarketClosed \/ ClearBeingMarketClosed(id)
      /\ UNCHANGED <<tradeVars, limitVars, orders, currentOrderId, useBackupOnly, storageShort>>
  BY DEF CancelPendingMarketOrder
<1>2. TypeOK
  BY DEF IInv
<1>3. TradeType' /\ \A c \in Books : openTradesCount'[c] <= openTradesCount[c]
  BY <1>1, <1>2, TradesUnchanged
<1>4. QED
  BY <1>1, <1>3, ReleaseStep

LEMMA UseBackUpOracleOnlyStep ==
    ASSUME IInv, NEW start \in BackupModes, UseBackUpOracleOnly(start)
    PROVE  IInv'
<1>0. TypeOK /\ LimitRegistry /\ PendingRegistry /\ SlotBudget
  BY DEF IInv
<1>1. /\ useBackupOnly' \in BOOLEAN
      /\ UNCHANGED <<tradeVars, beingMarketClosed, pendingVars, limitVars, orders,
                     currentOrderId, storageShort>>
  BY LimitsAssumption DEF UseBackUpOracleOnly
<1>2. TradeType' /\ PendingType' /\ OracleType'
  BY <1>0, <1>1, TradesUnchanged DEF TypeOK, PendingType, OracleType, pendingVars
<1>3. LimitType' /\ LimitRegistry'
  BY <1>0, <1>1, LimitsUnchanged
<1>4. PendingRegistry'
  BY <1>0, <1>1, PendingUnchanged
<1>5. SlotBudget'
  BY <1>0, <1>1 DEF SlotBudget, tradeVars, pendingVars, limitVars
<1>6. QED
  BY <1>2, <1>3, <1>4, <1>5, TypeStep DEF IInv

LEMMA StorageRunsShortStep ==
    ASSUME IInv, NEW short \in Shortages, StorageRunsShort(short)
    PROVE  IInv'
<1>0. TypeOK /\ LimitRegistry /\ PendingRegistry /\ SlotBudget
  BY DEF IInv
<1>1. /\ storageShort' \in BOOLEAN
      /\ UNCHANGED <<tradeVars, beingMarketClosed, pendingVars, limitVars, orders,
                     currentOrderId, useBackupOnly>>
  BY LimitsAssumption DEF StorageRunsShort
<1>2. TradeType' /\ PendingType' /\ OracleType'
  BY <1>0, <1>1, TradesUnchanged DEF TypeOK, PendingType, OracleType, pendingVars
<1>3. LimitType' /\ LimitRegistry'
  BY <1>0, <1>1, LimitsUnchanged
<1>4. PendingRegistry'
  BY <1>0, <1>1, PendingUnchanged
<1>5. SlotBudget'
  BY <1>0, <1>1 DEF SlotBudget, tradeVars, pendingVars, limitVars
<1>6. QED
  BY <1>2, <1>3, <1>4, <1>5, TypeStep DEF IInv

LEMMA StutterStep ==
    ASSUME IInv, UNCHANGED vars
    PROVE  IInv'
<1>0. TypeOK /\ LimitRegistry /\ PendingRegistry /\ SlotBudget
  BY DEF IInv
<1>1. UNCHANGED <<tradeVars, beingMarketClosed, pendingVars, limitVars, orders,
                  currentOrderId, useBackupOnly, storageShort>>
  BY DEF vars
<1>2. TradeType' /\ PendingType' /\ OracleType'
  BY <1>0, <1>1, TradesUnchanged DEF TypeOK, PendingType, OracleType, pendingVars
<1>3. LimitType' /\ LimitRegistry'
  BY <1>0, <1>1, LimitsUnchanged
<1>4. PendingRegistry'
  BY <1>0, <1>1, PendingUnchanged
<1>5. SlotBudget'
  BY <1>0, <1>1 DEF SlotBudget, tradeVars, pendingVars, limitVars
<1>6. QED
  BY <1>2, <1>3, <1>4, <1>5, TypeStep DEF IInv

-----------------------------------------------------------------------------
(* The theorems. *)

\* Every transaction of Trading, the operator and governance keeps IInv.
THEOREM NextKeepsIInv == IInv /\ [Next]_vars => IInv'
<1> SUFFICES ASSUME IInv, [Next]_vars PROVE IInv'
  OBVIOUS
<1>1. ASSUME NEW b \in Books, OnBook(b) PROVE IInv'
  BY <1>1, OpenTradeMarketStep, OpenTradeLimitStep DEF OnBook
<1>2. ASSUME NEW k \in Keys, OnKey(k) PROVE IInv'
  BY <1>2, CloseTradeMarketStep, UpdateOpenLimitOrderStep, CancelOpenLimitOrderStep,
     LimitOrderRipensStep, UpdateMarginStep, UpdateSlStep, ExecuteLimitOpenStep,
     ExecuteLimitCloseStep, ExecuteLimitMissStep DEF OnKey
<1>3. ASSUME NEW id \in OrderIds, ExecuteMarketOrder(id) PROVE IInv'
  BY <1>3, MarketOpenFillsStep, MarketOpenRefundsStep, MarketOpenIgnoredStep,
     MarketCloseFullStep, MarketClosePartialStep, MarketCloseLapsesStep
     DEF ExecuteMarketOrder
<1>4. ASSUME NEW id \in OrderIds, CancelPendingMarketOrder(id) PROVE IInv'
  BY <1>4, CancelPendingMarketOrderStep
<1>5. ASSUME NEW start \in BackupModes, UseBackUpOracleOnly(start) PROVE IInv'
  BY <1>5, UseBackUpOracleOnlyStep
<1>6. ASSUME NEW short \in Shortages, StorageRunsShort(short) PROVE IInv'
  BY <1>6, StorageRunsShortStep
<1>7. CASE UNCHANGED vars
  BY <1>7, StutterStep
<1>8. QED
  BY <1>1, <1>2, <1>3, <1>4, <1>5, <1>6, <1>7 DEF Next

\* The invariant holds in every state of every behaviour.
THEOREM IInvAlways == Spec => []IInv
<1>1. QED
  BY InitIInv, NextKeepsIInv, PTL DEF Spec

\* Every variable keeps its type, whatever the limits and the number of wallets.
THEOREM TypeCorrect == Spec => []TypeOK
<1>1. IInv => TypeOK
  BY DEF IInv
<1>2. QED
  BY <1>1, IInvAlways, PTL

\* The array of limit orders and the map into it always agree.
THEOREM LimitRegistryCorrect == Spec => []LimitRegistry
<1>1. IInv => LimitRegistry
  BY DEF IInv
<1>2. QED
  BY <1>1, IInvAlways, PTL

\* The lists of pending ids and the pending orders always agree.
THEOREM PendingRegistryCorrect == Spec => []PendingRegistry
<1>1. IInv => PendingRegistry
  BY DEF IInv
<1>2. QED
  BY <1>1, IInvAlways, PTL

\* maxTradesPerPair bounds open trades, pending opens and limit orders together.
THEOREM SlotBudgetCorrect == Spec => []SlotBudget
<1>1. IInv => SlotBudget
  BY DEF IInv
<1>2. QED
  BY <1>1, IInvAlways, PTL

-----------------------------------------------------------------------------
(* The terms of a limit order. *)

\* The order of a key is still there, with its terms.
Kept(k) == HasOpenLimitOrder(k)' /\ Terms(k)' = Terms(k)

\* An order is kept at another place of the array, or edited in a field that is
\* not one of its terms.
LEMMA KeptAt ==
    ASSUME NEW k \in Keys, HasOpenLimitOrder(k), NEW m \in Nat,
           openLimitOrderIds'[k] = m, Len(openLimitOrders') \in Nat,
           m < Len(openLimitOrders'), openLimitOrders' # <<>>,
           openLimitOrders'[m + 1].key = k,
           LET o == openLimitOrders[openLimitOrderIds[k] + 1] IN
           /\ openLimitOrders'[m + 1].size = o.size
           /\ openLimitOrders'[m + 1].price = o.price
           /\ openLimitOrders'[m + 1].slippageP = o.slippageP
    PROVE  Kept(k)
BY DEF Kept, HasOpenLimitOrder, Terms

\* Without a change of the limit orders.
LEMMA KeptUnchanged ==
    ASSUME NEW k \in Keys, HasOpenLimitOrder(k), UNCHANGED limitVars
    PROVE  Kept(k)
BY DEF Kept, HasOpenLimitOrder, Terms, limitVars

\* A new order of another key goes to the end.
LEMMA KeptByStore ==
    ASSUME TypeOK, NEW k \in Keys, HasOpenLimitOrder(k), NEW o \in LimitOrder, o.key # k,
           StoreOpenLimitOrder(o)
    PROVE  Kept(k)
<1> DEFINE L == Len(openLimitOrders)
           m == openLimitOrderIds[k]
<1>1. openLimitOrders \in Seq(LimitOrder) /\ openLimitOrderIds \in [Keys -> Nat]
  BY DEF TypeOK
<1>2. m + 1 \in 1 .. L /\ openLimitOrders[m + 1].key = k /\ m \in Nat /\ L \in Nat
  BY <1>1, LimitOrderAt
<1>3. /\ Len(openLimitOrders') = L + 1
      /\ \A n \in 1 .. L : openLimitOrders'[n] = openLimitOrders[n]
      /\ openLimitOrders' # <<>>
  BY <1>1 DEF StoreOpenLimitOrder
<1>4. openLimitOrderIds'[k] = m
  BY <1>1 DEF StoreOpenLimitOrder
<1>5. openLimitOrders'[m + 1] = openLimitOrders[m + 1] /\ m < Len(openLimitOrders')
      /\ Len(openLimitOrders') \in Nat
  BY <1>2, <1>3
<1> QED
  BY <1>2, <1>3, <1>4, <1>5, KeptAt

\* Deleting the order of another key keeps this one, at its place or at the
\* freed one.
LEMMA KeptByUnregister ==
    ASSUME TypeOK, LimitRegistry, NEW k \in Keys, HasOpenLimitOrder(k),
           NEW d \in Keys, d # k, HasOpenLimitOrder(d), UnregisterOpenLimitOrder(d)
    PROVE  Kept(k)
<1> DEFINE L    == Len(openLimitOrders)
           i    == openLimitOrderIds[d] + 1
           m    == openLimitOrderIds[k] + 1
           last == openLimitOrders[L].key
           moved == [openLimitOrderIds EXCEPT ![last] = i - 1]
<1>1. openLimitOrders \in Seq(LimitOrder) /\ openLimitOrderIds \in [Keys -> Nat]
      /\ LimitType
  BY DEF TypeOK, LimitType
<1>2. /\ i \in 1 .. L /\ openLimitOrders[i].key = d
      /\ m \in 1 .. L /\ openLimitOrders[m].key = k
  BY LimitOrderAt
<1>3. L \in Nat /\ L \in 1 .. L /\ i # m /\ i - 1 = openLimitOrderIds[d]
      /\ m - 1 = openLimitOrderIds[k] /\ i - 1 \in Nat /\ m - 1 \in Nat
  BY <1>1, <1>2
<1>4. last \in Keys
  BY <1>1, <1>3, LimitKeys
<1>5. /\ openLimitOrders' = SwapPop(openLimitOrders, i)
      /\ openLimitOrderIds' = [moved EXCEPT ![d] = 0]
  BY <1>3 DEF UnregisterOpenLimitOrder
<1>6. /\ Len(openLimitOrders') = L - 1 /\ openLimitOrders' \in Seq(LimitOrder)
      /\ \A j \in 1 .. L - 1 :
           openLimitOrders'[j] = IF j = i THEN openLimitOrders[L] ELSE openLimitOrders[j]
  BY <1>1, <1>2, <1>5, SwapPopType
<1>7. openLimitOrderIds'[k] = moved[k]
  BY <1>1, <1>5
<1>8. \A n \in 1 .. L : openLimitOrderIds[openLimitOrders[n].key] = n - 1
  BY DEF LimitRegistry
<1>9. CASE k = last
  <2>1. m = L
    <3>1. openLimitOrderIds[k] = L - 1
      BY <1>3, <1>8, <1>9
    <3> QED
      BY <1>3, <3>1
  <2>2. moved[k] = i - 1
    BY <1>1, <1>3, <1>9
  <2>3. i \in 1 .. L - 1 /\ i - 1 < L - 1 /\ (i - 1) + 1 = i /\ L - 1 \in Nat
    BY <1>2, <1>3, <2>1
  <2>4. openLimitOrders'[i] = openLimitOrders[m]
    BY <1>6, <2>1, <2>3
  <2> HIDE DEF i, m, moved
  <2>5. openLimitOrders' # <<>>
    <3>1. Len(openLimitOrders') > 0
      BY <1>3, <1>6, <2>3
    <3> QED
      BY <3>1
  <2>6. openLimitOrders'[(i - 1) + 1] = openLimitOrders[openLimitOrderIds[k] + 1]
    BY <2>3, <2>4 DEF m
  <2>7. openLimitOrders'[(i - 1) + 1].key = k
    BY <1>2, <2>6 DEF m
  <2> QED
    BY <1>3, <1>6, <1>7, <2>2, <2>3, <2>5, <2>6, <2>7, KeptAt
<1>10. CASE k # last
  <2>1. m # L
    BY <1>2, <1>10
  <2>2. moved[k] = m - 1
    BY <1>1, <1>3, <1>10
  <2>3. m \in 1 .. L - 1 /\ m - 1 < L - 1 /\ (m - 1) + 1 = m /\ L - 1 \in Nat
    BY <1>2, <1>3, <2>1
  <2>4. openLimitOrders'[m] = openLimitOrders[m]
    BY <1>3, <1>6, <2>3
  <2> HIDE DEF i, m, moved
  <2>5. openLimitOrders' # <<>>
    <3>1. Len(openLimitOrders') > 0
      BY <1>3, <1>6, <2>3
    <3> QED
      BY <3>1
  <2>6. openLimitOrders'[(m - 1) + 1] = openLimitOrders[openLimitOrderIds[k] + 1]
    BY <2>3, <2>4 DEF m
  <2>7. openLimitOrders'[(m - 1) + 1].key = k
    BY <1>2, <2>6 DEF m
  <2> QED
    BY <1>3, <1>6, <1>7, <2>2, <2>3, <2>5, <2>6, <2>7, KeptAt
<1> QED
  BY <1>9, <1>10

\* An edit in place keeps the orders of other keys, and this one when the edit
\* leaves its terms alone.
LEMMA KeptByEdit ==
    ASSUME TypeOK, NEW k \in Keys, HasOpenLimitOrder(k),
           NEW d \in Keys, HasOpenLimitOrder(d), NEW o \in LimitOrder, o.key = d,
           openLimitOrders' = [openLimitOrders EXCEPT ![openLimitOrderIds[d] + 1] = o],
           openLimitOrderIds' = openLimitOrderIds,
           LET old == openLimitOrders[openLimitOrderIds[d] + 1] IN
             d # k \/ /\ o.size = old.size /\ o.price = old.price
                      /\ o.slippageP = old.slippageP
    PROVE  Kept(k)
<1> DEFINE L == Len(openLimitOrders)
           i == openLimitOrderIds[d] + 1
           m == openLimitOrderIds[k] + 1
<1>1. openLimitOrders \in Seq(LimitOrder) /\ openLimitOrderIds \in [Keys -> Nat]
  BY DEF TypeOK
<1>2. /\ i \in 1 .. L /\ openLimitOrders[i].key = d
      /\ m \in 1 .. L /\ openLimitOrders[m].key = k
  BY LimitOrderAt
<1>3. L \in Nat /\ openLimitOrderIds[k] \in Nat /\ openLimitOrderIds[k] < L
  BY <1>1, <1>2
<1>4. /\ Len(openLimitOrders') = L
      /\ \A n \in 1 .. L : openLimitOrders'[n] = IF n = i THEN o ELSE openLimitOrders[n]
  BY <1>1, <1>2, ExceptSeq
<1>5. openLimitOrders' # <<>>
  <2>1. Len(openLimitOrders') > 0
    BY <1>3, <1>4
  <2> QED
    BY <2>1
<1>6. CASE m = i
  <2>1. d = k /\ openLimitOrders'[m] = o
    BY <1>2, <1>4, <1>6
  <2> QED
    BY <1>3, <1>4, <1>5, <2>1, KeptAt
<1>7. CASE m # i
  <2>1. openLimitOrders'[m] = openLimitOrders[m]
    BY <1>2, <1>4, <1>7
  <2> QED
    BY <1>2, <1>3, <1>4, <1>5, <2>1, KeptAt
<1> QED
  BY <1>6, <1>7

\* What a step does with the order of a key: it keeps it, or it is the step of
\* that order.
KeepsTerms(k) ==
    HasOpenLimitOrder(k) =>
      \/ HasOpenLimitOrder(k)' /\ Terms(k)' = Terms(k)
      \/ \E price \in Prices, slip \in Slippages : UpdateOpenLimitOrder(k, price, slip)
      \/ CancelOpenLimitOrder(k)
      \/ \E fee \in Fees : ExecuteLimitOpen(k, fee)

\* A new limit order is given an index that no order of the book has.
LEMMA OpenTradeLimitKeeps ==
    ASSUME TypeOK, NEW b \in Books, NEW size \in Sizes, NEW price \in Prices,
           NEW slip \in Slippages, OpenTradeLimit(b, size, price, slip),
           NEW k \in Keys, HasOpenLimitOrder(k)
    PROVE  Kept(k)
<1>1. PICK i \in Slots :
        /\ FirstEmptyOpenLimitIndex(b, i)
        /\ StoreOpenLimitOrder([key |-> Key(b, i), size |-> size, price |-> price,
                                slippageP |-> slip, ripe |-> FALSE])
  BY DEF OpenTradeLimit
<1> DEFINE o == [key |-> Key(b, i), size |-> size, price |-> price,
                 slippageP |-> slip, ripe |-> FALSE]
<1>2. Key(b, i) \in Keys
  BY KeyType
<1>3. o \in LimitOrder /\ o.key = Key(b, i)
  BY <1>2, AmountsAssumption DEF LimitOrder
<1>4. ~HasOpenLimitOrder(Key(b, i))
  BY <1>1 DEF FirstEmptyOpenLimitIndex, IsFirst
<1>5. StoreOpenLimitOrder(o)
  BY <1>1
<1> HIDE DEF o
<1> QED
  BY <1>3, <1>4, <1>5, KeptByStore

\* An amendment is of one order.
LEMMA UpdateOpenLimitOrderKeeps ==
    ASSUME TypeOK, NEW d \in Keys, NEW price \in Prices, NEW slip \in Slippages,
           UpdateOpenLimitOrder(d, price, slip), NEW k \in Keys, HasOpenLimitOrder(k),
           d # k
    PROVE  Kept(k)
<1> DEFINE n == openLimitOrderIds[d] + 1
           old == openLimitOrders[n]
           o == StoredLimitUpdate(old, [old EXCEPT !.price = price, !.slippageP = slip])
<1>1. HasOpenLimitOrder(d) /\ openLimitOrderIds' = openLimitOrderIds
  BY DEF UpdateOpenLimitOrder
<1>2. old \in LimitOrder /\ old.key = d
  BY <1>1, LimitOrderAt
<1>3. openLimitOrders' = [openLimitOrders EXCEPT ![n] = o]
  BY DEF UpdateOpenLimitOrder
<1> HIDE DEF old
<1>4. o \in LimitOrder /\ o.key = d
  BY <1>2 DEF StoredLimitUpdate, LimitOrder
<1> HIDE DEF o
<1> QED
  BY <1>1, <1>3, <1>4, KeptByEdit

\* The passing of blocks is not an amendment.
LEMMA LimitOrderRipensKeeps ==
    ASSUME TypeOK, NEW d \in Keys, LimitOrderRipens(d), NEW k \in Keys,
           HasOpenLimitOrder(k)
    PROVE  Kept(k)
<1> DEFINE n == openLimitOrderIds[d] + 1
           old == openLimitOrders[n]
           o == [old EXCEPT !.ripe = TRUE]
<1>1. HasOpenLimitOrder(d) /\ openLimitOrderIds' = openLimitOrderIds
  BY DEF LimitOrderRipens
<1>2. old \in LimitOrder /\ old.key = d
  BY <1>1, LimitOrderAt
<1>3. openLimitOrders' = [openLimitOrders EXCEPT ![n] = o]
  BY DEF LimitOrderRipens
<1>4. /\ o \in LimitOrder /\ o.key = d /\ o.size = old.size /\ o.price = old.price
      /\ o.slippageP = old.slippageP
  <2> HIDE DEF old
  <2> QED
    BY <1>2 DEF LimitOrder
<1> HIDE DEF o
<1> QED
  BY <1>1, <1>3, <1>4, KeptByEdit

\* No step changes the terms of an order, or its key, but the steps of that
\* order.
LEMMA NextKeepsTerms ==
    ASSUME IInv, Next, NEW k \in Keys
    PROVE  KeepsTerms(k)
<1>1. SUFFICES ASSUME HasOpenLimitOrder(k)
               PROVE  \/ Kept(k)
                      \/ \E price \in Prices, slip \in Slippages :
                           UpdateOpenLimitOrder(k, price, slip)
                      \/ CancelOpenLimitOrder(k)
                      \/ \E fee \in Fees : ExecuteLimitOpen(k, fee)
  BY DEF KeepsTerms, Kept
<1>2. TypeOK /\ LimitRegistry
  BY DEF IInv
<1>3. ASSUME UNCHANGED limitVars PROVE Kept(k)
  BY <1>1, <1>3, KeptUnchanged
<1>4. ASSUME NEW b \in Books, OnBook(b) PROVE Kept(k)
  <2>1. ASSUME NEW size \in Sizes, OpenTradeMarket(b, size) PROVE Kept(k)
    BY <2>1, <1>3 DEF OpenTradeMarket
  <2>2. ASSUME NEW size \in Sizes, NEW price \in Prices, NEW slip \in Slippages,
               OpenTradeLimit(b, size, price, slip)
        PROVE  Kept(k)
    BY <1>1, <1>2, <2>2, OpenTradeLimitKeeps
  <2> QED
    BY <1>4, <2>1, <2>2 DEF OnBook
<1>5. ASSUME NEW d \in Keys, OnKey(d)
      PROVE  \/ Kept(k)
             \/ \E price \in Prices, slip \in Slippages :
                  UpdateOpenLimitOrder(k, price, slip)
             \/ CancelOpenLimitOrder(k)
             \/ \E fee \in Fees : ExecuteLimitOpen(k, fee)
  <2>1. ASSUME NEW amount \in CloseAmounts, CloseTradeMarket(d, amount) PROVE Kept(k)
    BY <2>1, <1>3 DEF CloseTradeMarket
  <2>2. ASSUME NEW price \in Prices, NEW slip \in Slippages,
               UpdateOpenLimitOrder(d, price, slip), d # k
        PROVE  Kept(k)
    BY <1>1, <1>2, <2>2, UpdateOpenLimitOrderKeeps
  <2>3. ASSUME CancelOpenLimitOrder(d), d # k PROVE Kept(k)
    BY <1>1, <1>2, <2>3, KeptByUnregister DEF CancelOpenLimitOrder
  <2>4. ASSUME LimitOrderRipens(d) PROVE Kept(k)
    BY <1>1, <1>2, <2>4, LimitOrderRipensKeeps
  <2>5. ASSUME NEW coll \in Sizes, UpdateMargin(d, coll) PROVE Kept(k)
    BY <2>5, <1>3 DEF UpdateMargin, SetCollateral
  <2>6. ASSUME NEW fee \in Fees, UpdateSl(d, fee) PROVE Kept(k)
    BY <2>6, <1>3 DEF UpdateSl, SetCollateral
  <2>7. ASSUME NEW fee \in Fees, ExecuteLimitOpen(d, fee), d # k PROVE Kept(k)
    BY <1>1, <1>2, <2>7, KeptByUnregister DEF ExecuteLimitOpen
  <2>8. ASSUME NEW type \in {"TP", "SL", "LIQ"}, ExecuteLimitClose(d, type) PROVE Kept(k)
    BY <2>8, <1>3 DEF ExecuteLimitClose
  <2>9. ASSUME ExecuteLimitMiss(d) PROVE Kept(k)
    BY <2>9, <1>3 DEF ExecuteLimitMiss
  <2> QED
    BY <1>5, <2>1, <2>2, <2>3, <2>4, <2>5, <2>6, <2>7, <2>8, <2>9 DEF OnKey
<1>6. ASSUME NEW id \in OrderIds, ExecuteMarketOrder(id) PROVE Kept(k)
  BY <1>3, <1>6 DEF ExecuteMarketOrder, MarketOpenFills, MarketOpenRefunds,
     MarketOpenIgnored, MarketCloseFull, MarketClosePartial, MarketCloseLapses
<1>7. ASSUME NEW id \in OrderIds, CancelPendingMarketOrder(id) PROVE Kept(k)
  BY <1>3, <1>7 DEF CancelPendingMarketOrder
<1>8. ASSUME NEW start \in BackupModes, UseBackUpOracleOnly(start) PROVE Kept(k)
  BY <1>3, <1>8 DEF UseBackUpOracleOnly
<1>9. ASSUME NEW short \in Shortages, StorageRunsShort(short) PROVE Kept(k)
  BY <1>3, <1>9 DEF StorageRunsShort
<1> QED
  BY <1>4, <1>5, <1>6, <1>7, <1>8, <1>9 DEF Next

\* A limit order stays under its key with its terms until its trader amends or
\* cancels it or it is filled, with any number of orders moved in the array
\* (TradingStorage.sol:447-493).
THEOREM LimitOrdersKeepTheirTermsAlways == Spec => LimitOrdersKeepTheirTerms
<1>1. IInv /\ [Next]_vars => [\A k \in Keys : KeepsTerms(k)]_vars
  BY NextKeepsTerms
<1>2. Spec => [][\A k \in Keys : KeepsTerms(k)]_vars
  BY <1>1, IInvAlways, PTL DEF Spec
<1> QED
  BY <1>2 DEF LimitOrdersKeepTheirTerms, KeepsTerms

-----------------------------------------------------------------------------
(* The list of the traders of a pair. *)

\* The registry of one book.
Registered(b) ==
    LET p == pairTraders[b.pair] IN
    /\ openTradesCount[b] > 0 <=> \E i \in 1 .. Len(p) : p[i] = b.trader
    /\ \A i \in 1 .. Len(p) : p[i] = b.trader => pairTradersId[b] = i - 1

\* Books of one pair differ in their traders.
LEMMA BooksDiffer ==
    ASSUME NEW b \in Books, NEW c \in Books, b # c, b.pair = c.pair
    PROVE  b.trader # c.trader
BY DEF Books

LEMMA BookParts ==
    ASSUME TypeOK, NEW b \in Books
    PROVE  /\ b.trader \in Traders /\ b.pair \in Pairs
           /\ openTradesCount[b] \in Nat /\ pairTradersId[b] \in Nat
           /\ pairTraders[b.pair] \in Seq(Traders) /\ Len(pairTraders[b.pair]) \in Nat
<1>1. b.trader \in Traders /\ b.pair \in Pairs
  BY DEF Books
<1> QED
  BY <1>1 DEF TypeOK

\* A book whose count, list and place are left alone.
LEMMA RegisteredUnchanged ==
    ASSUME NEW b \in Books, Registered(b), openTradesCount'[b] = openTradesCount[b],
           pairTraders'[b.pair] = pairTraders[b.pair],
           pairTradersId'[b] = pairTradersId[b]
    PROVE  Registered(b)'
BY DEF Registered

\* The first trade of a trader on a pair puts him at the end of the list.
LEMMA StoreTradeKeepsTraders ==
    ASSUME TypeOK, TraderRegistry, NEW k \in Keys, NEW coll, StoreTrade(k, coll)
    PROVE  TraderRegistry'
<1> DEFINE b == k.book
           p == pairTraders[b.pair]
<1>1. b \in Books /\ b.pair \in Pairs /\ b.trader \in Traders
  BY KeyBook
<1>2. /\ openTradesCount'[b] = openTradesCount[b] + 1
      /\ \A c \in Books : c # b => openTradesCount'[c] = openTradesCount[c]
  BY StoreTradeCount
<1>3. /\ pairTraders \in [Pairs -> Seq(Traders)] /\ pairTradersId \in [Books -> Nat]
      /\ openTradesCount[b] \in Nat /\ p \in Seq(Traders) /\ Len(p) \in Nat
  BY <1>1 DEF TypeOK
<1>4. SUFFICES ASSUME NEW c \in Books PROVE Registered(c)'
  BY DEF TraderRegistry, Registered
<1>5. Registered(c) /\ Registered(b)
  BY <1>1 DEF TraderRegistry, Registered
<1>6. CASE openTradesCount[b] = 0
  <2>1. /\ pairTradersId' = [pairTradersId EXCEPT ![b] = Len(p)]
        /\ pairTraders' = [pairTraders EXCEPT ![b.pair] = Append(p, b.trader)]
    BY <1>6 DEF StoreTrade
  <2>2. /\ pairTradersId'[b] = Len(p)
        /\ \A d \in Books : d # b => pairTradersId'[d] = pairTradersId[d]
        /\ pairTraders'[b.pair] = Append(p, b.trader)
        /\ \A q \in Pairs : q # b.pair => pairTraders'[q] = pairTraders[q]
    BY <1>1, <1>3, <2>1
  <2> DEFINE r == Append(p, b.trader)
  <2>3. /\ Len(r) = Len(p) + 1 /\ r[Len(p) + 1] = b.trader
        /\ \A i \in 1 .. Len(p) : r[i] = p[i]
    BY <1>1, <1>3
  <2>4. c.pair \in Pairs
    BY BookParts
  <2> HIDE DEF r
  <2>5. CASE c.pair # b.pair
    BY <1>2, <1>5, <2>2, <2>4, <2>5, RegisteredUnchanged
  <2>6. CASE c = b
    <3>1. ~ \E i \in 1 .. Len(p) : p[i] = b.trader
      BY <1>5, <1>6 DEF Registered
    <3>2. openTradesCount'[b] > 0
      BY <1>2, <1>3
    <3>3. Len(p) + 1 \in 1 .. Len(r)
      BY <1>3, <2>3
    <3>4. ASSUME NEW i \in 1 .. Len(r), r[i] = b.trader PROVE i = Len(p) + 1
      BY <1>3, <2>3, <3>1, <3>4
    <3>5. pairTradersId'[b] = (Len(p) + 1) - 1
      BY <1>3, <2>2
    <3>6. pairTraders'[b.pair] = r
      BY <2>2 DEF r
    <3> QED
      BY <2>3, <2>6, <3>2, <3>3, <3>4, <3>5, <3>6 DEF Registered
  <2>7. CASE c.pair = b.pair /\ c # b
    <3>1. c.trader # b.trader
      BY <1>1, <2>7, BooksDiffer
    <3>2. \A i \in 1 .. Len(r) : r[i] = c.trader <=> i \in 1 .. Len(p) /\ p[i] = c.trader
      BY <1>3, <2>3, <3>1
    <3>3. \A i \in 1 .. Len(p) : i \in 1 .. Len(r)
      BY <1>3, <2>3
    <3>4. pairTraders'[c.pair] = r /\ pairTraders[c.pair] = p
      BY <2>2, <2>7 DEF r
    <3>5. pairTradersId'[c] = pairTradersId[c] /\ openTradesCount'[c] = openTradesCount[c]
      BY <1>2, <2>2, <2>7
    <3> QED
      BY <1>5, <3>2, <3>3, <3>4, <3>5 DEF Registered
  <2> QED
    BY <2>5, <2>6, <2>7
<1>7. CASE openTradesCount[b] # 0
  <2>1. UNCHANGED <<pairTraders, pairTradersId>>
    BY <1>7 DEF StoreTrade
  <2>2. CASE c = b
    <3>1. openTradesCount[b] > 0 /\ openTradesCount'[b] > 0
      BY <1>2, <1>3, <1>7
    <3> QED
      BY <1>5, <2>1, <2>2, <3>1 DEF Registered
  <2>3. CASE c # b
    BY <1>2, <1>5, <2>1, <2>3, RegisteredUnchanged
  <2> QED
    BY <2>2, <2>3
<1> QED
  BY <1>6, <1>7

\* Closing the last trade of a trader on a pair takes him off the list; the last
\* trader listed takes his place, and knows it.
LEMMA UnregisterTradeKeepsTraders ==
    ASSUME TypeOK, TraderRegistry, NEW k \in Keys, UnregisterTrade(k)
    PROVE  TraderRegistry'
<1> DEFINE b == k.book
           p == pairTraders[b.pair]
           i == pairTradersId[b] + 1
           L == Len(p)
           last == [b EXCEPT !.trader = p[L]]
           moved == [pairTradersId EXCEPT ![last] = i - 1]
<1>1. b \in Books /\ b.pair \in Pairs /\ b.trader \in Traders
  BY KeyBook
<1>2. /\ openTradesCount \in [Books -> Nat]
      /\ openTradesCount' = [openTradesCount EXCEPT ![b] = openTradesCount[b] - 1]
      /\ openTradesCount[b] > 0
  BY DEF UnregisterTrade, TypeOK
<1>3. /\ pairTraders \in [Pairs -> Seq(Traders)] /\ pairTradersId \in [Books -> Nat]
      /\ openTradesCount[b] \in Nat /\ p \in Seq(Traders) /\ L \in Nat
      /\ pairTradersId[b] \in Nat
  BY <1>1 DEF TypeOK
<1>4. /\ openTradesCount'[b] = openTradesCount[b] - 1
      /\ \A d \in Books : d # b => openTradesCount'[d] = openTradesCount[d]
  BY <1>1, <1>2
<1>5. SUFFICES ASSUME NEW c \in Books PROVE Registered(c)'
  BY DEF TraderRegistry, Registered
<1>6. Registered(c) /\ Registered(b)
  BY <1>1 DEF TraderRegistry, Registered
<1>7. CASE openTradesCount[b] = 1
  <2>1. /\ i \in 1 .. L
        /\ pairTraders' = [pairTraders EXCEPT ![b.pair] = SwapPop(p, i)]
        /\ pairTradersId' = [moved EXCEPT ![b] = 0]
    BY <1>7 DEF UnregisterTrade
  <2>2. p[i] = b.trader /\ \A j \in 1 .. L : p[j] = b.trader => j = i
    <3>1. \A j \in 1 .. L : p[j] = b.trader => pairTradersId[b] = j - 1
      BY <1>6 DEF Registered
    <3>2. \A j \in 1 .. L : p[j] = b.trader => j = i
      BY <1>3, <3>1
    <3>3. \E j \in 1 .. L : p[j] = b.trader
      BY <1>2, <1>6 DEF Registered
    <3> QED
      BY <3>2, <3>3
  <2> DEFINE r == SwapPop(p, i)
  <2>3. /\ Len(r) = L - 1
        /\ \A j \in 1 .. L - 1 : r[j] = IF j = i THEN p[L] ELSE p[j]
    <3>1. p \in Seq(Traders) /\ i \in 1 .. Len(p)
      BY <1>3, <2>1
    <3> HIDE DEF p, i
    <3> QED
      BY <3>1, SwapPopType
  <2>4. L \in 1 .. L /\ i \in Nat /\ i <= L
    BY <1>3, <2>1
  <2>5. last \in Books /\ last.pair = b.pair /\ last.trader = p[L]
    <3>1. p[L] \in Traders
      BY <1>3, <2>4
    <3> HIDE DEF p, L
    <3> QED
      BY <1>1, <3>1 DEF Books
  <2>6. /\ pairTraders'[b.pair] = r
        /\ \A q \in Pairs : q # b.pair => pairTraders'[q] = pairTraders[q]
    BY <1>1, <1>3, <2>1
  <2> HIDE DEF r
  <2>7. /\ pairTradersId'[b] = 0
        /\ last # b => pairTradersId'[last] = i - 1
        /\ \A d \in Books : d # b /\ d # last => pairTradersId'[d] = pairTradersId[d]
    <3> HIDE DEF last
    <3>1. /\ moved[last] = i - 1 /\ moved \in [Books -> Int]
          /\ \A d \in Books : d # last => moved[d] = pairTradersId[d]
      BY <1>3, <2>4, <2>5
    <3> HIDE DEF moved
    <3> QED
      BY <1>1, <2>1, <2>5, <3>1
  <2>8. c.pair \in Pairs
    BY BookParts
  <2>9. CASE c.pair # b.pair
    <3>1. c # b /\ c # last
      BY <2>5, <2>9
    <3> QED
      BY <1>4, <1>6, <2>6, <2>7, <2>8, <2>9, <3>1, RegisteredUnchanged
  <2>10. CASE c = b
    <3>1. ~(openTradesCount'[b] > 0)
      BY <1>4, <1>7
    <3>2. \A j \in 1 .. Len(r) : r[j] # b.trader
      <4>1. SUFFICES ASSUME NEW j \in 1 .. L - 1, r[j] = b.trader PROVE FALSE
        BY <2>3
      <4>2. j \in 1 .. L /\ j # L
        BY <1>3
      <4>3. CASE j = i
        BY <2>2, <2>3, <2>4, <4>1, <4>2, <4>3
      <4>4. CASE j # i
        BY <2>2, <2>3, <4>1, <4>2, <4>4
      <4> QED
        BY <4>3, <4>4
    <3> QED
      BY <2>6, <2>10, <3>1, <3>2 DEF Registered
  <2>11. CASE c.pair = b.pair /\ c # b
    <3>1. c.trader # b.trader
      BY <1>1, <2>11, BooksDiffer
    <3>2. pairTraders[c.pair] = p /\ pairTraders'[c.pair] = r
          /\ openTradesCount'[c] = openTradesCount[c]
      BY <1>4, <2>6, <2>11
    <3>3. \A j \in 1 .. L : p[j] = c.trader => pairTradersId[c] = j - 1
      BY <1>6, <3>2 DEF Registered
    <3>4. (\E j \in 1 .. L : p[j] = c.trader) => \E j \in 1 .. L - 1 : r[j] = c.trader
      <4>1. SUFFICES ASSUME NEW j \in 1 .. L, p[j] = c.trader
                     PROVE  \E h \in 1 .. L - 1 : r[h] = c.trader
        OBVIOUS
      <4>2. j # i
        BY <2>2, <3>1, <4>1
      <4>3. CASE j = L
        <5>1. i \in 1 .. L - 1
          BY <1>3, <2>1, <4>2, <4>3, SMTT(60)
        <5>2. r[i] = c.trader
          BY <2>3, <4>1, <4>3, <5>1
        <5> QED
          BY <5>1, <5>2
      <4>4. CASE j # L
        <5>1. j \in 1 .. L - 1
          BY <1>3, <4>4
        <5>2. r[j] = c.trader
          BY <2>3, <4>1, <4>2, <5>1
        <5> QED
          BY <5>1, <5>2
      <4> QED
        BY <4>3, <4>4
    <3>5. ASSUME NEW j \in 1 .. L - 1, r[j] = c.trader
          PROVE  /\ \E h \in 1 .. L : p[h] = c.trader
                 /\ pairTradersId'[c] = j - 1
      <4>1. j \in 1 .. L /\ j # L
        BY <1>3
      <4>2. CASE j = i
        <5>1. p[L] = c.trader
          BY <2>3, <3>5, <4>2
        <5>2. c = last
          <6>1. c = [trader |-> c.trader, pair |-> c.pair]
                /\ last = [trader |-> last.trader, pair |-> last.pair]
            BY <2>5 DEF Books
          <6> HIDE DEF last
          <6> QED
            BY <2>5, <2>11, <5>1, <6>1
        <5>3. pairTradersId'[c] = j - 1
          BY <2>7, <2>11, <4>2, <5>2
        <5> QED
          BY <2>4, <5>1, <5>3
      <4>3. CASE j # i
        <5>1. p[j] = c.trader
          BY <2>3, <3>5, <4>3
        <5>2. pairTradersId[c] = j - 1
          BY <3>3, <4>1, <5>1
        <5>3. c # last
          <6>1. SUFFICES ASSUME c = last PROVE FALSE
            OBVIOUS
          <6>2. p[L] = c.trader
            BY <2>5, <6>1
          <6>3. pairTradersId[c] = L - 1
            BY <2>4, <3>3, <6>2
          <6> QED
            BY <1>3, <4>1, <5>2, <6>3
        <5>4. pairTradersId'[c] = j - 1
          BY <2>7, <2>11, <5>2, <5>3
        <5> QED
          BY <4>1, <5>1, <5>4
      <4> QED
        BY <4>2, <4>3
    <3>6. openTradesCount[c] > 0 <=> \E j \in 1 .. L : p[j] = c.trader
      BY <1>6, <3>2 DEF Registered
    <3> QED
      BY <2>3, <3>2, <3>4, <3>5, <3>6 DEF Registered
  <2> QED
    BY <2>9, <2>10, <2>11
<1>8. CASE openTradesCount[b] # 1
  <2>1. UNCHANGED <<pairTraders, pairTradersId>>
    BY <1>8 DEF UnregisterTrade
  <2>2. CASE c = b
    <3>1. openTradesCount'[b] > 0
      BY <1>2, <1>3, <1>4, <1>8
    <3> QED
      BY <1>2, <1>6, <2>1, <2>2, <3>1 DEF Registered
  <2>3. CASE c # b
    BY <1>4, <1>6, <2>1, <2>3, RegisteredUnchanged
  <2> QED
    BY <2>2, <2>3
<1> QED
  BY <1>7, <1>8

\* Steps that register, close or leave alone a trade.
LEMMA NextKeepsTraders == IInv /\ TraderRegistry /\ [Next]_vars => TraderRegistry'
<1> SUFFICES ASSUME IInv, TraderRegistry, [Next]_vars PROVE TraderRegistry'
  OBVIOUS
<1>1. TypeOK
  BY DEF IInv
<1>2. ASSUME UNCHANGED <<openTradesCount, pairTraders, pairTradersId>>
      PROVE  TraderRegistry'
  BY <1>2 DEF TraderRegistry
<1>3. ASSUME NEW b \in Books, OnBook(b) PROVE TraderRegistry'
  BY <1>2, <1>3 DEF OnBook, OpenTradeMarket, OpenTradeLimit, tradeVars
<1>4. ASSUME NEW k \in Keys, OnKey(k) PROVE TraderRegistry'
  <2>1. ASSUME NEW fee \in Fees, ExecuteLimitOpen(k, fee) PROVE TraderRegistry'
    <3>1. PICK i \in Slots :
            StoreTrade(Key(k.book, i), openLimitOrders[openLimitOrderIds[k] + 1].size - fee)
      BY <2>1 DEF ExecuteLimitOpen
    <3>2. Key(k.book, i) \in Keys
      BY KeyBook, KeyType
    <3> QED
      BY <1>1, <3>1, <3>2, StoreTradeKeepsTraders
  <2>2. ASSUME NEW type \in {"TP", "SL", "LIQ"}, ExecuteLimitClose(k, type)
        PROVE  TraderRegistry'
    BY <1>1, <2>2, UnregisterTradeKeepsTraders DEF ExecuteLimitClose
  <2> QED
    BY <1>2, <1>4, <2>1, <2>2 DEF OnKey, CloseTradeMarket, UpdateOpenLimitOrder,
       CancelOpenLimitOrder, LimitOrderRipens, UpdateMargin, UpdateSl, SetCollateral,
       ExecuteLimitMiss, tradeVars
<1>5. ASSUME NEW id \in OrderIds, ExecuteMarketOrder(id) PROVE TraderRegistry'
  <2>1. ASSUME NEW fee \in Fees, MarketOpenFills(id, fee) PROVE TraderRegistry'
    <3> DEFINE o == reqIDpendingMarketOrder[id]
    <3>1. PICK i \in Slots : StoreTrade(Key(o.key.book, i), o.amount - fee)
      BY <2>1 DEF MarketOpenFills
    <3>2. Key(o.key.book, i) \in Keys
      <4>1. o # NoOrder
        BY <2>1 DEF MarketOpenFills, Pending
      <4> QED
        BY <1>1, <4>1, PendingOrderBook, KeyType
    <3> HIDE DEF o
    <3> QED
      BY <1>1, <3>1, <3>2, StoreTradeKeepsTraders
  <2>2. ASSUME MarketCloseFull(id) PROVE TraderRegistry'
    <3>1. reqIDpendingMarketOrder[id] # NoOrder
      BY <2>2 DEF MarketCloseFull, ClosesNow, Pending
    <3>2. reqIDpendingMarketOrder[id].key \in Keys
      BY <1>1, <3>1, PendingOrderBook
    <3> QED
      BY <1>1, <2>2, <3>2, UnregisterTradeKeepsTraders DEF MarketCloseFull
  <2> QED
    BY <1>2, <1>5, <2>1, <2>2 DEF ExecuteMarketOrder, MarketOpenRefunds,
       MarketOpenIgnored, MarketClosePartial, RegisterPartialTrade, MarketCloseLapses,
       tradeVars
<1>6. ASSUME NEW id \in OrderIds, CancelPendingMarketOrder(id) PROVE TraderRegistry'
  BY <1>2, <1>6 DEF CancelPendingMarketOrder, tradeVars
<1>7. ASSUME NEW start \in BackupModes, UseBackUpOracleOnly(start) PROVE TraderRegistry'
  BY <1>2, <1>7 DEF UseBackUpOracleOnly, tradeVars
<1>8. ASSUME NEW short \in Shortages, StorageRunsShort(short) PROVE TraderRegistry'
  BY <1>2, <1>8 DEF StorageRunsShort, tradeVars
<1>9. ASSUME UNCHANGED vars PROVE TraderRegistry'
  BY <1>2, <1>9 DEF vars, tradeVars
<1> QED
  BY <1>3, <1>4, <1>5, <1>6, <1>7, <1>8, <1>9 DEF Next

\* pairTraders lists exactly the traders with an open trade on the pair, and each
\* knows his place (TradingStorage.sol:275-278, 325-334).
THEOREM TraderRegistryCorrect == Spec => []TraderRegistry
<1>1. Init => TraderRegistry
  BY DEF Init, TraderRegistry, Books
<1> QED
  BY <1>1, NextKeepsTraders, IInvAlways, PTL DEF Spec

-----------------------------------------------------------------------------
(* The counters.  Each counts a set; a step adds one element to a set of one *)
(* book, removes one, or leaves the sets of a book alone.                    *)

TradesCounted == \A b \in Books : openTradesCount[b] = Cardinality(TradesOf(b))
LimitsCounted == \A b \in Books : openLimitOrdersCount[b] = Cardinality(LimitsOf(b))
PendingCounted ==
    \A b \in Books :
      /\ pendingMarketOpenCount[b] = Cardinality(PendingOf(b, "MARKET_OPEN"))
      /\ pendingMarketCloseCount[b] = Cardinality(PendingOf(b, "MARKET_CLOSE"))

LEMMA CountersParts == CountersExact <=> TradesCounted /\ LimitsCounted /\ PendingCounted
BY DEF CountersExact, TradesCounted, LimitsCounted, PendingCounted

\* A book has as many keys as slots.
LEMMA KeysFinite ==
    ASSUME NEW b \in Books
    PROVE  IsFiniteSet(KeysOf(b)) /\ Cardinality(KeysOf(b)) = MaxTradesPerPair
<1> DEFINE f == [i \in Slots |-> Key(b, i)]
<1>1. IsFiniteSet(Slots) /\ Cardinality(Slots) = MaxTradesPerPair
  <2>1. 0 \in Int /\ MaxTradesPerPair - 1 \in Int /\ ~(0 > MaxTradesPerPair - 1)
        /\ (MaxTradesPerPair - 1) - 0 + 1 = MaxTradesPerPair
    BY LimitsAssumption
  <2>2. /\ IsFiniteSet(0 .. MaxTradesPerPair - 1)
        /\ Cardinality(0 .. MaxTradesPerPair - 1) = (MaxTradesPerPair - 1) - 0 + 1
    BY <2>1, FS_Interval
  <2> QED
    BY <2>1, <2>2 DEF Slots
<1>2. \A i \in Slots : f[i] \in KeysOf(b)
  BY DEF KeysOf, Keys, Key
<1>3. \A i, j \in Slots : f[i] = f[j] => i = j
  BY DEF Key
<1>4. \A k \in KeysOf(b) : \E i \in Slots : f[i] = k
  <2>1. SUFFICES ASSUME NEW k \in KeysOf(b) PROVE \E i \in Slots : f[i] = k
    OBVIOUS
  <2>2. k.index \in Slots /\ k = [book |-> b, index |-> k.index]
    BY DEF KeysOf, Keys
  <2>3. f[k.index] = k
    BY <2>2 DEF Key
  <2> QED
    BY <2>2, <2>3
<1>5. f \in Bijection(Slots, KeysOf(b))
  <2>1. f \in [Slots -> KeysOf(b)]
    BY <1>2
  <2> HIDE DEF f
  <2> QED
    BY <1>3, <1>4, <2>1 DEF Bijection, Injection, Surjection, IsInjective
<1>6. ExistsBijection(Slots, KeysOf(b))
  BY <1>5 DEF ExistsBijection
<1> QED
  BY <1>1, <1>6, FS_Bijection

LEMMA SetsFinite ==
    ASSUME NEW b \in Books
    PROVE  /\ IsFiniteSet(TradesOf(b)) /\ IsFiniteSet(LimitsOf(b))
           /\ \A type : IsFiniteSet(PendingOf(b, type))
<1>1. IsFiniteSet(KeysOf(b))
  BY KeysFinite
<1>2. TradesOf(b) \in SUBSET KeysOf(b) /\ LimitsOf(b) \in SUBSET KeysOf(b)
  BY DEF TradesOf, LimitsOf
<1>3. IsFiniteSet(OrderIds)
  BY LimitsAssumption, FS_Interval DEF OrderIds
<1>4. ASSUME NEW type PROVE IsFiniteSet(PendingOf(b, type))
  <2>1. PendingOf(b, type) \in SUBSET OrderIds
    BY DEF PendingOf
  <2> QED
    BY <1>3, <2>1, FS_Subset
<1> QED
  BY <1>1, <1>2, <1>4, FS_Subset

\* A set grown or shrunk by one element.
LEMMA CountAdded ==
    ASSUME NEW S, NEW T, NEW x, IsFiniteSet(S), x \notin S, T = S \cup {x}
    PROVE  Cardinality(T) = Cardinality(S) + 1
BY FS_AddElement

LEMMA CountRemoved ==
    ASSUME NEW S, NEW T, NEW x, IsFiniteSet(S), x \in S, T = S \ {x}
    PROVE  Cardinality(T) = Cardinality(S) - 1
BY FS_RemoveElement

\* Trades: a filled order takes an empty slot, a closed trade leaves it.
LEMMA TradesKept ==
    ASSUME TradesCounted, openTradesCount' = openTradesCount,
           \A k \in Keys : openTrades'[k].open = openTrades[k].open
    PROVE  TradesCounted'
<1>1. ASSUME NEW b \in Books PROVE TradesOf(b)' = TradesOf(b)
  BY DEF TradesOf, KeysOf, HasTrade
<1> QED
  BY <1>1 DEF TradesCounted

LEMMA StoreTradeCounted ==
    ASSUME TypeOK, TradesCounted, NEW k \in Keys, ~HasTrade(k), NEW coll,
           StoreTrade(k, coll)
    PROVE  TradesCounted'
<1> DEFINE b == k.book
<1>1. b \in Books /\ openTrades \in [Keys -> Trade]
  BY KeyBook DEF TypeOK
<1>2. openTrades' = [openTrades EXCEPT ![k] = [coll |-> coll, open |-> TRUE]]
  BY DEF StoreTrade
<1>3. HasTrade(k)' /\ \A j \in Keys : j # k => HasTrade(j)' = HasTrade(j)
  BY <1>1, <1>2 DEF HasTrade
<1>4. TradesOf(b)' = TradesOf(b) \cup {k} /\ k \notin TradesOf(b)
  BY <1>3 DEF TradesOf, KeysOf
<1>5. ASSUME NEW c \in Books, c # b PROVE TradesOf(c)' = TradesOf(c)
  BY <1>3, <1>5 DEF TradesOf, KeysOf
<1>6. Cardinality(TradesOf(b)') = Cardinality(TradesOf(b)) + 1
  BY <1>1, <1>4, SetsFinite, CountAdded
<1>7. /\ openTradesCount'[b] = openTradesCount[b] + 1
      /\ \A c \in Books : c # b => openTradesCount'[c] = openTradesCount[c]
  BY StoreTradeCount
<1>8. ASSUME NEW c \in Books PROVE openTradesCount'[c] = Cardinality(TradesOf(c)')
  BY <1>1, <1>5, <1>6, <1>7 DEF TradesCounted
<1> QED
  BY <1>8 DEF TradesCounted

LEMMA UnregisterTradeCounted ==
    ASSUME TypeOK, TradesCounted, NEW k \in Keys, HasTrade(k), UnregisterTrade(k)
    PROVE  TradesCounted'
<1> DEFINE b == k.book
<1>1. b \in Books /\ openTrades \in [Keys -> Trade] /\ openTradesCount \in [Books -> Nat]
  BY KeyBook DEF TypeOK
<1>2. /\ openTrades' = [openTrades EXCEPT ![k] = NoTrade]
      /\ openTradesCount' = [openTradesCount EXCEPT ![b] = openTradesCount[b] - 1]
  BY DEF UnregisterTrade
<1>3. ~HasTrade(k)' /\ \A j \in Keys : j # k => HasTrade(j)' = HasTrade(j)
  BY <1>1, <1>2 DEF HasTrade, NoTrade
<1>4. TradesOf(b)' = TradesOf(b) \ {k} /\ k \in TradesOf(b)
  BY <1>3 DEF TradesOf, KeysOf
<1>5. ASSUME NEW c \in Books, c # b PROVE TradesOf(c)' = TradesOf(c)
  BY <1>3, <1>5 DEF TradesOf, KeysOf
<1>6. Cardinality(TradesOf(b)') = Cardinality(TradesOf(b)) - 1
  BY <1>1, <1>4, SetsFinite, CountRemoved
<1>7. /\ openTradesCount'[b] = openTradesCount[b] - 1
      /\ \A c \in Books : c # b => openTradesCount'[c] = openTradesCount[c]
  BY <1>1, <1>2
<1>8. ASSUME NEW c \in Books PROVE openTradesCount'[c] = Cardinality(TradesOf(c)')
  BY <1>1, <1>5, <1>6, <1>7 DEF TradesCounted
<1> QED
  BY <1>8 DEF TradesCounted

\* Limit orders: with the registry, a key has an order when the array holds one
\* under it.
HasKey(a, k) == \E n \in 1 .. Len(a) : a[n].key = k

LEMMA HasOrderIffKey ==
    ASSUME NEW a \in Seq(LimitOrder), NEW f \in [Keys -> Nat], NEW k \in Keys,
           \A n \in 1 .. Len(a) : f[a[n].key] = n - 1
    PROVE  (a # <<>> /\ f[k] < Len(a) /\ a[f[k] + 1].key = k) <=> HasKey(a, k)
<1>1. Len(a) \in Nat /\ f[k] \in Nat
  OBVIOUS
<1>2. ASSUME f[k] < Len(a), a[f[k] + 1].key = k PROVE HasKey(a, k)
  <2>1. f[k] + 1 \in 1 .. Len(a)
    BY <1>1, <1>2
  <2> QED
    BY <1>2, <2>1 DEF HasKey
<1>3. ASSUME NEW n \in 1 .. Len(a), a[n].key = k
      PROVE  a # <<>> /\ f[k] < Len(a) /\ a[f[k] + 1].key = k
  <2>1. f[k] = n - 1
    BY <1>3
  <2>2. f[k] < Len(a) /\ f[k] + 1 = n /\ Len(a) > 0
    BY <1>1, <2>1
  <2>3. a # <<>>
    BY <2>2
  <2> QED
    BY <1>3, <2>2, <2>3
<1> QED
  BY <1>2, <1>3 DEF HasKey

LEMMA LimitsOfKeys ==
    ASSUME TypeOK, LimitRegistry, NEW k \in Keys
    PROVE  HasOpenLimitOrder(k) <=> HasKey(openLimitOrders, k)
<1>1. openLimitOrders \in Seq(LimitOrder) /\ openLimitOrderIds \in [Keys -> Nat]
  BY DEF TypeOK
<1>2. \A n \in 1 .. Len(openLimitOrders) :
        openLimitOrderIds[openLimitOrders[n].key] = n - 1
  BY DEF LimitRegistry
<1> QED
  BY <1>1, <1>2, HasOrderIffKey DEF HasOpenLimitOrder

LEMMA LimitsOfKeysNext ==
    ASSUME TypeOK', LimitRegistry', NEW k \in Keys
    PROVE  HasOpenLimitOrder(k)' <=> HasKey(openLimitOrders', k)
<1>1. openLimitOrders' \in Seq(LimitOrder) /\ openLimitOrderIds' \in [Keys -> Nat]
  BY DEF TypeOK
<1>2. \A n \in 1 .. Len(openLimitOrders') :
        openLimitOrderIds'[openLimitOrders'[n].key] = n - 1
  BY DEF LimitRegistry
<1> QED
  BY <1>1, <1>2, HasOrderIffKey DEF HasOpenLimitOrder

LEMMA LimitsKept ==
    ASSUME LimitsCounted, openLimitOrdersCount' = openLimitOrdersCount,
           \A k \in Keys : HasOpenLimitOrder(k)' <=> HasOpenLimitOrder(k)
    PROVE  LimitsCounted'
<1>1. ASSUME NEW b \in Books PROVE LimitsOf(b)' = LimitsOf(b)
  BY DEF LimitsOf, KeysOf
<1> QED
  BY <1>1 DEF LimitsCounted

\* An edit in place, a new order and a deletion: which keys have an order then.
LEMMA EditKeys ==
    ASSUME TypeOK, TypeOK', LimitRegistry, LimitRegistry',
           NEW d \in Keys, HasOpenLimitOrder(d), NEW o, o.key = d,
           openLimitOrders' = [openLimitOrders EXCEPT ![openLimitOrderIds[d] + 1] = o]
    PROVE  \A k \in Keys : HasOpenLimitOrder(k)' <=> HasOpenLimitOrder(k)
<1> DEFINE a == openLimitOrders
           i == openLimitOrderIds[d] + 1
<1>1. a \in Seq(LimitOrder) /\ i \in 1 .. Len(a) /\ a[i].key = d
  BY LimitOrderAt DEF TypeOK
<1>2. /\ Len(openLimitOrders') = Len(a)
      /\ \A n \in 1 .. Len(a) : openLimitOrders'[n] = IF n = i THEN o ELSE a[n]
  BY <1>1, ExceptSeq
<1>3. \A n \in 1 .. Len(a) : openLimitOrders'[n].key = a[n].key
  BY <1>1, <1>2
<1>4. \A k \in Keys : HasKey(openLimitOrders', k) <=> HasKey(a, k)
  BY <1>2, <1>3 DEF HasKey
<1> QED
  BY <1>4, LimitsOfKeys, LimitsOfKeysNext

LEMMA StoreLimitKeys ==
    ASSUME TypeOK, TypeOK', LimitRegistry, LimitRegistry',
           NEW o, o.key \in Keys, StoreOpenLimitOrder(o)
    PROVE  \A k \in Keys : HasOpenLimitOrder(k)' <=> HasOpenLimitOrder(k) \/ k = o.key
<1> DEFINE a == openLimitOrders
<1>1. a \in Seq(LimitOrder)
  BY DEF TypeOK
<1>2. openLimitOrders' = Append(a, o)
  BY DEF StoreOpenLimitOrder
<1>3. /\ Len(openLimitOrders') = Len(a) + 1 /\ Len(a) \in Nat
      /\ openLimitOrders'[Len(a) + 1] = o
      /\ \A n \in 1 .. Len(a) : openLimitOrders'[n] = a[n]
  BY <1>1, <1>2
<1>4. \A k \in Keys : HasKey(openLimitOrders', k) <=> HasKey(a, k) \/ k = o.key
  <2> SUFFICES ASSUME NEW k \in Keys
               PROVE  HasKey(openLimitOrders', k) <=> HasKey(a, k) \/ k = o.key
    OBVIOUS
  <2>1. \A n \in 1 .. Len(a) + 1 : n \in 1 .. Len(a) \/ n = Len(a) + 1
    BY <1>3
  <2>2. Len(a) + 1 \in 1 .. Len(a) + 1 /\ \A n \in 1 .. Len(a) : n \in 1 .. Len(a) + 1
    BY <1>3
  <2> QED
    BY <1>3, <2>1, <2>2 DEF HasKey
<1> QED
  BY <1>4, LimitsOfKeys, LimitsOfKeysNext

LEMMA UnregisterLimitKeys ==
    ASSUME TypeOK, TypeOK', LimitRegistry, LimitRegistry',
           NEW d \in Keys, HasOpenLimitOrder(d), UnregisterOpenLimitOrder(d)
    PROVE  \A k \in Keys : HasOpenLimitOrder(k)' <=> HasOpenLimitOrder(k) /\ k # d
<1> DEFINE a == openLimitOrders
           i == openLimitOrderIds[d] + 1
           L == Len(a)
<1>1. a \in Seq(LimitOrder) /\ i \in 1 .. L /\ a[i].key = d /\ L \in Nat
  <2>1. i \in 1 .. L /\ a[i].key = d
    BY LimitOrderAt
  <2>2. a \in Seq(LimitOrder) /\ L \in Nat
    BY DEF TypeOK
  <2> HIDE DEF i, a, L
  <2> QED
    BY <2>1, <2>2
<1>2. openLimitOrders' = SwapPop(a, i)
  BY DEF UnregisterOpenLimitOrder
<1>3. /\ Len(openLimitOrders') = L - 1
      /\ \A n \in 1 .. L - 1 : openLimitOrders'[n] = IF n = i THEN a[L] ELSE a[n]
  BY <1>1, <1>2, SwapPopType
<1>4. \A n \in 1 .. L : a[n].key = d => n = i
  <2>1. \A n \in 1 .. L : openLimitOrderIds[a[n].key] = n - 1
    BY DEF LimitRegistry
  <2>2. ASSUME NEW n \in 1 .. L, a[n].key = d PROVE n - 1 = i - 1
    BY <1>1, <2>1, <2>2
  <2> HIDE DEF i, a
  <2> QED
    BY <1>1, <2>2
<1>5. ASSUME NEW k \in Keys, HasKey(openLimitOrders', k) PROVE HasKey(a, k) /\ k # d
  <2>1. PICK n \in 1 .. L - 1 : openLimitOrders'[n].key = k
    BY <1>3, <1>5 DEF HasKey
  <2>2. n \in 1 .. L /\ L \in 1 .. L /\ n # L
    BY <1>1
  <2>3. CASE n = i
    BY <1>3, <1>4, <2>1, <2>2, <2>3 DEF HasKey
  <2>4. CASE n # i
    BY <1>3, <1>4, <2>1, <2>2, <2>4 DEF HasKey
  <2> QED
    BY <2>3, <2>4
<1>6. ASSUME NEW k \in Keys, HasKey(a, k), k # d PROVE HasKey(openLimitOrders', k)
  <2>1. PICK n \in 1 .. L : a[n].key = k
    BY <1>6 DEF HasKey
  <2>2. n # i
    BY <1>1, <1>6, <2>1
  <2>3. CASE n = L
    <3>1. i \in 1 .. L - 1
      BY <1>1, <2>2, <2>3
    <3>2. openLimitOrders'[i].key = k
      BY <1>3, <2>1, <2>3, <3>1
    <3> QED
      BY <1>3, <3>1, <3>2 DEF HasKey
  <2>4. CASE n # L
    <3>1. n \in 1 .. L - 1
      BY <1>1, <2>4
    <3>2. openLimitOrders'[n].key = k
      BY <1>3, <2>1, <2>2, <3>1
    <3> QED
      BY <1>3, <3>1, <3>2 DEF HasKey
  <2> QED
    BY <2>3, <2>4
<1> QED
  BY <1>5, <1>6, LimitsOfKeys, LimitsOfKeysNext

\* An edit of the order of d, as its key stays d.
LEMMA EditKeepsKeys ==
    ASSUME TypeOK, TypeOK', LimitRegistry, LimitRegistry', LimitsCounted,
           NEW d \in Keys, HasOpenLimitOrder(d), NEW o, o.key = d,
           openLimitOrders' = [openLimitOrders EXCEPT ![openLimitOrderIds[d] + 1] = o],
           openLimitOrdersCount' = openLimitOrdersCount
    PROVE  LimitsCounted'
BY EditKeys, LimitsKept

LEMMA StoreLimitCounted ==
    ASSUME TypeOK, TypeOK', LimitRegistry, LimitRegistry', LimitsCounted,
           NEW o, o.key \in Keys, ~HasOpenLimitOrder(o.key), StoreOpenLimitOrder(o)
    PROVE  LimitsCounted'
<1> DEFINE b == o.key.book
<1>1. b \in Books /\ openLimitOrdersCount \in [Books -> Nat]
  BY KeyBook DEF TypeOK
<1>2. \A k \in Keys : HasOpenLimitOrder(k)' <=> HasOpenLimitOrder(k) \/ k = o.key
  BY StoreLimitKeys
<1>3. LimitsOf(b)' = LimitsOf(b) \cup {o.key} /\ o.key \notin LimitsOf(b)
  BY <1>2 DEF LimitsOf, KeysOf
<1>4. ASSUME NEW c \in Books, c # b PROVE LimitsOf(c)' = LimitsOf(c)
  BY <1>2, <1>4 DEF LimitsOf, KeysOf
<1>5. Cardinality(LimitsOf(b)') = Cardinality(LimitsOf(b)) + 1
  BY <1>1, <1>3, SetsFinite, CountAdded
<1>6. /\ openLimitOrdersCount'[b] = openLimitOrdersCount[b] + 1
      /\ \A c \in Books : c # b => openLimitOrdersCount'[c] = openLimitOrdersCount[c]
  BY <1>1 DEF StoreOpenLimitOrder
<1>7. ASSUME NEW c \in Books PROVE openLimitOrdersCount'[c] = Cardinality(LimitsOf(c)')
  BY <1>1, <1>4, <1>5, <1>6 DEF LimitsCounted
<1> QED
  BY <1>7 DEF LimitsCounted

LEMMA UnregisterLimitCounted ==
    ASSUME TypeOK, TypeOK', LimitRegistry, LimitRegistry', LimitsCounted,
           NEW d \in Keys, HasOpenLimitOrder(d), UnregisterOpenLimitOrder(d)
    PROVE  LimitsCounted'
<1> DEFINE b == d.book
<1>1. b \in Books
  BY KeyBook
<1>2. \A k \in Keys : HasOpenLimitOrder(k)' <=> HasOpenLimitOrder(k) /\ k # d
  BY UnregisterLimitKeys
<1>3. LimitsOf(b)' = LimitsOf(b) \ {d} /\ d \in LimitsOf(b)
  BY <1>2 DEF LimitsOf, KeysOf
<1>4. ASSUME NEW c \in Books, c # b PROVE LimitsOf(c)' = LimitsOf(c)
  BY <1>2, <1>4 DEF LimitsOf, KeysOf
<1>5. Cardinality(LimitsOf(b)') = Cardinality(LimitsOf(b)) - 1
  BY <1>1, <1>3, SetsFinite, CountRemoved
<1>6. /\ openLimitOrdersCount'[b] = openLimitOrdersCount[b] - 1
      /\ \A c \in Books : c # b => openLimitOrdersCount'[c] = openLimitOrdersCount[c]
  BY UnregisterLimitCount
<1>7. ASSUME NEW c \in Books PROVE openLimitOrdersCount'[c] = Cardinality(LimitsOf(c)')
  BY <1>1, <1>4, <1>5, <1>6 DEF LimitsCounted
<1> QED
  BY <1>7 DEF LimitsCounted

\* Pending market orders: an id is used for one order only, and an order leaves
\* the sets by its entry, whatever the aggregator still holds.
LEMMA PendingKept ==
    ASSUME PendingCounted, UNCHANGED <<pendingMarketOpenCount, pendingMarketCloseCount>>,
           \A id \in OrderIds, type \in {"MARKET_OPEN", "MARKET_CLOSE"} :
             /\ reqIDpendingMarketOrder'[id] = reqIDpendingMarketOrder[id]
             /\ reqIDpendingMarketOrder[id] # NoOrder =>
                  (orders'[id] = type <=> orders[id] = type)
    PROVE  PendingCounted'
<1>1. ASSUME NEW b \in Books, NEW type \in {"MARKET_OPEN", "MARKET_CLOSE"}
      PROVE  PendingOf(b, type)' = PendingOf(b, type)
  BY DEF PendingOf, Pending
<1> QED
  BY <1>1 DEF PendingCounted

Initiates(id, type) == orders' = [orders EXCEPT ![id] = type]

\* The id a request is given is not in use.
LEMMA FreshIsUnused ==
    ASSUME TypeOK, PendingRegistry, NEW id \in OrderIds, id = currentOrderId
    PROVE  reqIDpendingMarketOrder[id] = NoOrder
<1>1. SUFFICES ASSUME reqIDpendingMarketOrder[id] # NoOrder PROVE FALSE
  OBVIOUS
<1> DEFINE t == reqIDpendingMarketOrder[id].key.book.trader
<1>2. t \in Traders
  BY <1>1, PendingOrderBook
<1>3. PICK i \in 1 .. Len(pendingOrderIds[t]) : pendingOrderIds[t][i] = id
  BY <1>1 DEF PendingRegistry
<1> HIDE DEF t
<1>4. id < currentOrderId
  BY <1>2, <1>3 DEF PendingRegistry
<1> QED
  BY <1>4 DEF OrderIds

LEMMA StorePendingSets ==
    ASSUME TypeOK, PendingRegistry, NEW id \in OrderIds, id = currentOrderId,
           NEW o \in PendingOrder, NEW b, b = o.key.book, NEW type,
           Initiates(id, type),
           StorePendingMarketOrder(id, o)
    PROVE  /\ id \notin PendingOf(b, type)
           /\ PendingOf(b, type)' = PendingOf(b, type) \cup {id}
           /\ \A c, t : c # b \/ t # type => PendingOf(c, t)' = PendingOf(c, t)
<1>1. /\ orders \in [OrderIds -> {"none", "MARKET_OPEN", "MARKET_CLOSE"}]
      /\ reqIDpendingMarketOrder \in [OrderIds -> PendingOrder \cup {NoOrder}]
      /\ reqIDpendingMarketOrder' = [reqIDpendingMarketOrder EXCEPT ![id] = o]
  BY DEF TypeOK, StorePendingMarketOrder
<1>2. o # NoOrder
  BY NoOrderAssumption
<1>3. reqIDpendingMarketOrder[id] = NoOrder
  BY FreshIsUnused
<1>4. /\ orders'[id] = type /\ reqIDpendingMarketOrder'[id] = o
      /\ \A j \in OrderIds : j # id =>
           /\ orders'[j] = orders[j]
           /\ reqIDpendingMarketOrder'[j] = reqIDpendingMarketOrder[j]
  BY <1>1 DEF Initiates
<1>5. \A c, t : id \notin PendingOf(c, t)
  BY <1>3 DEF PendingOf, Pending
<1>6. ASSUME NEW c, NEW t
      PROVE  \A j \in OrderIds : j # id =>
               (j \in PendingOf(c, t)' <=> j \in PendingOf(c, t))
  BY <1>4 DEF PendingOf, Pending
<1>7. ASSUME NEW c, NEW t
      PROVE  id \in PendingOf(c, t)' <=> c = b /\ t = type
  BY <1>2, <1>4 DEF PendingOf, Pending
<1>8. \A c, t : PendingOf(c, t) \subseteq OrderIds /\ PendingOf(c, t)' \subseteq OrderIds
  BY DEF PendingOf
<1>9. PendingOf(b, type)' = PendingOf(b, type) \cup {id}
  BY <1>6, <1>7, <1>8
<1>10. ASSUME NEW c, NEW t, c # b \/ t # type
       PROVE  PendingOf(c, t)' = PendingOf(c, t)
  BY <1>5, <1>6, <1>7, <1>8, <1>10
<1> QED
  BY <1>5, <1>9, <1>10

LEMMA DropPendingSets ==
    ASSUME TypeOK, NEW id \in OrderIds, NEW i, DropPendingId(id, i),
           UNCHANGED orders \/ FulfilOrder(id)
    PROVE  \A c, t : PendingOf(c, t)' = PendingOf(c, t) \ {id}
<1>1. /\ orders \in [OrderIds -> {"none", "MARKET_OPEN", "MARKET_CLOSE"}]
      /\ reqIDpendingMarketOrder \in [OrderIds -> PendingOrder \cup {NoOrder}]
      /\ reqIDpendingMarketOrder' = [reqIDpendingMarketOrder EXCEPT ![id] = NoOrder]
  BY DEF TypeOK, DropPendingId
<1>2. /\ reqIDpendingMarketOrder'[id] = NoOrder
      /\ \A j \in OrderIds : j # id =>
           /\ orders'[j] = orders[j]
           /\ reqIDpendingMarketOrder'[j] = reqIDpendingMarketOrder[j]
  BY <1>1 DEF FulfilOrder
<1> QED
  BY <1>2 DEF PendingOf, Pending

\* The counter of the order's kind goes down with its set.
LEMMA UnregisterPendingCounted ==
    ASSUME TypeOK, PendingRegistry, PendingCounted, NEW id \in OrderIds,
           reqIDpendingMarketOrder[id] # NoOrder,
           \/ orders[id] = "MARKET_OPEN" /\ UnregisterPendingOpen(id)
           \/ orders[id] = "MARKET_CLOSE" /\ UnregisterPendingClose(id),
           UNCHANGED orders \/ FulfilOrder(id)
    PROVE  PendingCounted'
<1>1. PICK b \in Books : b = reqIDpendingMarketOrder[id].key.book
  BY PendingOrderBook
<1>2. PICK type : type = orders[id]
  OBVIOUS
<1>3. /\ Listed(id)
      /\ pendingMarketOpenCount \in [Books -> Nat]
      /\ pendingMarketCloseCount \in [Books -> Nat]
  BY PendingIsListed DEF TypeOK
<1>4. PICK i : DropPendingId(id, i)
  BY <1>3 DEF UnregisterPendingOpen, UnregisterPendingClose
<1>5. \A c, t : PendingOf(c, t)' = PendingOf(c, t) \ {id}
  BY <1>4, DropPendingSets
<1>6. id \in PendingOf(b, type)
  BY <1>1, <1>2 DEF PendingOf, Pending
<1>7. ASSUME NEW c, NEW t, c # b \/ t # type PROVE PendingOf(c, t)' = PendingOf(c, t)
  <2>1. id \notin PendingOf(c, t)
    BY <1>1, <1>2, <1>7 DEF PendingOf, Pending
  <2> QED
    BY <1>5, <2>1
<1>8. Cardinality(PendingOf(b, type)') = Cardinality(PendingOf(b, type)) - 1
  <2>1. IsFiniteSet(PendingOf(b, type))
    BY SetsFinite
  <2>2. PendingOf(b, type)' = PendingOf(b, type) \ {id}
    BY <1>5
  <2> QED
    BY <1>6, <2>1, <2>2, CountRemoved
<1>9. CASE type = "MARKET_OPEN"
  <2>1. UnregisterPendingOpen(id)
    BY <1>2, <1>9
  <2>2. /\ pendingMarketOpenCount' =
             [pendingMarketOpenCount EXCEPT ![b] = pendingMarketOpenCount[b] - 1]
        /\ pendingMarketCloseCount' = pendingMarketCloseCount
    BY <1>1, <1>3, <2>1 DEF UnregisterPendingOpen
  <2>3. ASSUME NEW c \in Books
        PROVE  /\ pendingMarketOpenCount'[c] = Cardinality(PendingOf(c, "MARKET_OPEN")')
               /\ pendingMarketCloseCount'[c] = Cardinality(PendingOf(c, "MARKET_CLOSE")')
    <3>1. /\ pendingMarketOpenCount[c] = Cardinality(PendingOf(c, "MARKET_OPEN"))
          /\ pendingMarketCloseCount[c] = Cardinality(PendingOf(c, "MARKET_CLOSE"))
      BY DEF PendingCounted
    <3>2. PendingOf(c, "MARKET_CLOSE")' = PendingOf(c, "MARKET_CLOSE")
      BY <1>7, <1>9
    <3>3. CASE c = b
      <4>1. Cardinality(PendingOf(c, "MARKET_OPEN")')
              = Cardinality(PendingOf(c, "MARKET_OPEN")) - 1
        BY <1>8, <1>9, <3>3
      <4> QED
        BY <1>3, <2>2, <3>1, <3>2, <3>3, <4>1
    <3>4. CASE c # b
      <4>1. PendingOf(c, "MARKET_OPEN")' = PendingOf(c, "MARKET_OPEN")
        BY <1>7, <3>4
      <4> QED
        BY <1>3, <2>2, <3>1, <3>2, <3>4, <4>1
    <3> QED
      BY <3>3, <3>4
  <2> QED
    BY <2>3 DEF PendingCounted
<1>10. CASE type = "MARKET_CLOSE"
  <2>1. UnregisterPendingClose(id)
    BY <1>2, <1>10
  <2>2. /\ pendingMarketCloseCount' =
             [pendingMarketCloseCount EXCEPT ![b] = pendingMarketCloseCount[b] - 1]
        /\ pendingMarketOpenCount' = pendingMarketOpenCount
    BY <1>1, <1>3, <2>1 DEF UnregisterPendingClose
  <2>3. ASSUME NEW c \in Books
        PROVE  /\ pendingMarketOpenCount'[c] = Cardinality(PendingOf(c, "MARKET_OPEN")')
               /\ pendingMarketCloseCount'[c] = Cardinality(PendingOf(c, "MARKET_CLOSE")')
    <3>1. /\ pendingMarketOpenCount[c] = Cardinality(PendingOf(c, "MARKET_OPEN"))
          /\ pendingMarketCloseCount[c] = Cardinality(PendingOf(c, "MARKET_CLOSE"))
      BY DEF PendingCounted
    <3>2. PendingOf(c, "MARKET_OPEN")' = PendingOf(c, "MARKET_OPEN")
      BY <1>7, <1>10
    <3>3. CASE c = b
      <4>1. Cardinality(PendingOf(c, "MARKET_CLOSE")')
              = Cardinality(PendingOf(c, "MARKET_CLOSE")) - 1
        BY <1>8, <1>10, <3>3
      <4> QED
        BY <1>3, <2>2, <3>1, <3>2, <3>3, <4>1
    <3>4. CASE c # b
      <4>1. PendingOf(c, "MARKET_CLOSE")' = PendingOf(c, "MARKET_CLOSE")
        BY <1>7, <3>4
      <4> QED
        BY <1>3, <2>2, <3>1, <3>2, <3>4, <4>1
    <3> QED
      BY <3>3, <3>4
  <2> QED
    BY <2>3 DEF PendingCounted
<1> QED
  BY <1>2, <1>9, <1>10

\* What a step does to the three counts.
Counted == TradesCounted /\ LimitsCounted /\ PendingCounted

LEMMA TradesCountedKept ==
    ASSUME TradesCounted, UNCHANGED <<openTrades, openTradesCount>>
    PROVE  TradesCounted'
BY TradesKept

LEMMA LimitsCountedKept ==
    ASSUME LimitsCounted, UNCHANGED limitVars
    PROVE  LimitsCounted'
BY LimitsKept DEF limitVars, HasOpenLimitOrder

LEMMA PendingCountedKept ==
    ASSUME PendingCounted, UNCHANGED <<pendingVars, orders>>
    PROVE  PendingCounted'
BY PendingKept DEF pendingVars

LEMMA OpenTradeMarketCounted ==
    ASSUME IInv, Counted, NEW b \in Books, NEW size \in Sizes, OpenTradeMarket(b, size)
    PROVE  Counted'
<1>1. TypeOK /\ PendingRegistry
  BY DEF IInv
<1>2. TradesCounted' /\ LimitsCounted'
  BY TradesCountedKept, LimitsCountedKept DEF Counted, OpenTradeMarket, tradeVars
<1> DEFINE o == [key |-> Key(b, 0), amount |-> size]
<1>3. PICK id \in OrderIds :
        /\ id = currentOrderId
        /\ Initiates(id, "MARKET_OPEN")
        /\ StorePendingMarketOrder(id, o)
  BY DEF OpenTradeMarket, FreshOrder, Initiates
<1>4. o \in PendingOrder /\ o.key.book = b
  <2>1. 0 \in Slots
    BY LimitsAssumption DEF Slots
  <2>2. Key(b, 0) \in Keys /\ Key(b, 0).book = b
    BY <2>1, KeyType DEF Key
  <2> QED
    BY <2>2, AmountsAssumption DEF PendingOrder
<1> HIDE DEF o
<1>5. /\ id \notin PendingOf(b, "MARKET_OPEN")
      /\ PendingOf(b, "MARKET_OPEN")' = PendingOf(b, "MARKET_OPEN") \cup {id}
      /\ \A c, t : c # b \/ t # "MARKET_OPEN" => PendingOf(c, t)' = PendingOf(c, t)
  BY <1>1, <1>3, <1>4, StorePendingSets
<1>6. Cardinality(PendingOf(b, "MARKET_OPEN")') = Cardinality(PendingOf(b, "MARKET_OPEN")) + 1
  BY <1>5, SetsFinite, CountAdded
<1>7. /\ pendingMarketOpenCount \in [Books -> Nat]
      /\ pendingMarketOpenCount' = [pendingMarketOpenCount EXCEPT ![b] = @ + 1]
      /\ pendingMarketCloseCount' = pendingMarketCloseCount
  BY <1>1 DEF OpenTradeMarket, TypeOK
<1>8. ASSUME NEW c \in Books
      PROVE  /\ pendingMarketOpenCount'[c] = Cardinality(PendingOf(c, "MARKET_OPEN")')
             /\ pendingMarketCloseCount'[c] = Cardinality(PendingOf(c, "MARKET_CLOSE")')
  <2>1. /\ pendingMarketOpenCount[c] = Cardinality(PendingOf(c, "MARKET_OPEN"))
        /\ pendingMarketCloseCount[c] = Cardinality(PendingOf(c, "MARKET_CLOSE"))
    BY DEF Counted, PendingCounted
  <2>2. PendingOf(c, "MARKET_CLOSE")' = PendingOf(c, "MARKET_CLOSE")
    BY <1>5
  <2>3. c # b => PendingOf(c, "MARKET_OPEN")' = PendingOf(c, "MARKET_OPEN")
    BY <1>5
  <2> QED
    BY <1>6, <1>7, <2>1, <2>2, <2>3
<1> QED
  BY <1>2, <1>8 DEF Counted, PendingCounted

LEMMA CloseTradeMarketCounted ==
    ASSUME IInv, Counted, NEW k \in Keys, NEW amount \in CloseAmounts,
           CloseTradeMarket(k, amount)
    PROVE  Counted'
<1>1. TypeOK /\ PendingRegistry
  BY DEF IInv
<1>2. TradesCounted' /\ LimitsCounted'
  BY TradesCountedKept, LimitsCountedKept DEF Counted, CloseTradeMarket, tradeVars
<1> DEFINE o == [key |-> k, amount |-> amount]
<1>b. PICK b \in Books : b = k.book
  BY KeyBook
<1>3. PICK id \in OrderIds :
        /\ id = currentOrderId
        /\ Initiates(id, "MARKET_CLOSE")
        /\ StorePendingMarketOrder(id, o)
  BY DEF CloseTradeMarket, FreshOrder, Initiates
<1>4. o \in PendingOrder /\ o.key.book = b
  BY <1>b, KeyBook, AmountsAssumption DEF PendingOrder
<1> HIDE DEF o
<1>5. /\ id \notin PendingOf(b, "MARKET_CLOSE")
      /\ PendingOf(b, "MARKET_CLOSE")' = PendingOf(b, "MARKET_CLOSE") \cup {id}
      /\ \A c, t : c # b \/ t # "MARKET_CLOSE" => PendingOf(c, t)' = PendingOf(c, t)
  BY <1>1, <1>3, <1>4, StorePendingSets
<1>6. Cardinality(PendingOf(b, "MARKET_CLOSE")') = Cardinality(PendingOf(b, "MARKET_CLOSE")) + 1
  BY <1>5, SetsFinite, CountAdded
<1>7. /\ pendingMarketCloseCount \in [Books -> Nat]
      /\ pendingMarketCloseCount' = [pendingMarketCloseCount EXCEPT ![b] = @ + 1]
      /\ pendingMarketOpenCount' = pendingMarketOpenCount
  BY <1>b, <1>1 DEF CloseTradeMarket, TypeOK
<1>8. ASSUME NEW c \in Books
      PROVE  /\ pendingMarketOpenCount'[c] = Cardinality(PendingOf(c, "MARKET_OPEN")')
             /\ pendingMarketCloseCount'[c] = Cardinality(PendingOf(c, "MARKET_CLOSE")')
  <2>1. /\ pendingMarketOpenCount[c] = Cardinality(PendingOf(c, "MARKET_OPEN"))
        /\ pendingMarketCloseCount[c] = Cardinality(PendingOf(c, "MARKET_CLOSE"))
    BY DEF Counted, PendingCounted
  <2>2. PendingOf(c, "MARKET_OPEN")' = PendingOf(c, "MARKET_OPEN")
    BY <1>5
  <2>3. c # b => PendingOf(c, "MARKET_CLOSE")' = PendingOf(c, "MARKET_CLOSE")
    BY <1>5
  <2> QED
    BY <1>6, <1>7, <2>1, <2>2, <2>3
<1> QED
  BY <1>2, <1>8 DEF Counted, PendingCounted

\* What a trader does with his limit orders.
LEMMA LimitStepsCounted ==
    ASSUME IInv, IInv', Counted, NEW k \in Keys,
           \/ \E price \in Prices, slip \in Slippages : UpdateOpenLimitOrder(k, price, slip)
           \/ CancelOpenLimitOrder(k)
           \/ LimitOrderRipens(k)
    PROVE  Counted'
<1>1. TypeOK /\ TypeOK' /\ LimitRegistry /\ LimitRegistry' /\ LimitsCounted
  BY DEF IInv, Counted
<1>2. HasOpenLimitOrder(k)
  BY DEF UpdateOpenLimitOrder, CancelOpenLimitOrder, LimitOrderRipens
<1>3. TradesCounted' /\ PendingCounted'
  BY TradesCountedKept, PendingCountedKept
     DEF Counted, UpdateOpenLimitOrder, CancelOpenLimitOrder, LimitOrderRipens, tradeVars
<1> DEFINE n == openLimitOrderIds[k] + 1
<1>4. openLimitOrders[n] \in LimitOrder /\ openLimitOrders[n].key = k
  BY <1>1, <1>2, LimitOrderAt
<1>5. ASSUME NEW price \in Prices, NEW slip \in Slippages,
             UpdateOpenLimitOrder(k, price, slip)
      PROVE  LimitsCounted'
  <2> DEFINE o == StoredLimitUpdate(openLimitOrders[n],
                    [openLimitOrders[n] EXCEPT !.price = price, !.slippageP = slip])
  <2>1. openLimitOrders' = [openLimitOrders EXCEPT ![n] = o]
        /\ openLimitOrdersCount' = openLimitOrdersCount
    BY <1>5 DEF UpdateOpenLimitOrder
  <2>2. o.key = k
    BY <1>4 DEF StoredLimitUpdate, LimitOrder
  <2> HIDE DEF o
  <2> QED
    BY <1>1, <1>2, <2>1, <2>2, EditKeepsKeys
<1>6. ASSUME LimitOrderRipens(k) PROVE LimitsCounted'
  <2> DEFINE o == [openLimitOrders[n] EXCEPT !.ripe = TRUE]
  <2>1. openLimitOrders' = [openLimitOrders EXCEPT ![n] = o]
        /\ openLimitOrdersCount' = openLimitOrdersCount
    BY <1>6 DEF LimitOrderRipens
  <2>2. o.key = k
    BY <1>4 DEF LimitOrder
  <2> HIDE DEF o
  <2> QED
    BY <1>1, <1>2, <2>1, <2>2, EditKeepsKeys
<1>7. ASSUME CancelOpenLimitOrder(k) PROVE LimitsCounted'
  BY <1>1, <1>2, <1>7, UnregisterLimitCounted DEF CancelOpenLimitOrder
<1> QED
  BY <1>3, <1>5, <1>6, <1>7 DEF Counted

LEMMA OpenTradeLimitCounted ==
    ASSUME IInv, IInv', Counted, NEW b \in Books, NEW size \in Sizes,
           NEW price \in Prices, NEW slip \in Slippages,
           OpenTradeLimit(b, size, price, slip)
    PROVE  Counted'
<1>1. TypeOK /\ TypeOK' /\ LimitRegistry /\ LimitRegistry' /\ LimitsCounted
  BY DEF IInv, Counted
<1>2. TradesCounted' /\ PendingCounted'
  BY TradesCountedKept, PendingCountedKept DEF Counted, OpenTradeLimit, tradeVars
<1>3. PICK i \in Slots :
        /\ FirstEmptyOpenLimitIndex(b, i)
        /\ StoreOpenLimitOrder([key |-> Key(b, i), size |-> size, price |-> price,
                                slippageP |-> slip, ripe |-> FALSE])
  BY DEF OpenTradeLimit
<1> DEFINE o == [key |-> Key(b, i), size |-> size, price |-> price,
                 slippageP |-> slip, ripe |-> FALSE]
<1>4. ~HasOpenLimitOrder(Key(b, i))
  BY <1>3 DEF FirstEmptyOpenLimitIndex, IsFirst
<1>5. o.key \in Keys /\ ~HasOpenLimitOrder(o.key)
  BY <1>4, KeyType
<1>6. StoreOpenLimitOrder(o)
  BY <1>3
<1> HIDE DEF o
<1> QED
  BY <1>1, <1>2, <1>5, <1>6, StoreLimitCounted DEF Counted

\* A filled limit order becomes a trade in an empty slot.
LEMMA ExecuteLimitOpenCounted ==
    ASSUME IInv, IInv', Counted, NEW k \in Keys, NEW fee \in Fees,
           ExecuteLimitOpen(k, fee)
    PROVE  Counted'
<1>1. TypeOK /\ TypeOK' /\ LimitRegistry /\ LimitRegistry' /\ LimitsCounted
      /\ TradesCounted
  BY DEF IInv, Counted
<1>2. PendingCounted'
  BY PendingCountedKept DEF Counted, ExecuteLimitOpen
<1>3. LimitsCounted'
  BY <1>1, UnregisterLimitCounted DEF ExecuteLimitOpen
<1>4. PICK i \in Slots :
        /\ FirstEmptyTradeIndex(k.book, i)
        /\ \E coll : StoreTrade(Key(k.book, i), coll)
  BY DEF ExecuteLimitOpen
<1>5. Key(k.book, i) \in Keys /\ ~HasTrade(Key(k.book, i))
  BY <1>4, KeyBook, KeyType DEF FirstEmptyTradeIndex, IsFirst
<1>6. TradesCounted'
  <2>1. PICK coll : StoreTrade(Key(k.book, i), coll)
    BY <1>4
  <2> QED
    BY <1>1, <1>5, <2>1, StoreTradeCounted
<1> QED
  BY <1>2, <1>3, <1>6 DEF Counted

\* A change of collateral is not a change of the number of trades.
LEMMA CollateralKeepsTrades ==
    ASSUME TypeOK, TradesCounted, NEW k \in Keys, NEW coll,
           openTrades' = [openTrades EXCEPT ![k].coll = coll],
           openTradesCount' = openTradesCount
    PROVE  TradesCounted'
<1>1. openTrades \in [Keys -> Trade]
  BY DEF TypeOK
<1>2. \A j \in Keys : openTrades'[j].open = openTrades[j].open
  BY <1>1 DEF Trade
<1> QED
  BY <1>2, TradesKept

LEMMA MarketOpenFillsCounted ==
    ASSUME IInv, Counted, NEW id \in OrderIds, NEW fee \in Fees, MarketOpenFills(id, fee)
    PROVE  Counted'
<1>1. TypeOK /\ PendingRegistry /\ TradesCounted /\ PendingCounted /\ LimitsCounted
  BY DEF IInv, Counted
<1>2. /\ orders[id] = "MARKET_OPEN" /\ reqIDpendingMarketOrder[id] # NoOrder
      /\ UnregisterPendingOpen(id) /\ FulfilOrder(id) /\ UNCHANGED limitVars
  BY DEF MarketOpenFills, Pending
<1>3. PICK b \in Books : b = reqIDpendingMarketOrder[id].key.book
  BY <1>1, <1>2, PendingOrderBook
<1>4. PICK i \in Slots :
        /\ FirstEmptyTradeIndex(b, i)
        /\ \E coll : StoreTrade(Key(b, i), coll)
  BY <1>3 DEF MarketOpenFills
<1>5. Key(b, i) \in Keys /\ ~HasTrade(Key(b, i))
  BY <1>4, KeyType DEF FirstEmptyTradeIndex, IsFirst
<1>6. TradesCounted'
  <2>1. PICK coll : StoreTrade(Key(b, i), coll)
    BY <1>4
  <2> QED
    BY <1>1, <1>5, <2>1, StoreTradeCounted
<1>7. PendingCounted'
  BY <1>1, <1>2, UnregisterPendingCounted
<1>8. LimitsCounted'
  BY <1>1, <1>2, LimitsCountedKept
<1> QED
  BY <1>6, <1>7, <1>8 DEF Counted

\* The other answers of the operator to an order.
LEMMA SettleCounted ==
    ASSUME IInv, Counted, NEW id \in OrderIds,
           \/ MarketOpenRefunds(id) \/ MarketOpenIgnored(id) \/ MarketCloseFull(id)
           \/ \E fee \in Fees : MarketClosePartial(id, fee)
           \/ MarketCloseLapses(id) \/ CancelPendingMarketOrder(id)
    PROVE  Counted'
<1>1. TypeOK /\ PendingRegistry /\ TradesCounted /\ PendingCounted /\ LimitsCounted
  BY DEF IInv, Counted
<1>2. LimitsCounted'
  BY <1>1, LimitsCountedKept DEF MarketOpenRefunds, MarketOpenIgnored, MarketCloseFull,
     MarketClosePartial, MarketCloseLapses, CancelPendingMarketOrder
<1>3. CASE MarketOpenIgnored(id)
  <2>1. TradesCounted'
    BY <1>1, <1>3, TradesCountedKept DEF MarketOpenIgnored, tradeVars
  <2>2. /\ orders \in [OrderIds -> {"none", "MARKET_OPEN", "MARKET_CLOSE"}]
        /\ orders' = [orders EXCEPT ![id] = "none"]
        /\ reqIDpendingMarketOrder[id] = NoOrder
        /\ UNCHANGED pendingVars
    BY <1>1, <1>3 DEF TypeOK, MarketOpenIgnored, FulfilOrder
  <2>3. \A j \in OrderIds : reqIDpendingMarketOrder[j] # NoOrder => orders'[j] = orders[j]
    BY <2>2
  <2>4. PendingCounted'
    BY <1>1, <2>2, <2>3, PendingKept DEF pendingVars
  <2> QED
    BY <1>2, <2>1, <2>4 DEF Counted
<1>4. CASE MarketOpenRefunds(id)
  <2>1. TradesCounted'
    BY <1>1, <1>4, TradesCountedKept DEF MarketOpenRefunds, tradeVars
  <2>2. PendingCounted'
    BY <1>1, <1>4, UnregisterPendingCounted DEF MarketOpenRefunds, Pending
  <2> QED
    BY <1>2, <2>1, <2>2 DEF Counted
<1>5. ASSUME Pending(id, "MARKET_CLOSE"), UnregisterPendingClose(id), FulfilOrder(id)
      PROVE  PendingCounted'
  BY <1>1, <1>5, UnregisterPendingCounted DEF Pending
<1>6. CASE MarketCloseFull(id)
  <2>1. PICK k : k = reqIDpendingMarketOrder[id].key
    OBVIOUS
  <2>2. /\ reqIDpendingMarketOrder[id] # NoOrder /\ HasTrade(k) /\ UnregisterTrade(k)
    BY <1>6, <2>1 DEF MarketCloseFull, ClosesNow, Pending
  <2>3. k \in Keys
    BY <1>1, <2>1, <2>2, PendingOrderBook
  <2>4. TradesCounted'
    BY <1>1, <2>2, <2>3, UnregisterTradeCounted
  <2>5. PendingCounted'
    BY <1>5, <1>6 DEF MarketCloseFull, ClosesNow
  <2> QED
    BY <1>2, <2>4, <2>5 DEF Counted
<1>7. ASSUME NEW fee \in Fees, MarketClosePartial(id, fee) PROVE Counted'
  <2>1. PICK k : k = reqIDpendingMarketOrder[id].key
    OBVIOUS
  <2>2. PICK reduced : RegisterPartialTrade(k, reduced)
    BY <1>7, <2>1 DEF MarketClosePartial
  <2>3. reqIDpendingMarketOrder[id] # NoOrder
    BY <1>7 DEF MarketClosePartial, ClosesNow, Pending
  <2>4. k \in Keys
    BY <1>1, <2>1, <2>3, PendingOrderBook
  <2>5. TradesCounted'
    BY <1>1, <2>2, <2>4, CollateralKeepsTrades DEF RegisterPartialTrade
  <2>6. PendingCounted'
    BY <1>5, <1>7 DEF MarketClosePartial, ClosesNow
  <2> QED
    BY <1>2, <2>5, <2>6 DEF Counted
<1>8. CASE MarketCloseLapses(id)
  <2>1. TradesCounted'
    BY <1>1, <1>8, TradesCountedKept DEF MarketCloseLapses, tradeVars
  <2>2. PendingCounted'
    BY <1>5, <1>8 DEF MarketCloseLapses
  <2> QED
    BY <1>2, <2>1, <2>2 DEF Counted
<1>9. CASE CancelPendingMarketOrder(id)
  <2>1. TradesCounted'
    BY <1>1, <1>9, TradesCountedKept DEF CancelPendingMarketOrder, tradeVars
  <2>2. reqIDpendingMarketOrder[id] # NoOrder /\ UNCHANGED orders
    BY <1>9 DEF CancelPendingMarketOrder
  <2>3. orders[id] \in {"MARKET_OPEN", "MARKET_CLOSE"}
    <3>1. PICK t \in Traders : t = reqIDpendingMarketOrder[id].key.book.trader
      BY <1>1, <2>2, PendingOrderBook
    <3>2. PICK i \in 1 .. Len(pendingOrderIds[t]) : pendingOrderIds[t][i] = id
      BY <1>1, <2>2, <3>1 DEF PendingRegistry
    <3>3. orders[id] # "none"
      BY <1>1, <3>2 DEF PendingRegistry
    <3> QED
      BY <1>1, <3>3 DEF TypeOK
  <2>4. \/ orders[id] = "MARKET_OPEN" /\ UnregisterPendingOpen(id)
        \/ orders[id] = "MARKET_CLOSE" /\ UnregisterPendingClose(id)
    BY <1>9, <2>3 DEF CancelPendingMarketOrder
  <2>5. PendingCounted'
    BY <1>1, <2>2, <2>4, UnregisterPendingCounted
  <2> QED
    BY <1>2, <2>1, <2>5 DEF Counted
<1> QED
  BY <1>3, <1>4, <1>6, <1>7, <1>8, <1>9

LEMMA NextKeepsCounts == IInv /\ IInv' /\ Counted /\ [Next]_vars => Counted'
<1> SUFFICES ASSUME IInv, IInv', Counted, [Next]_vars PROVE Counted'
  OBVIOUS
<1>1. TypeOK /\ TradesCounted /\ PendingCounted /\ LimitsCounted
  BY DEF IInv, Counted
<1>2. ASSUME UNCHANGED <<tradeVars, pendingVars, limitVars, orders>> PROVE Counted'
  BY <1>1, <1>2, TradesCountedKept, LimitsCountedKept, PendingCountedKept
     DEF Counted, tradeVars
<1>3. ASSUME NEW b \in Books, OnBook(b) PROVE Counted'
  BY <1>3, OpenTradeMarketCounted, OpenTradeLimitCounted DEF OnBook
<1>4. ASSUME NEW k \in Keys, OnKey(k) PROVE Counted'
  <2>1. ASSUME NEW amount \in CloseAmounts, CloseTradeMarket(k, amount) PROVE Counted'
    BY <2>1, CloseTradeMarketCounted
  <2>2. CASE \/ \E price \in Prices, slip \in Slippages : UpdateOpenLimitOrder(k, price, slip)
             \/ CancelOpenLimitOrder(k)
             \/ LimitOrderRipens(k)
    BY <2>2, LimitStepsCounted
  <2>3. ASSUME NEW coll, SetCollateral(k, coll) PROVE Counted'
    <3>1. openTrades' = [openTrades EXCEPT ![k].coll = coll]
          /\ openTradesCount' = openTradesCount
      BY <2>3 DEF SetCollateral
    <3>2. TradesCounted'
      BY <1>1, <3>1, CollateralKeepsTrades
    <3>3. LimitsCounted' /\ PendingCounted'
      BY <1>1, <2>3, LimitsCountedKept, PendingCountedKept DEF SetCollateral
    <3> QED
      BY <3>2, <3>3 DEF Counted
  <2>4. ASSUME NEW coll \in Sizes, UpdateMargin(k, coll) PROVE Counted'
    BY <2>3, <2>4 DEF UpdateMargin
  <2>5. ASSUME NEW fee \in Fees, UpdateSl(k, fee) PROVE Counted'
    BY <2>3, <2>5 DEF UpdateSl
  <2>6. ASSUME NEW fee \in Fees, ExecuteLimitOpen(k, fee) PROVE Counted'
    BY <2>6, ExecuteLimitOpenCounted
  <2>7. ASSUME NEW type \in {"TP", "SL", "LIQ"}, ExecuteLimitClose(k, type) PROVE Counted'
    <3>1. TradesCounted'
      BY <1>1, <2>7, UnregisterTradeCounted DEF ExecuteLimitClose
    <3>2. LimitsCounted' /\ PendingCounted'
      BY <1>1, <2>7, LimitsCountedKept, PendingCountedKept DEF ExecuteLimitClose
    <3> QED
      BY <3>1, <3>2 DEF Counted
  <2>8. ASSUME ExecuteLimitMiss(k) PROVE Counted'
    BY <1>2, <2>8 DEF ExecuteLimitMiss
  <2> QED
    BY <1>4, <2>1, <2>2, <2>4, <2>5, <2>6, <2>7, <2>8 DEF OnKey
<1>5. ASSUME NEW id \in OrderIds, ExecuteMarketOrder(id) \/ CancelPendingMarketOrder(id)
      PROVE  Counted'
  BY <1>5, SettleCounted, MarketOpenFillsCounted DEF ExecuteMarketOrder
<1>6. ASSUME NEW start \in BackupModes, UseBackUpOracleOnly(start) PROVE Counted'
  BY <1>2, <1>6 DEF UseBackUpOracleOnly
<1>7. ASSUME NEW short \in Shortages, StorageRunsShort(short) PROVE Counted'
  BY <1>2, <1>7 DEF StorageRunsShort
<1>8. ASSUME UNCHANGED vars PROVE Counted'
  BY <1>2, <1>8 DEF vars
<1> QED
  BY <1>3, <1>4, <1>5, <1>6, <1>7, <1>8 DEF Next

LEMMA InitCounted == Init => Counted
<1> SUFFICES ASSUME Init PROVE Counted
  OBVIOUS
<1>1. ASSUME NEW b \in Books
      PROVE  /\ TradesOf(b) = {} /\ LimitsOf(b) = {}
             /\ PendingOf(b, "MARKET_OPEN") = {} /\ PendingOf(b, "MARKET_CLOSE") = {}
  <2>1. /\ \A k \in Keys : ~HasTrade(k) /\ ~HasOpenLimitOrder(k)
        /\ \A id \in OrderIds : reqIDpendingMarketOrder[id] = NoOrder
    BY DEF Init, HasTrade, HasOpenLimitOrder, NoTrade
  <2> QED
    BY <2>1 DEF TradesOf, LimitsOf, PendingOf, KeysOf, Pending
<1> QED
  BY <1>1, FS_EmptySet DEF Init, Counted, TradesCounted, LimitsCounted, PendingCounted

\* The counters the limits are checked with count what is stored, in whatever
\* order trades, limit orders and pending orders come and go
\* (TradingStorage.sol:267-321, 349-424, 447-493).
THEOREM CountersExactAlways == Spec => []CountersExact
<1>1. Spec => []Counted
  BY InitCounted, NextKeepsCounts, IInvAlways, PTL DEF Spec
<1>2. Counted => CountersExact
  BY CountersParts DEF Counted
<1> QED
  BY <1>1, <1>2, PTL

\* An accepted order always finds an empty slot: the counts leave room, and they
\* count (Trading.sol:306-312, TradingStorage.sol:811-819).
THEOREM SlotForEveryOrderAlways == Spec => []SlotForEveryOrder
<1>1. IInv /\ CountersExact => SlotForEveryOrder
  <2> SUFFICES ASSUME IInv, CountersExact, NEW b \in Books
               PROVE  Cardinality(PendingOf(b, "MARKET_OPEN")) + Cardinality(LimitsOf(b))
                        <= Cardinality(KeysOf(b) \ TradesOf(b))
    BY DEF SlotForEveryOrder
  <2>1. KeysOf(b) \cap TradesOf(b) = TradesOf(b)
    BY DEF TradesOf
  <2>2. Cardinality(KeysOf(b) \ TradesOf(b)) = MaxTradesPerPair - Cardinality(TradesOf(b))
    <3>1. IsFiniteSet(KeysOf(b)) /\ Cardinality(KeysOf(b)) = MaxTradesPerPair
      BY KeysFinite
    <3>2. Cardinality(KeysOf(b) \ TradesOf(b))
            = Cardinality(KeysOf(b)) - Cardinality(KeysOf(b) \cap TradesOf(b))
      BY <3>1, FS_Difference
    <3> QED
      BY <2>1, <3>1, <3>2
  <2>3. /\ openTradesCount[b] = Cardinality(TradesOf(b))
        /\ openLimitOrdersCount[b] = Cardinality(LimitsOf(b))
        /\ pendingMarketOpenCount[b] = Cardinality(PendingOf(b, "MARKET_OPEN"))
    BY DEF CountersExact
  <2>4. /\ openTradesCount[b] \in Nat /\ openLimitOrdersCount[b] \in Nat
        /\ pendingMarketOpenCount[b] \in Nat /\ MaxTradesPerPair \in Nat
    BY LimitsAssumption DEF IInv, TypeOK
  <2>5. openTradesCount[b] + pendingMarketOpenCount[b] + openLimitOrdersCount[b]
          <= MaxTradesPerPair
    BY DEF IInv, SlotBudget
  <2> QED
    BY <2>2, <2>3, <2>4, <2>5
<1> QED
  BY <1>1, CountersExactAlways, IInvAlways, PTL

-----------------------------------------------------------------------------
(* The stored book implements the ideal one. *)

\* What is stored of an amount asked for is an amount of the ideal book.
LEMMA AmountsClosed ==
    /\ Sizes \subseteq AllAmounts /\ CloseAmounts \subseteq AllAmounts
    /\ AllAmounts \subseteq Nat
    /\ \A a \in AllAmounts, c \in Nat : c <= a => c \in AllAmounts
<1>1. Sizes \cup CloseAmounts \subseteq Nat
  BY AmountsAssumption
<1>2. \A n \in Sizes \cup CloseAmounts : n \in 0 .. n
  BY <1>1
<1>3. ASSUME NEW a \in AllAmounts, NEW c \in Nat, c <= a PROVE c \in AllAmounts
  <2>1. PICK n \in Sizes \cup CloseAmounts : a \in 0 .. n
    BY DEF AllAmounts
  <2>2. c \in 0 .. n
    BY <1>1, <1>3, <2>1
  <2> QED
    BY <2>1, <2>2 DEF AllAmounts
<1>4. AllAmounts \subseteq Nat
  BY <1>1 DEF AllAmounts
<1>5. Sizes \cup CloseAmounts \subseteq AllAmounts
  BY <1>2 DEF AllAmounts
<1> QED
  BY <1>3, <1>4, <1>5

\* Trades: one is stored, removed, or given another collateral.
LEMMA TradeWith ==
    ASSUME TypeOK, NEW k \in Keys, NEW c, openTrades'[k].open, openTrades'[k].coll = c,
           \A j \in Keys : j # k => openTrades'[j] = openTrades[j]
    PROVE  StoredTrades' = Ideal!With(StoredTrades, k, c)
<1>1. {j \in Keys : HasTrade(j)}' = {j \in Keys : HasTrade(j)} \cup {k}
  BY DEF HasTrade
<1>2. \A j \in {i \in Keys : HasTrade(i)} \cup {k} :
        openTrades'[j].coll = IF j = k THEN c ELSE StoredTrades[j]
  BY DEF StoredTrades
<1>3. StoredTrades' = [j \in {i \in Keys : HasTrade(i)} \cup {k} |-> openTrades'[j].coll]
  BY <1>1 DEF StoredTrades
<1>4. DOMAIN StoredTrades = {j \in Keys : HasTrade(j)}
  BY DEF StoredTrades
<1> QED
  BY <1>2, <1>3, <1>4 DEF Ideal!With

LEMMA TradeWithout ==
    ASSUME TypeOK, NEW k \in Keys, ~openTrades'[k].open,
           \A j \in Keys : j # k => openTrades'[j] = openTrades[j]
    PROVE  StoredTrades' = Ideal!Without(StoredTrades, k)
<1>1. {j \in Keys : HasTrade(j)}' = {j \in Keys : HasTrade(j)} \ {k}
  BY DEF HasTrade
<1>2. \A j \in {i \in Keys : HasTrade(i)} \ {k} : openTrades'[j].coll = StoredTrades[j]
  BY DEF StoredTrades
<1>3. StoredTrades' = [j \in {i \in Keys : HasTrade(i)} \ {k} |-> openTrades'[j].coll]
  BY <1>1 DEF StoredTrades
<1>4. DOMAIN StoredTrades = {j \in Keys : HasTrade(j)}
  BY DEF StoredTrades
<1> QED
  BY <1>2, <1>3, <1>4 DEF Ideal!Without

\* Limit orders: one is stored or edited, or deleted, and all others are kept.
LEMMA LimitWith ==
    ASSUME NEW k \in Keys, NEW t, HasOpenLimitOrder(k)', Terms(k)' = t,
           \A j \in Keys : j # k => (HasOpenLimitOrder(j)' <=> HasOpenLimitOrder(j)),
           \A j \in Keys : j # k /\ HasOpenLimitOrder(j) => Kept(j)
    PROVE  StoredLimits' = Ideal!With(StoredLimits, k, t)
<1>1. {j \in Keys : HasOpenLimitOrder(j)}' = {j \in Keys : HasOpenLimitOrder(j)} \cup {k}
  OBVIOUS
<1>2. \A j \in {i \in Keys : HasOpenLimitOrder(i)} \cup {k} :
        Terms(j)' = IF j = k THEN t ELSE StoredLimits[j]
  BY DEF StoredLimits, Kept
<1>3. StoredLimits' = [j \in {i \in Keys : HasOpenLimitOrder(i)} \cup {k} |-> Terms(j)']
  BY <1>1 DEF StoredLimits
<1>4. DOMAIN StoredLimits = {j \in Keys : HasOpenLimitOrder(j)}
  BY DEF StoredLimits
<1> QED
  BY <1>2, <1>3, <1>4 DEF Ideal!With

LEMMA LimitWithout ==
    ASSUME NEW k \in Keys,
           \A j \in Keys : HasOpenLimitOrder(j)' <=> HasOpenLimitOrder(j) /\ j # k,
           \A j \in Keys : j # k /\ HasOpenLimitOrder(j) => Kept(j)
    PROVE  StoredLimits' = Ideal!Without(StoredLimits, k)
<1>1. {j \in Keys : HasOpenLimitOrder(j)}' = {j \in Keys : HasOpenLimitOrder(j)} \ {k}
  OBVIOUS
<1>2. \A j \in {i \in Keys : HasOpenLimitOrder(i)} \ {k} : Terms(j)' = StoredLimits[j]
  BY DEF StoredLimits, Kept
<1>3. StoredLimits' = [j \in {i \in Keys : HasOpenLimitOrder(i)} \ {k} |-> Terms(j)']
  BY <1>1 DEF StoredLimits
<1>4. DOMAIN StoredLimits = {j \in Keys : HasOpenLimitOrder(j)}
  BY DEF StoredLimits
<1> QED
  BY <1>2, <1>3, <1>4 DEF Ideal!Without

LEMMA LimitsStay ==
    ASSUME \A j \in Keys : HasOpenLimitOrder(j)' <=> HasOpenLimitOrder(j),
           \A j \in Keys : HasOpenLimitOrder(j) => Kept(j)
    PROVE  StoredLimits' = StoredLimits
<1>1. {j \in Keys : HasOpenLimitOrder(j)}' = {j \in Keys : HasOpenLimitOrder(j)}
  OBVIOUS
<1>2. \A j \in {i \in Keys : HasOpenLimitOrder(i)} : Terms(j)' = Terms(j)
  BY DEF Kept
<1>3. StoredLimits' = [j \in {i \in Keys : HasOpenLimitOrder(i)} |-> Terms(j)']
  BY <1>1 DEF StoredLimits
<1> QED
  BY <1>2, <1>3 DEF StoredLimits

LEMMA StoreLimitIsWith ==
    ASSUME TypeOK, TypeOK', LimitRegistry, LimitRegistry',
           NEW o \in LimitOrder, ~HasOpenLimitOrder(o.key), StoreOpenLimitOrder(o)
    PROVE  StoredLimits' = Ideal!With(StoredLimits, o.key,
             [size |-> o.size, price |-> o.price, slippageP |-> o.slippageP])
<1>1. o.key \in Keys
  BY DEF LimitOrder
<1>2. \A j \in Keys : HasOpenLimitOrder(j)' <=> HasOpenLimitOrder(j) \/ j = o.key
  BY <1>1, StoreLimitKeys
<1>3. \A j \in Keys : j # o.key /\ HasOpenLimitOrder(j) => Kept(j)
  BY KeptByStore
<1>4. openLimitOrders'[openLimitOrderIds'[o.key] + 1] = o
  <2>1. openLimitOrders \in Seq(LimitOrder) /\ openLimitOrderIds \in [Keys -> Nat]
    BY DEF TypeOK
  <2>2. openLimitOrderIds'[o.key] = Len(openLimitOrders)
    BY <1>1, <2>1 DEF StoreOpenLimitOrder
  <2>3. openLimitOrders' = Append(openLimitOrders, o)
    BY DEF StoreOpenLimitOrder
  <2> QED
    BY <2>1, <2>2, <2>3
<1>5. Terms(o.key)' = [size |-> o.size, price |-> o.price, slippageP |-> o.slippageP]
  BY <1>4 DEF Terms
<1> QED
  BY <1>1, <1>2, <1>3, <1>5, LimitWith

LEMMA UnregisterLimitIsWithout ==
    ASSUME TypeOK, TypeOK', LimitRegistry, LimitRegistry',
           NEW k \in Keys, HasOpenLimitOrder(k), UnregisterOpenLimitOrder(k)
    PROVE  StoredLimits' = Ideal!Without(StoredLimits, k)
<1>1. \A j \in Keys : HasOpenLimitOrder(j)' <=> HasOpenLimitOrder(j) /\ j # k
  BY UnregisterLimitKeys
<1>2. \A j \in Keys : j # k /\ HasOpenLimitOrder(j) => Kept(j)
  BY KeptByUnregister
<1> QED
  BY <1>1, <1>2, LimitWithout

\* An amendment changes the price and leaves the size: one order of the ideal
\* book is amended.
LEMMA UpdateLimitIsWith ==
    ASSUME TypeOK, TypeOK', LimitRegistry, LimitRegistry',
           NEW k \in Keys, NEW price \in Prices, NEW slip \in Slippages,
           UpdateOpenLimitOrder(k, price, slip)
    PROVE  StoredLimits' = Ideal!With(StoredLimits, k,
             [size |-> Terms(k).size, price |-> price, slippageP |-> Terms(k).slippageP])
<1> DEFINE n == openLimitOrderIds[k] + 1
           old == openLimitOrders[n]
           o == StoredLimitUpdate(old, [old EXCEPT !.price = price, !.slippageP = slip])
<1>1. /\ HasOpenLimitOrder(k) /\ openLimitOrderIds' = openLimitOrderIds
      /\ openLimitOrders' = [openLimitOrders EXCEPT ![n] = o]
  BY DEF UpdateOpenLimitOrder
<1>2. /\ old \in LimitOrder /\ old.key = k /\ n \in 1 .. Len(openLimitOrders)
      /\ openLimitOrders \in Seq(LimitOrder)
      /\ Terms(k) = [size |-> old.size, price |-> old.price, slippageP |-> old.slippageP]
  BY <1>1, LimitOrderAt DEF TypeOK, Terms
<1> HIDE DEF old
<1>5. o.key = k /\ o.size = old.size /\ o.price = price /\ o.slippageP = old.slippageP
  BY <1>2 DEF StoredLimitUpdate, LimitOrder
<1> HIDE DEF o
<1>3. openLimitOrders'[n] = o
  BY <1>1, <1>2
<1>4. Terms(k)' = [size |-> o.size, price |-> o.price, slippageP |-> o.slippageP]
  BY <1>1, <1>3 DEF Terms
<1>6. Terms(k)' = [size |-> Terms(k).size, price |-> price, slippageP |-> Terms(k).slippageP]
  BY <1>2, <1>4, <1>5
<1> HIDE DEF n
<1>7. \A j \in Keys : HasOpenLimitOrder(j)' <=> HasOpenLimitOrder(j)
  BY <1>1, <1>5, EditKeys DEF n
<1>8. \A j \in Keys : j # k /\ HasOpenLimitOrder(j) => Kept(j)
  BY UpdateOpenLimitOrderKeeps
<1> QED
  BY <1>1, <1>6, <1>7, <1>8, LimitWith

\* The ripening of an order is nothing to the ideal book.
LEMMA RipeningStays ==
    ASSUME TypeOK, TypeOK', LimitRegistry, LimitRegistry',
           NEW k \in Keys, LimitOrderRipens(k)
    PROVE  StoredLimits' = StoredLimits
<1> DEFINE n == openLimitOrderIds[k] + 1
           o == [openLimitOrders[n] EXCEPT !.ripe = TRUE]
<1>1. HasOpenLimitOrder(k) /\ openLimitOrders' = [openLimitOrders EXCEPT ![n] = o]
  BY DEF LimitOrderRipens
<1>2. openLimitOrders[n] \in LimitOrder /\ openLimitOrders[n].key = k
  BY <1>1, LimitOrderAt
<1>3. o.key = k
  BY <1>2 DEF LimitOrder
<1> HIDE DEF o, n
<1>4. \A j \in Keys : HasOpenLimitOrder(j)' <=> HasOpenLimitOrder(j)
  BY <1>1, <1>3, EditKeys DEF n
<1>5. \A j \in Keys : HasOpenLimitOrder(j) => Kept(j)
  BY LimitOrderRipensKeeps
<1> QED
  BY <1>4, <1>5, LimitsStay

LEMMA LimitsUntouched ==
    ASSUME UNCHANGED limitVars
    PROVE  StoredLimits' = StoredLimits
<1>1. \A j \in Keys : HasOpenLimitOrder(j)' <=> HasOpenLimitOrder(j)
  BY DEF HasOpenLimitOrder, limitVars
<1>2. \A j \in Keys : HasOpenLimitOrder(j) => Kept(j)
  BY KeptUnchanged
<1> QED
  BY <1>1, <1>2, LimitsStay

\* The pending orders of the two kinds.
OpenIds == {id \in OrderIds : Pending(id, "MARKET_OPEN")}
CloseIds == {id \in OrderIds : Pending(id, "MARKET_CLOSE")}

LEMMA StoredIds ==
    /\ DOMAIN StoredOpens = OpenIds /\ DOMAIN StoredCloses = CloseIds
    /\ \A id \in OpenIds : StoredOpens[id] =
         [book   |-> reqIDpendingMarketOrder[id].key.book,
          amount |-> reqIDpendingMarketOrder[id].amount]
    /\ \A id \in CloseIds : StoredCloses[id] =
         [key    |-> reqIDpendingMarketOrder[id].key,
          amount |-> reqIDpendingMarketOrder[id].amount]
BY DEF StoredOpens, StoredCloses, OpenIds, CloseIds

LEMMA OpenIsWith ==
    ASSUME TypeOK, PendingRegistry, NEW id \in OrderIds, id = currentOrderId,
           NEW o \in PendingOrder, Initiates(id, "MARKET_OPEN"),
           StorePendingMarketOrder(id, o)
    PROVE  /\ Ideal!Unused(id) /\ StoredCloses' = StoredCloses
           /\ StoredOpens' =
                Ideal!With(StoredOpens, id, [book |-> o.key.book, amount |-> o.amount])
<1>1. reqIDpendingMarketOrder[id] = NoOrder
  BY FreshIsUnused
<1>2. /\ orders \in [OrderIds -> {"none", "MARKET_OPEN", "MARKET_CLOSE"}]
      /\ reqIDpendingMarketOrder \in [OrderIds -> PendingOrder \cup {NoOrder}]
      /\ reqIDpendingMarketOrder' = [reqIDpendingMarketOrder EXCEPT ![id] = o]
      /\ orders' = [orders EXCEPT ![id] = "MARKET_OPEN"] /\ o # NoOrder
  BY NoOrderAssumption DEF TypeOK, StorePendingMarketOrder, Initiates
<1>3. /\ orders'[id] = "MARKET_OPEN" /\ reqIDpendingMarketOrder'[id] = o
      /\ \A j \in OrderIds : j # id =>
           /\ orders'[j] = orders[j]
           /\ reqIDpendingMarketOrder'[j] = reqIDpendingMarketOrder[j]
  BY <1>2
<1>4. id \notin OpenIds /\ id \notin CloseIds
  BY <1>1 DEF OpenIds, CloseIds, Pending
<1>5. OpenIds' = OpenIds \cup {id} /\ CloseIds' = CloseIds
  BY <1>1, <1>2, <1>3 DEF OpenIds, CloseIds, Pending
<1>6. Ideal!Unused(id)
  BY <1>4, StoredIds DEF Ideal!Unused
<1>7. StoredCloses' = [j \in CloseIds' |->
        [key    |-> reqIDpendingMarketOrder'[j].key,
         amount |-> reqIDpendingMarketOrder'[j].amount]]
  BY DEF StoredCloses, CloseIds
<1>8. StoredCloses' = StoredCloses
  <2>1. \A j \in CloseIds : reqIDpendingMarketOrder'[j] = reqIDpendingMarketOrder[j]
    BY <1>3, <1>4 DEF CloseIds
  <2>2. StoredCloses = [j \in CloseIds |->
          [key    |-> reqIDpendingMarketOrder[j].key,
           amount |-> reqIDpendingMarketOrder[j].amount]]
    BY DEF StoredCloses, CloseIds
  <2> QED
    BY <1>5, <1>7, <2>1, <2>2
<1>9. StoredOpens' = [j \in OpenIds \cup {id} |->
        [book   |-> reqIDpendingMarketOrder'[j].key.book,
         amount |-> reqIDpendingMarketOrder'[j].amount]]
  BY <1>5 DEF StoredOpens, OpenIds
<1>10. \A j \in OpenIds : reqIDpendingMarketOrder'[j] = reqIDpendingMarketOrder[j]
  BY <1>3, <1>4 DEF OpenIds
<1> QED
  BY <1>3, <1>4, <1>6, <1>8, <1>9, <1>10, StoredIds DEF Ideal!With

LEMMA CloseIsWith ==
    ASSUME TypeOK, PendingRegistry, NEW id \in OrderIds, id = currentOrderId,
           NEW o \in PendingOrder, Initiates(id, "MARKET_CLOSE"),
           StorePendingMarketOrder(id, o)
    PROVE  /\ Ideal!Unused(id) /\ StoredOpens' = StoredOpens
           /\ StoredCloses' =
                Ideal!With(StoredCloses, id, [key |-> o.key, amount |-> o.amount])
<1>1. reqIDpendingMarketOrder[id] = NoOrder
  BY FreshIsUnused
<1>2. /\ orders \in [OrderIds -> {"none", "MARKET_OPEN", "MARKET_CLOSE"}]
      /\ reqIDpendingMarketOrder \in [OrderIds -> PendingOrder \cup {NoOrder}]
      /\ reqIDpendingMarketOrder' = [reqIDpendingMarketOrder EXCEPT ![id] = o]
      /\ orders' = [orders EXCEPT ![id] = "MARKET_CLOSE"] /\ o # NoOrder
  BY NoOrderAssumption DEF TypeOK, StorePendingMarketOrder, Initiates
<1>3. /\ orders'[id] = "MARKET_CLOSE" /\ reqIDpendingMarketOrder'[id] = o
      /\ \A j \in OrderIds : j # id =>
           /\ orders'[j] = orders[j]
           /\ reqIDpendingMarketOrder'[j] = reqIDpendingMarketOrder[j]
  BY <1>2
<1>4. id \notin OpenIds /\ id \notin CloseIds
  BY <1>1 DEF OpenIds, CloseIds, Pending
<1>5. CloseIds' = CloseIds \cup {id} /\ OpenIds' = OpenIds
  BY <1>1, <1>2, <1>3 DEF OpenIds, CloseIds, Pending
<1>6. Ideal!Unused(id)
  BY <1>4, StoredIds DEF Ideal!Unused
<1>7. StoredOpens' = [j \in OpenIds' |->
        [book   |-> reqIDpendingMarketOrder'[j].key.book,
         amount |-> reqIDpendingMarketOrder'[j].amount]]
  BY DEF StoredOpens, OpenIds
<1>8. StoredOpens' = StoredOpens
  <2>1. \A j \in OpenIds : reqIDpendingMarketOrder'[j] = reqIDpendingMarketOrder[j]
    BY <1>3, <1>4 DEF OpenIds
  <2>2. StoredOpens = [j \in OpenIds |->
          [book   |-> reqIDpendingMarketOrder[j].key.book,
           amount |-> reqIDpendingMarketOrder[j].amount]]
    BY DEF StoredOpens, OpenIds
  <2> QED
    BY <1>5, <1>7, <2>1, <2>2
<1>9. StoredCloses' = [j \in CloseIds \cup {id} |->
        [key    |-> reqIDpendingMarketOrder'[j].key,
         amount |-> reqIDpendingMarketOrder'[j].amount]]
  BY <1>5 DEF StoredCloses, CloseIds
<1>10. \A j \in CloseIds : reqIDpendingMarketOrder'[j] = reqIDpendingMarketOrder[j]
  BY <1>3, <1>4 DEF CloseIds
<1> QED
  BY <1>3, <1>4, <1>6, <1>8, <1>9, <1>10, StoredIds DEF Ideal!With

\* An order settled or cancelled leaves the pending ones of its kind, and
\* nothing else does.
LEMMA OrderDropped ==
    ASSUME TypeOK, PendingRegistry, NEW id \in OrderIds,
           reqIDpendingMarketOrder[id] # NoOrder,
           UnregisterPendingOpen(id) \/ UnregisterPendingClose(id),
           UNCHANGED orders \/ FulfilOrder(id)
    PROVE  /\ OpenIds' = OpenIds \ {id} /\ CloseIds' = CloseIds \ {id}
           /\ \A j \in OrderIds : j # id =>
                reqIDpendingMarketOrder'[j] = reqIDpendingMarketOrder[j]
<1>1. PICK i : DropPendingId(id, i)
  BY PendingIsListed DEF UnregisterPendingOpen, UnregisterPendingClose
<1>2. /\ orders \in [OrderIds -> {"none", "MARKET_OPEN", "MARKET_CLOSE"}]
      /\ reqIDpendingMarketOrder \in [OrderIds -> PendingOrder \cup {NoOrder}]
      /\ reqIDpendingMarketOrder' = [reqIDpendingMarketOrder EXCEPT ![id] = NoOrder]
  BY <1>1 DEF TypeOK, DropPendingId
<1>3. /\ reqIDpendingMarketOrder'[id] = NoOrder
      /\ \A j \in OrderIds : j # id =>
           /\ orders'[j] = orders[j]
           /\ reqIDpendingMarketOrder'[j] = reqIDpendingMarketOrder[j]
  BY <1>2 DEF FulfilOrder
<1> QED
  BY <1>3 DEF OpenIds, CloseIds, Pending

\* The ideal book's entries follow the ids and the orders they name.
OpenOf(o) == [book |-> o.key.book, amount |-> o.amount]
CloseOf(o) == [key |-> o.key, amount |-> o.amount]

LEMMA EntriesNext ==
    /\ StoredOpens = [j \in OpenIds |-> OpenOf(reqIDpendingMarketOrder[j])]
    /\ StoredOpens' = [j \in OpenIds' |-> OpenOf(reqIDpendingMarketOrder'[j])]
    /\ StoredCloses = [j \in CloseIds |-> CloseOf(reqIDpendingMarketOrder[j])]
    /\ StoredCloses' = [j \in CloseIds' |-> CloseOf(reqIDpendingMarketOrder'[j])]
BY DEF StoredOpens, StoredCloses, OpenIds, CloseIds, OpenOf, CloseOf

LEMMA OpenIsWithout ==
    ASSUME TypeOK, PendingRegistry, NEW id \in OrderIds, Pending(id, "MARKET_OPEN"),
           UnregisterPendingOpen(id), UNCHANGED orders \/ FulfilOrder(id)
    PROVE  /\ StoredOpens' = Ideal!Without(StoredOpens, id)
           /\ StoredCloses' = StoredCloses
<1>1. /\ OpenIds' = OpenIds \ {id} /\ CloseIds' = CloseIds \ {id}
      /\ \A j \in OrderIds : j # id =>
           reqIDpendingMarketOrder'[j] = reqIDpendingMarketOrder[j]
  BY OrderDropped DEF Pending
<1>2. id \notin CloseIds /\ CloseIds \subseteq OrderIds /\ OpenIds \subseteq OrderIds
  BY DEF CloseIds, OpenIds, Pending
<1>3. StoredCloses' = StoredCloses
  BY <1>1, <1>2, EntriesNext
<1>4. StoredOpens' = Ideal!Without(StoredOpens, id)
  BY <1>1, <1>2, EntriesNext DEF Ideal!Without
<1> QED
  BY <1>3, <1>4

LEMMA CloseIsWithout ==
    ASSUME TypeOK, PendingRegistry, NEW id \in OrderIds, Pending(id, "MARKET_CLOSE"),
           UnregisterPendingClose(id), UNCHANGED orders \/ FulfilOrder(id)
    PROVE  /\ StoredCloses' = Ideal!Without(StoredCloses, id)
           /\ StoredOpens' = StoredOpens
<1>1. /\ OpenIds' = OpenIds \ {id} /\ CloseIds' = CloseIds \ {id}
      /\ \A j \in OrderIds : j # id =>
           reqIDpendingMarketOrder'[j] = reqIDpendingMarketOrder[j]
  BY OrderDropped DEF Pending
<1>2. id \notin OpenIds /\ CloseIds \subseteq OrderIds /\ OpenIds \subseteq OrderIds
  BY DEF CloseIds, OpenIds, Pending
<1>3. StoredOpens' = StoredOpens
  BY <1>1, <1>2, EntriesNext
<1>4. StoredCloses' = Ideal!Without(StoredCloses, id)
  BY <1>1, <1>2, EntriesNext DEF Ideal!Without
<1> QED
  BY <1>3, <1>4

\* What leaves the tables alone.
LEMMA OrdersUntouched ==
    ASSUME UNCHANGED reqIDpendingMarketOrder,
           \A j \in OrderIds : reqIDpendingMarketOrder[j] # NoOrder =>
             orders'[j] = orders[j]
    PROVE  StoredOpens' = StoredOpens /\ StoredCloses' = StoredCloses
<1>1. OpenIds' = OpenIds /\ CloseIds' = CloseIds
  BY DEF OpenIds, CloseIds, Pending
<1> QED
  BY <1>1, EntriesNext

LEMMA TradesUntouched ==
    ASSUME UNCHANGED openTrades
    PROVE  StoredTrades' = StoredTrades
BY DEF StoredTrades, HasTrade

\* What the ideal book finds stored.
LEMMA StoredDomains ==
    /\ DOMAIN StoredTrades = {k \in Keys : HasTrade(k)}
    /\ DOMAIN StoredLimits = {k \in Keys : HasOpenLimitOrder(k)}
    /\ \A k \in Keys : HasTrade(k) => StoredTrades[k] = openTrades[k].coll
    /\ \A k \in Keys : HasOpenLimitOrder(k) => StoredLimits[k] = Terms(k)
BY DEF StoredTrades, StoredLimits

\* The counters the limit is checked with are the load of the ideal book.
LEMMA LoadIsCounted ==
    ASSUME Counted, NEW b \in Books
    PROVE  Ideal!Load(b) = openTradesCount[b] + openLimitOrdersCount[b]
                             + pendingMarketOpenCount[b]
<1>1. {k \in DOMAIN StoredTrades : k.book = b} = TradesOf(b)
  BY StoredDomains DEF TradesOf, KeysOf
<1>2. {k \in DOMAIN StoredLimits : k.book = b} = LimitsOf(b)
  BY StoredDomains DEF LimitsOf, KeysOf
<1>3. {id \in DOMAIN StoredOpens : StoredOpens[id].book = b} = PendingOf(b, "MARKET_OPEN")
  BY StoredIds DEF PendingOf, OpenIds
<1>4. Ideal!Load(b) = Cardinality(TradesOf(b)) + Cardinality(LimitsOf(b))
                        + Cardinality(PendingOf(b, "MARKET_OPEN"))
  BY <1>1, <1>2, <1>3 DEF Ideal!Load, Ideal!Cardinality, Cardinality
<1> QED
  BY <1>4 DEF Counted, TradesCounted, LimitsCounted, PendingCounted

LEMMA RoomIsRoom ==
    ASSUME TypeOK, Counted, NEW b \in Books, RoomForOrder(b)
    PROVE  Ideal!Load(b) < MaxTradesPerPair
<1>1. /\ openTradesCount[b] \in Nat /\ openLimitOrdersCount[b] \in Nat
      /\ pendingMarketOpenCount[b] \in Nat
  BY DEF TypeOK
<1>2. openTradesCount[b] + pendingMarketOpenCount[b] + openLimitOrdersCount[b]
        < MaxTradesPerPair
  BY DEF RoomForOrder
<1>3. PICK n : n = Ideal!Load(b)
  OBVIOUS
<1>4. n = openTradesCount[b] + openLimitOrdersCount[b] + pendingMarketOpenCount[b]
  BY <1>3, LoadIsCounted
<1>5. n < MaxTradesPerPair
  BY <1>1, <1>2, <1>4, LimitsAssumption
<1> QED
  BY <1>3, <1>5

\* The values the ideal book stores are of the sets it draws them from.
LimitTermsSet == [size : Sizes, price : Prices, slippageP : Slippages]

Entries(f, S) == \A x \in DOMAIN f : f[x] \in S

IdealTyped ==
    /\ Entries(StoredTrades, AllAmounts)
    /\ Entries(StoredLimits, LimitTermsSet)
    /\ Entries(StoredOpens, [book : Books, amount : AllAmounts])

LEMMA WithEntries ==
    ASSUME NEW f, NEW S, Entries(f, S), NEW x, NEW v \in S
    PROVE  Entries(Ideal!With(f, x, v), S)
BY DEF Entries, Ideal!With

LEMMA WithoutEntries ==
    ASSUME NEW f, NEW S, Entries(f, S), NEW x
    PROVE  Entries(Ideal!Without(f, x), S)
BY DEF Entries, Ideal!Without

\* What the steps on the storage rely on and give.
Sound == IInv /\ Counted /\ IdealTyped

LEMMA SoundParts ==
    ASSUME Sound
    PROVE  TypeOK /\ LimitRegistry /\ PendingRegistry /\ Counted /\ IdealTyped
BY DEF Sound, IInv

LEMMA IInvParts ==
    ASSUME IInv'
    PROVE  TypeOK' /\ LimitRegistry' /\ PendingRegistry'
BY DEF IInv

LEMMA OpenTradeMarketIdeal ==
    ASSUME Sound, IInv', NEW b \in Books, NEW size \in Sizes, OpenTradeMarket(b, size)
    PROVE  Ideal!Next
<1>1. PICK id \in OrderIds :
        /\ FreshOrder(id) /\ orders' = [orders EXCEPT ![id] = "MARKET_OPEN"]
        /\ StorePendingMarketOrder(id, [key |-> Key(b, 0), amount |-> size])
  BY DEF OpenTradeMarket
<1> DEFINE o == [key |-> Key(b, 0), amount |-> size]
<1>2. o \in PendingOrder /\ o.key.book = b /\ o.amount = size
  <2>1. 0 \in Slots
    BY LimitsAssumption DEF Slots
  <2>2. Key(b, 0) \in Keys /\ size \in Nat
    BY <2>1, KeyType, AmountsAssumption
  <2> QED
    BY <2>2 DEF PendingOrder, Key
<1> HIDE DEF o
<1>3. StorePendingMarketOrder(id, o) /\ Initiates(id, "MARKET_OPEN") /\ id = currentOrderId
  BY <1>1 DEF o, Initiates, FreshOrder
<1>4. /\ Ideal!Unused(id) /\ StoredCloses' = StoredCloses
      /\ StoredOpens' = Ideal!With(StoredOpens, id, [book |-> b, amount |-> size])
  BY <1>2, <1>3, OpenIsWith, SoundParts
<1>5. Ideal!Load(b) < MaxTradesPerPair
  BY RoomIsRoom, SoundParts DEF OpenTradeMarket
<1>6. StoredTrades' = StoredTrades /\ StoredLimits' = StoredLimits
  BY TradesUntouched, LimitsUntouched DEF OpenTradeMarket, tradeVars
<1>7. Ideal!RequestOpen(b, id, size)
  BY <1>4, <1>5, <1>6 DEF Ideal!RequestOpen
<1> QED
  BY <1>7, AmountsClosed DEF Ideal!Next

LEMMA OpenTradeLimitIdeal ==
    ASSUME Sound, IInv', NEW b \in Books, NEW size \in Sizes, NEW price \in Prices,
           NEW slip \in Slippages, OpenTradeLimit(b, size, price, slip)
    PROVE  Ideal!Next
<1>1. PICK i \in Slots :
        /\ FirstEmptyOpenLimitIndex(b, i)
        /\ StoreOpenLimitOrder([key |-> Key(b, i), size |-> size, price |-> price,
                                slippageP |-> slip, ripe |-> FALSE])
  BY DEF OpenTradeLimit
<1> DEFINE o == [key |-> Key(b, i), size |-> size, price |-> price,
                 slippageP |-> slip, ripe |-> FALSE]
           t == [size |-> size, price |-> price, slippageP |-> slip]
<1>2. /\ o \in LimitOrder /\ o.key = Key(b, i)
      /\ [size |-> o.size, price |-> o.price, slippageP |-> o.slippageP] = t
  <2>1. Key(b, i) \in Keys /\ size \in Nat
    BY KeyType, AmountsAssumption
  <2> QED
    BY <2>1 DEF LimitOrder
<1> HIDE DEF o
<1>3. StoreOpenLimitOrder(o) /\ ~HasOpenLimitOrder(o.key)
  BY <1>1, <1>2 DEF o, FirstEmptyOpenLimitIndex, IsFirst
<1>4. StoredLimits' = Ideal!With(StoredLimits, Key(b, i), t)
  BY <1>2, <1>3, StoreLimitIsWith, SoundParts, IInvParts
<1>5. Key(b, i) = Ideal!At(b, i) /\ Key(b, i) \notin DOMAIN StoredLimits
  BY <1>2, <1>3, StoredDomains DEF Key, Ideal!At
<1>6. Ideal!Load(b) < MaxTradesPerPair
  BY RoomIsRoom, SoundParts DEF OpenTradeLimit
<1>7. /\ StoredTrades' = StoredTrades
      /\ StoredOpens' = StoredOpens /\ StoredCloses' = StoredCloses
  BY TradesUntouched, OrdersUntouched DEF OpenTradeLimit, tradeVars, pendingVars
<1>8. Ideal!PlaceLimit(b, i, t)
  BY <1>4, <1>5, <1>6, <1>7 DEF Ideal!PlaceLimit
<1>9. t \in LimitTermsSet
  BY DEF LimitTermsSet
<1> QED
  BY <1>8, <1>9 DEF Ideal!Next, LimitTermsSet

LEMMA CloseTradeMarketIdeal ==
    ASSUME Sound, IInv', NEW k \in Keys, NEW amount \in CloseAmounts,
           CloseTradeMarket(k, amount)
    PROVE  Ideal!Next
<1>1. PICK id \in OrderIds :
        /\ FreshOrder(id) /\ orders' = [orders EXCEPT ![id] = "MARKET_CLOSE"]
        /\ StorePendingMarketOrder(id, [key |-> k, amount |-> amount])
  BY DEF CloseTradeMarket
<1> DEFINE o == [key |-> k, amount |-> amount]
<1>2. o \in PendingOrder /\ o.key = k /\ o.amount = amount
  BY AmountsAssumption DEF PendingOrder
<1> HIDE DEF o
<1>3. StorePendingMarketOrder(id, o) /\ Initiates(id, "MARKET_CLOSE") /\ id = currentOrderId
  BY <1>1 DEF o, Initiates, FreshOrder
<1>4. /\ Ideal!Unused(id) /\ StoredOpens' = StoredOpens
      /\ StoredCloses' = Ideal!With(StoredCloses, id, [key |-> k, amount |-> amount])
  BY <1>2, <1>3, CloseIsWith, SoundParts
<1>5. k \in DOMAIN StoredTrades
  BY StoredDomains DEF CloseTradeMarket
<1>6. StoredTrades' = StoredTrades /\ StoredLimits' = StoredLimits
  BY TradesUntouched, LimitsUntouched DEF CloseTradeMarket, tradeVars
<1>7. Ideal!RequestClose(k, id, amount)
  BY <1>4, <1>5, <1>6 DEF Ideal!RequestClose
<1> QED
  BY <1>5, <1>7, AmountsClosed DEF Ideal!Next

\* Nothing but the trades changes, or nothing but the limit orders.
LEMMA OnlyTrades ==
    ASSUME UNCHANGED <<pendingVars, limitVars, orders>>
    PROVE  /\ StoredLimits' = StoredLimits
           /\ StoredOpens' = StoredOpens /\ StoredCloses' = StoredCloses
BY LimitsUntouched, OrdersUntouched DEF pendingVars

LEMMA OnlyLimits ==
    ASSUME UNCHANGED <<tradeVars, pendingVars, orders>>
    PROVE  /\ StoredTrades' = StoredTrades
           /\ StoredOpens' = StoredOpens /\ StoredCloses' = StoredCloses
BY TradesUntouched, OrdersUntouched DEF tradeVars, pendingVars

LEMMA UpdateOpenLimitOrderIdeal ==
    ASSUME Sound, IInv', NEW k \in Keys, NEW price \in Prices, NEW slip \in Slippages,
           UpdateOpenLimitOrder(k, price, slip)
    PROVE  Ideal!Next
<1> DEFINE t == [size |-> Terms(k).size, price |-> price, slippageP |-> Terms(k).slippageP]
<1>1. /\ StoredLimits' = Ideal!With(StoredLimits, k, t)
  BY UpdateLimitIsWith, SoundParts, IInvParts
<1>2. k \in DOMAIN StoredLimits /\ StoredLimits[k] = Terms(k)
  BY StoredDomains DEF UpdateOpenLimitOrder
<1>3. t \in LimitTermsSet /\ t.size = StoredLimits[k].size
  BY <1>2, SoundParts DEF IdealTyped, Entries, LimitTermsSet
<1>4. /\ StoredTrades' = StoredTrades
      /\ StoredOpens' = StoredOpens /\ StoredCloses' = StoredCloses
  BY OnlyLimits DEF UpdateOpenLimitOrder
<1> HIDE DEF t
<1>5. Ideal!AmendLimit(k, t)
  BY <1>1, <1>2, <1>3, <1>4 DEF Ideal!AmendLimit
<1> QED
  BY <1>2, <1>3, <1>5 DEF Ideal!Next, LimitTermsSet

LEMMA CancelOpenLimitOrderIdeal ==
    ASSUME Sound, IInv', NEW k \in Keys, CancelOpenLimitOrder(k)
    PROVE  Ideal!Next
<1>1. StoredLimits' = Ideal!Without(StoredLimits, k)
  BY UnregisterLimitIsWithout, SoundParts, IInvParts DEF CancelOpenLimitOrder
<1>2. k \in DOMAIN StoredLimits
  BY StoredDomains DEF CancelOpenLimitOrder
<1>3. /\ StoredTrades' = StoredTrades
      /\ StoredOpens' = StoredOpens /\ StoredCloses' = StoredCloses
  BY OnlyLimits DEF CancelOpenLimitOrder
<1>4. Ideal!CancelLimit(k)
  BY <1>1, <1>2, <1>3 DEF Ideal!CancelLimit
<1> QED
  BY <1>2, <1>4 DEF Ideal!Next

\* A step that the ideal book does not see.
Unseen ==
    /\ StoredTrades' = StoredTrades /\ StoredLimits' = StoredLimits
    /\ StoredOpens' = StoredOpens /\ StoredCloses' = StoredCloses

LEMMA LimitOrderRipensIdeal ==
    ASSUME Sound, IInv', NEW k \in Keys, LimitOrderRipens(k)
    PROVE  Unseen
<1>1. StoredLimits' = StoredLimits
  BY RipeningStays, SoundParts, IInvParts
<1> QED
  BY <1>1, OnlyLimits DEF LimitOrderRipens, Unseen

LEMMA SetCollateralIdeal ==
    ASSUME Sound, IInv', NEW k \in Keys, NEW coll \in AllAmounts, HasTrade(k),
           SetCollateral(k, coll)
    PROVE  Ideal!Next
<1>1. openTrades \in [Keys -> Trade] /\ openTrades[k].open
  BY SoundParts DEF TypeOK, HasTrade
<1>2. /\ openTrades'[k].open /\ openTrades'[k].coll = coll
      /\ \A j \in Keys : j # k => openTrades'[j] = openTrades[j]
  BY <1>1 DEF SetCollateral, Trade
<1>3. StoredTrades' = Ideal!With(StoredTrades, k, coll)
  BY <1>2, TradeWith, SoundParts
<1>4. /\ StoredLimits' = StoredLimits
      /\ StoredOpens' = StoredOpens /\ StoredCloses' = StoredCloses
  BY OnlyTrades DEF SetCollateral
<1>5. k \in DOMAIN StoredTrades
  BY StoredDomains
<1>6. Ideal!Amend(k, coll)
  BY <1>3, <1>4, <1>5 DEF Ideal!Amend
<1> QED
  BY <1>5, <1>6 DEF Ideal!Next

LEMMA UpdateMarginIdeal ==
    ASSUME Sound, IInv', NEW k \in Keys, NEW coll \in Sizes, UpdateMargin(k, coll)
    PROVE  Ideal!Next
BY SetCollateralIdeal, AmountsClosed DEF UpdateMargin

\* What is left of an amount when the fee is taken from it.
LEMMA AmountLess ==
    ASSUME NEW a \in AllAmounts, NEW fee \in Fees, fee <= a
    PROVE  a - fee \in AllAmounts /\ a - fee <= a
<1>1. a \in Nat /\ fee \in Nat
  BY AmountsClosed, AmountsAssumption
<1>2. PICK c : c = a - fee
  OBVIOUS
<1>3. c \in Nat /\ c <= a
  BY <1>1, <1>2
<1>4. c \in AllAmounts
  BY <1>3, AmountsClosed
<1> QED
  BY <1>2, <1>3, <1>4

LEMMA UpdateSlIdeal ==
    ASSUME Sound, IInv', NEW k \in Keys, NEW fee \in Fees, UpdateSl(k, fee)
    PROVE  Ideal!Next
<1>1. openTrades[k].coll \in AllAmounts /\ fee <= openTrades[k].coll
  BY StoredDomains, SoundParts DEF IdealTyped, Entries, UpdateSl
<1>2. openTrades[k].coll - fee \in AllAmounts
  BY <1>1, AmountLess
<1> QED
  BY <1>2, SetCollateralIdeal DEF UpdateSl

\* Filling an order: a trade is stored in an empty slot of its book.
LEMMA StoreTradeIsWith ==
    ASSUME TypeOK, NEW b \in Books, NEW i \in Slots, NEW c,
           FirstEmptyTradeIndex(b, i), StoreTrade(Key(b, i), c)
    PROVE  /\ Ideal!At(b, i) \notin DOMAIN StoredTrades
           /\ StoredTrades' = Ideal!With(StoredTrades, Ideal!At(b, i), c)
<1>1. PICK k \in Keys : k = Key(b, i)
  BY KeyType
<1>2. k = Ideal!At(b, i)
  BY <1>1 DEF Key, Ideal!At
<1>3. ~HasTrade(k)
  BY <1>1 DEF FirstEmptyTradeIndex, IsFirst
<1>4. openTrades \in [Keys -> Trade]
  BY DEF TypeOK
<1>5. openTrades' = [openTrades EXCEPT ![k] = [coll |-> c, open |-> TRUE]]
  BY <1>1 DEF StoreTrade
<1>6. /\ openTrades'[k].open /\ openTrades'[k].coll = c
      /\ \A j \in Keys : j # k => openTrades'[j] = openTrades[j]
  BY <1>4, <1>5
<1>7. StoredTrades' = Ideal!With(StoredTrades, k, c)
  BY <1>6, TradeWith
<1> QED
  BY <1>2, <1>3, <1>7, StoredDomains

LEMMA ExecuteLimitOpenIdeal ==
    ASSUME Sound, IInv', NEW k \in Keys, NEW fee \in Fees, ExecuteLimitOpen(k, fee)
    PROVE  Ideal!Next
<1>1. PICK size : size = Terms(k).size
  OBVIOUS
<1>2. PICK i \in Slots : FirstEmptyTradeIndex(k.book, i)
                         /\ StoreTrade(Key(k.book, i), size - fee)
  BY <1>1 DEF ExecuteLimitOpen, Terms
<1>3. HasOpenLimitOrder(k) /\ fee <= size
  BY <1>1 DEF ExecuteLimitOpen, Terms
<1>4. k \in DOMAIN StoredLimits /\ StoredLimits[k].size = size
  BY <1>1, <1>3, StoredDomains
<1>5. size \in AllAmounts
  BY <1>4, SoundParts, AmountsClosed DEF IdealTyped, Entries, LimitTermsSet
<1>6. PICK c : c = size - fee
  OBVIOUS
<1>7. c \in AllAmounts /\ c <= size
  BY <1>3, <1>5, <1>6, AmountLess
<1>8. /\ Ideal!At(k.book, i) \notin DOMAIN StoredTrades
      /\ StoredTrades' = Ideal!With(StoredTrades, Ideal!At(k.book, i), c)
  BY <1>2, <1>6, KeyBook, SoundParts, StoreTradeIsWith
<1>9. StoredLimits' = Ideal!Without(StoredLimits, k)
  BY <1>3, UnregisterLimitIsWithout, SoundParts, IInvParts DEF ExecuteLimitOpen
<1>10. StoredOpens' = StoredOpens /\ StoredCloses' = StoredCloses
  BY OrdersUntouched DEF ExecuteLimitOpen, pendingVars
<1>11. Ideal!FillLimit(k, i, c)
  BY <1>4, <1>7, <1>8, <1>9, <1>10 DEF Ideal!FillLimit
<1> QED
  BY <1>4, <1>7, <1>11 DEF Ideal!Next

LEMMA UnregisterTradeIsWithout ==
    ASSUME TypeOK, NEW k \in Keys, UnregisterTrade(k)
    PROVE  StoredTrades' = Ideal!Without(StoredTrades, k)
<1>1. openTrades \in [Keys -> Trade] /\ openTrades' = [openTrades EXCEPT ![k] = NoTrade]
  BY DEF TypeOK, UnregisterTrade
<1>2. /\ ~openTrades'[k].open
      /\ \A j \in Keys : j # k => openTrades'[j] = openTrades[j]
  BY <1>1 DEF NoTrade
<1> QED
  BY <1>2, TradeWithout

LEMMA ExecuteLimitCloseIdeal ==
    ASSUME Sound, IInv', NEW k \in Keys, NEW type, ExecuteLimitClose(k, type)
    PROVE  Ideal!Next
<1>1. StoredTrades' = Ideal!Without(StoredTrades, k)
  BY UnregisterTradeIsWithout, SoundParts DEF ExecuteLimitClose
<1>2. k \in DOMAIN StoredTrades
  BY StoredDomains DEF ExecuteLimitClose
<1>3. /\ StoredLimits' = StoredLimits
      /\ StoredOpens' = StoredOpens /\ StoredCloses' = StoredCloses
  BY OnlyTrades DEF ExecuteLimitClose
<1>4. Ideal!Close(k)
  BY <1>1, <1>2, <1>3 DEF Ideal!Close
<1> QED
  BY <1>2, <1>4 DEF Ideal!Next

LEMMA MarketOpenFillsIdeal ==
    ASSUME Sound, IInv', NEW id \in OrderIds, NEW fee \in Fees, MarketOpenFills(id, fee)
    PROVE  Ideal!Next
<1>1. PICK o : o = reqIDpendingMarketOrder[id]
  OBVIOUS
<1>2. Pending(id, "MARKET_OPEN") /\ fee <= o.amount
  BY <1>1 DEF MarketOpenFills
<1>3. PICK i \in Slots : FirstEmptyTradeIndex(o.key.book, i)
                         /\ StoreTrade(Key(o.key.book, i), o.amount - fee)
  BY <1>1 DEF MarketOpenFills
<1>4. o.key.book \in Books
  BY <1>1, <1>2, PendingOrderBook, SoundParts DEF Pending
<1>5. /\ id \in DOMAIN StoredOpens
      /\ StoredOpens[id].book = o.key.book /\ StoredOpens[id].amount = o.amount
  BY <1>1, <1>2, StoredIds DEF OpenIds
<1>6. PICK c : c = o.amount - fee
  OBVIOUS
<1>7. c \in AllAmounts /\ c <= o.amount
  <2>1. o.amount \in AllAmounts
    BY <1>5, SoundParts DEF IdealTyped, Entries
  <2> QED
    BY <1>2, <1>6, <2>1, AmountLess
<1>8. /\ Ideal!At(o.key.book, i) \notin DOMAIN StoredTrades
      /\ StoredTrades' = Ideal!With(StoredTrades, Ideal!At(o.key.book, i), c)
  BY <1>3, <1>4, <1>6, SoundParts, StoreTradeIsWith
<1>9. /\ StoredOpens' = Ideal!Without(StoredOpens, id) /\ StoredCloses' = StoredCloses
  BY <1>2, OpenIsWithout, SoundParts DEF MarketOpenFills
<1>10. StoredLimits' = StoredLimits
  BY LimitsUntouched DEF MarketOpenFills
<1>11. Ideal!FillOpen(id, i, c)
  BY <1>5, <1>7, <1>8, <1>9, <1>10 DEF Ideal!FillOpen
<1> QED
  BY <1>5, <1>7, <1>11 DEF Ideal!Next

\* A pending open goes, and nothing else changes: refunded or cancelled.
LEMMA OpenDropped ==
    ASSUME Sound, NEW id \in OrderIds, Pending(id, "MARKET_OPEN"),
           UnregisterPendingOpen(id), UNCHANGED orders \/ FulfilOrder(id),
           UNCHANGED <<tradeVars, limitVars>>
    PROVE  Ideal!Next
<1>1. /\ StoredOpens' = Ideal!Without(StoredOpens, id) /\ StoredCloses' = StoredCloses
  BY OpenIsWithout, SoundParts
<1>2. StoredTrades' = StoredTrades /\ StoredLimits' = StoredLimits
  BY TradesUntouched, LimitsUntouched DEF tradeVars
<1>3. id \in DOMAIN StoredOpens
  BY StoredIds DEF OpenIds
<1>4. Ideal!RefundOpen(id)
  BY <1>1, <1>2, <1>3 DEF Ideal!RefundOpen
<1> QED
  BY <1>3, <1>4 DEF Ideal!Next

LEMMA CloseDropped ==
    ASSUME Sound, NEW id \in OrderIds, Pending(id, "MARKET_CLOSE"),
           UnregisterPendingClose(id), UNCHANGED orders \/ FulfilOrder(id),
           UNCHANGED <<tradeVars, limitVars>>
    PROVE  Ideal!Next
<1>1. /\ StoredCloses' = Ideal!Without(StoredCloses, id) /\ StoredOpens' = StoredOpens
  BY CloseIsWithout, SoundParts
<1>2. StoredTrades' = StoredTrades /\ StoredLimits' = StoredLimits
  BY TradesUntouched, LimitsUntouched DEF tradeVars
<1>3. id \in DOMAIN StoredCloses
  BY StoredIds DEF CloseIds
<1>4. Ideal!DropClose(id)
  BY <1>1, <1>2, <1>3 DEF Ideal!DropClose
<1> QED
  BY <1>3, <1>4 DEF Ideal!Next

LEMMA CancelPendingMarketOrderIdeal ==
    ASSUME Sound, IInv', NEW id \in OrderIds, CancelPendingMarketOrder(id)
    PROVE  Ideal!Next
<1>1. reqIDpendingMarketOrder[id] # NoOrder
  BY DEF CancelPendingMarketOrder
<1>2. CASE orders[id] = "MARKET_OPEN"
  BY <1>1, <1>2, OpenDropped DEF CancelPendingMarketOrder, Pending
<1>3. CASE orders[id] # "MARKET_OPEN"
  <2>1. orders[id] = "MARKET_CLOSE"
    <3>1. PICK t \in Traders : t = reqIDpendingMarketOrder[id].key.book.trader
      BY <1>1, PendingOrderBook, SoundParts
    <3>2. PICK i \in 1 .. Len(pendingOrderIds[t]) : pendingOrderIds[t][i] = id
      BY <1>1, <3>1, SoundParts DEF PendingRegistry
    <3>3. orders[id] # "none"
      BY <3>2, SoundParts DEF PendingRegistry
    <3> QED
      BY <1>3, <3>3, SoundParts DEF TypeOK
  <2> QED
    BY <1>1, <1>3, <2>1, CloseDropped DEF CancelPendingMarketOrder, Pending
<1> QED
  BY <1>2, <1>3

\* A market close takes what was asked for, and no more than there is.
LEMMA CloseAsked ==
    ASSUME Sound, NEW id \in OrderIds, ClosesNow(id)
    PROVE  LET o == reqIDpendingMarketOrder[id] IN
           /\ id \in DOMAIN StoredCloses /\ StoredCloses[id].key = o.key
           /\ StoredCloses[id].amount = o.amount /\ o.amount \in Nat
           /\ o.key \in Keys /\ o.key \in DOMAIN StoredTrades
           /\ StoredTrades[o.key] = openTrades[o.key].coll
           /\ openTrades[o.key].coll \in AllAmounts
<1>1. Pending(id, "MARKET_CLOSE") /\ reqIDpendingMarketOrder[id] # NoOrder
      /\ HasTrade(reqIDpendingMarketOrder[id].key)
  BY DEF ClosesNow, Pending
<1>2. /\ reqIDpendingMarketOrder[id].key \in Keys
      /\ reqIDpendingMarketOrder[id].amount \in Nat
  BY <1>1, PendingOrderBook, SoundParts
<1>3. /\ id \in DOMAIN StoredCloses
      /\ StoredCloses[id].key = reqIDpendingMarketOrder[id].key
      /\ StoredCloses[id].amount = reqIDpendingMarketOrder[id].amount
  BY <1>1, StoredIds DEF CloseIds
<1> QED
  BY <1>1, <1>2, <1>3, StoredDomains, SoundParts DEF IdealTyped, Entries

LEMMA MarketCloseFullIdeal ==
    ASSUME Sound, IInv', NEW id \in OrderIds, MarketCloseFull(id)
    PROVE  Ideal!Next
<1>1. PICK k, a : k = reqIDpendingMarketOrder[id].key
                  /\ a = reqIDpendingMarketOrder[id].amount
  OBVIOUS
<1>2. /\ id \in DOMAIN StoredCloses /\ StoredCloses[id].key = k
      /\ StoredCloses[id].amount = a /\ a \in Nat
      /\ k \in Keys /\ k \in DOMAIN StoredTrades /\ StoredTrades[k] = a /\ a \in AllAmounts
  BY <1>1, CloseAsked DEF MarketCloseFull
<1>3. StoredTrades' = Ideal!Without(StoredTrades, k)
  BY <1>1, <1>2, UnregisterTradeIsWithout, SoundParts DEF MarketCloseFull
<1>4. /\ StoredCloses' = Ideal!Without(StoredCloses, id) /\ StoredOpens' = StoredOpens
  BY CloseIsWithout, SoundParts DEF MarketCloseFull, ClosesNow
<1>5. StoredLimits' = StoredLimits
  BY LimitsUntouched DEF MarketCloseFull
<1>6. a <= a
  BY <1>2
<1>7. Ideal!FillClose(id, a)
  BY <1>2, <1>3, <1>4, <1>5, <1>6 DEF Ideal!FillClose
<1> QED
  BY <1>2, <1>7 DEF Ideal!Next

LEMMA MarketClosePartialIdeal ==
    ASSUME Sound, IInv', NEW id \in OrderIds, NEW fee \in Fees,
           MarketClosePartial(id, fee)
    PROVE  Ideal!Next
<1>1. PICK k, a, c : k = reqIDpendingMarketOrder[id].key
                     /\ a = reqIDpendingMarketOrder[id].amount
                     /\ c = a + fee
  OBVIOUS
<1>2. ClosesNow(id) /\ a # openTrades[k].coll /\ RegisterPartialTrade(k, c)
  BY <1>1 DEF MarketClosePartial
<1>3. /\ id \in DOMAIN StoredCloses /\ StoredCloses[id].key = k
      /\ StoredCloses[id].amount = a /\ a \in Nat
      /\ k \in Keys /\ k \in DOMAIN StoredTrades
      /\ StoredTrades[k] = openTrades[k].coll /\ openTrades[k].coll \in AllAmounts
  BY <1>1, <1>2, CloseAsked
<1>4. c <= openTrades[k].coll /\ c \in Nat /\ a <= c
  BY <1>1, <1>2, <1>3, AmountsAssumption DEF RegisterPartialTrade
<1>5. c \in AllAmounts
  BY <1>3, <1>4, AmountsClosed
<1>6. StoredTrades' = Ideal!With(StoredTrades, k, StoredTrades[k] - c)
  <2>1. openTrades \in [Keys -> Trade] /\ openTrades[k].open
    BY <1>3, StoredDomains, SoundParts DEF TypeOK, HasTrade
  <2>2. openTrades' = [openTrades EXCEPT ![k].coll = openTrades[k].coll - c]
    BY <1>2 DEF RegisterPartialTrade
  <2>3. PICK d : d = openTrades[k].coll - c
    OBVIOUS
  <2>4. /\ openTrades'[k].open /\ openTrades'[k].coll = d
        /\ \A j \in Keys : j # k => openTrades'[j] = openTrades[j]
    BY <1>3, <2>1, <2>2, <2>3 DEF Trade
  <2>5. StoredTrades' = Ideal!With(StoredTrades, k, d)
    BY <1>3, <2>4, TradeWith, SoundParts
  <2> QED
    BY <1>3, <2>3, <2>5
<1>7. /\ StoredCloses' = Ideal!Without(StoredCloses, id) /\ StoredOpens' = StoredOpens
  BY CloseIsWithout, SoundParts DEF MarketClosePartial, ClosesNow
<1>8. StoredLimits' = StoredLimits
  BY LimitsUntouched DEF MarketClosePartial
<1>9. Ideal!FillClose(id, c)
  BY <1>2, <1>3, <1>4, <1>6, <1>7, <1>8 DEF Ideal!FillClose
<1> QED
  BY <1>3, <1>5, <1>9 DEF Ideal!Next

LEMMA MarketCloseLapsesIdeal ==
    ASSUME Sound, IInv', NEW id \in OrderIds, MarketCloseLapses(id)
    PROVE  Ideal!Next
BY CloseDropped DEF MarketCloseLapses

LEMMA MarketOpenRefundsIdeal ==
    ASSUME Sound, IInv', NEW id \in OrderIds, MarketOpenRefunds(id)
    PROVE  Ideal!Next
BY OpenDropped DEF MarketOpenRefunds

\* An order cancelled before it was fulfilled, a miss of an executor and the
\* switch of oracles change nothing that is stored in the book.
LEMMA MarketOpenIgnoredIdeal ==
    ASSUME Sound, NEW id \in OrderIds, MarketOpenIgnored(id)
    PROVE  Unseen
<1>1. /\ orders \in [OrderIds -> {"none", "MARKET_OPEN", "MARKET_CLOSE"}]
      /\ orders' = [orders EXCEPT ![id] = "none"]
      /\ reqIDpendingMarketOrder[id] = NoOrder
      /\ reqIDpendingMarketOrder' = reqIDpendingMarketOrder
  BY SoundParts DEF TypeOK, MarketOpenIgnored, FulfilOrder, pendingVars
<1>2. \A j \in OrderIds : reqIDpendingMarketOrder[j] # NoOrder => orders'[j] = orders[j]
  BY <1>1
<1>3. StoredOpens' = StoredOpens /\ StoredCloses' = StoredCloses
  BY <1>1, <1>2, OrdersUntouched
<1> QED
  BY <1>3, TradesUntouched, LimitsUntouched DEF MarketOpenIgnored, tradeVars, Unseen

LEMMA AllUntouched ==
    ASSUME UNCHANGED <<tradeVars, pendingVars, limitVars, orders>>
    PROVE  Unseen
BY OnlyTrades, TradesUntouched DEF tradeVars, Unseen

LEMMA ExecuteMarketOrderIdeal ==
    ASSUME Sound, IInv', NEW id \in OrderIds, ExecuteMarketOrder(id)
    PROVE  Ideal!Next \/ Unseen
<1>1. CASE \E fee \in Fees : MarketOpenFills(id, fee)
  BY <1>1, MarketOpenFillsIdeal
<1>2. CASE MarketOpenRefunds(id)
  BY <1>2, MarketOpenRefundsIdeal
<1>3. CASE MarketOpenIgnored(id)
  BY <1>3, MarketOpenIgnoredIdeal
<1>4. CASE MarketCloseFull(id)
  BY <1>4, MarketCloseFullIdeal
<1>5. CASE \E fee \in Fees : MarketClosePartial(id, fee)
  BY <1>5, MarketClosePartialIdeal
<1>6. CASE MarketCloseLapses(id)
  BY <1>6, MarketCloseLapsesIdeal
<1> QED
  BY <1>1, <1>2, <1>3, <1>4, <1>5, <1>6 DEF ExecuteMarketOrder

LEMMA OnKeyIdeal ==
    ASSUME Sound, IInv', NEW k \in Keys, OnKey(k)
    PROVE  Ideal!Next \/ Unseen
<1>1. CASE \E amount \in CloseAmounts : CloseTradeMarket(k, amount)
  BY <1>1, CloseTradeMarketIdeal
<1>2. CASE \E price \in Prices, slip \in Slippages : UpdateOpenLimitOrder(k, price, slip)
  BY <1>2, UpdateOpenLimitOrderIdeal
<1>3. CASE CancelOpenLimitOrder(k)
  BY <1>3, CancelOpenLimitOrderIdeal
<1>4. CASE LimitOrderRipens(k)
  BY <1>4, LimitOrderRipensIdeal
<1>5. CASE \E coll \in Sizes : UpdateMargin(k, coll)
  BY <1>5, UpdateMarginIdeal
<1>6. CASE \E fee \in Fees : UpdateSl(k, fee)
  BY <1>6, UpdateSlIdeal
<1>7. CASE \E fee \in Fees : ExecuteLimitOpen(k, fee)
  BY <1>7, ExecuteLimitOpenIdeal
<1>8. CASE \E type \in {"TP", "SL", "LIQ"} : ExecuteLimitClose(k, type)
  BY <1>8, ExecuteLimitCloseIdeal
<1>9. CASE ExecuteLimitMiss(k)
  BY <1>9, AllUntouched DEF ExecuteLimitMiss
<1> QED
  BY <1>1, <1>2, <1>3, <1>4, <1>5, <1>6, <1>7, <1>8, <1>9 DEF OnKey

LEMMA NextIsIdeal ==
    ASSUME Sound, IInv', [Next]_vars
    PROVE  Ideal!Next \/ Unseen
<1>1. CASE \E b \in Books : OnBook(b)
  BY <1>1, OpenTradeMarketIdeal, OpenTradeLimitIdeal DEF OnBook
<1>2. CASE \E k \in Keys : OnKey(k)
  BY <1>2, OnKeyIdeal
<1>3. CASE \E id \in OrderIds : ExecuteMarketOrder(id) \/ CancelPendingMarketOrder(id)
  BY <1>3, ExecuteMarketOrderIdeal, CancelPendingMarketOrderIdeal
<1>4. CASE \E start \in BackupModes : UseBackUpOracleOnly(start)
  BY <1>4, AllUntouched DEF UseBackUpOracleOnly
<1>5. CASE \E short \in Shortages : StorageRunsShort(short)
  BY <1>5, AllUntouched DEF StorageRunsShort
<1>6. CASE UNCHANGED vars
  BY <1>6, AllUntouched DEF vars
<1> QED
  BY <1>1, <1>2, <1>3, <1>4, <1>5, <1>6 DEF Next

\* The ideal book keeps its values in their sets.
LEMMA IdealStepTyped ==
    ASSUME IdealTyped, Ideal!Next \/ Unseen
    PROVE  IdealTyped'
<1> DEFINE O == [book : Books, amount : AllAmounts]
<1>1. /\ Entries(StoredTrades, AllAmounts)
      /\ Entries(StoredLimits, LimitTermsSet)
      /\ Entries(StoredOpens, O)
  BY DEF IdealTyped
<1>2. SUFFICES /\ Entries(StoredTrades', AllAmounts)
               /\ Entries(StoredLimits', LimitTermsSet)
               /\ Entries(StoredOpens', O)
  BY DEF IdealTyped, Entries, AllAmounts, LimitTermsSet
<1> HIDE DEF O
<1>3. CASE Unseen
  BY <1>1, <1>3 DEF Unseen
<1>4. ASSUME NEW b \in Books, NEW id \in OrderIds, NEW a \in AllAmounts,
             Ideal!RequestOpen(b, id, a)
      PROVE  /\ Entries(StoredTrades', AllAmounts)
             /\ Entries(StoredLimits', LimitTermsSet)
             /\ Entries(StoredOpens', O)
  <2>1. [book |-> b, amount |-> a] \in O
    BY DEF O
  <2> QED
    BY <1>1, <1>4, <2>1, WithEntries DEF Ideal!RequestOpen
<1>5. ASSUME NEW b \in Books, NEW i \in Slots, NEW t \in LimitTermsSet,
             Ideal!PlaceLimit(b, i, t)
      PROVE  /\ Entries(StoredTrades', AllAmounts)
             /\ Entries(StoredLimits', LimitTermsSet)
             /\ Entries(StoredOpens', O)
  BY <1>1, <1>5, WithEntries DEF Ideal!PlaceLimit
<1>6. ASSUME NEW k \in DOMAIN StoredLimits,
             \/ Ideal!CancelLimit(k)
             \/ \E t \in LimitTermsSet : Ideal!AmendLimit(k, t)
             \/ \E i \in Slots, a \in AllAmounts : Ideal!FillLimit(k, i, a)
      PROVE  /\ Entries(StoredTrades', AllAmounts)
             /\ Entries(StoredLimits', LimitTermsSet)
             /\ Entries(StoredOpens', O)
  BY <1>1, <1>6, WithEntries, WithoutEntries
     DEF Ideal!CancelLimit, Ideal!AmendLimit, Ideal!FillLimit
<1>7. ASSUME NEW id \in DOMAIN StoredOpens,
             \/ Ideal!RefundOpen(id)
             \/ \E i \in Slots, a \in AllAmounts : Ideal!FillOpen(id, i, a)
      PROVE  /\ Entries(StoredTrades', AllAmounts)
             /\ Entries(StoredLimits', LimitTermsSet)
             /\ Entries(StoredOpens', O)
  BY <1>1, <1>7, WithEntries, WithoutEntries DEF Ideal!RefundOpen, Ideal!FillOpen
<1>8. ASSUME NEW k \in DOMAIN StoredTrades,
             \/ Ideal!Close(k)
             \/ \E a \in AllAmounts : Ideal!Amend(k, a)
             \/ \E id \in OrderIds, a \in AllAmounts : Ideal!RequestClose(k, id, a)
      PROVE  /\ Entries(StoredTrades', AllAmounts)
             /\ Entries(StoredLimits', LimitTermsSet)
             /\ Entries(StoredOpens', O)
  BY <1>1, <1>8, WithEntries, WithoutEntries
     DEF Ideal!Close, Ideal!Amend, Ideal!RequestClose
<1>9. ASSUME NEW id \in DOMAIN StoredCloses,
             \/ Ideal!DropClose(id)
             \/ \E a \in AllAmounts : Ideal!FillClose(id, a)
      PROVE  /\ Entries(StoredTrades', AllAmounts)
             /\ Entries(StoredLimits', LimitTermsSet)
             /\ Entries(StoredOpens', O)
  <2>1. CASE Ideal!DropClose(id)
    BY <1>1, <2>1 DEF Ideal!DropClose
  <2>2. ASSUME NEW a \in AllAmounts, Ideal!FillClose(id, a)
        PROVE  Entries(StoredTrades', AllAmounts)
    <3>1. PICK k : k = StoredCloses[id].key
      OBVIOUS
    <3>2. k \in DOMAIN StoredTrades /\ a <= StoredTrades[k]
      BY <2>2, <3>1 DEF Ideal!FillClose
    <3>3. StoredTrades[k] \in AllAmounts /\ StoredTrades[k] \in Nat /\ a \in Nat
      BY <1>1, <3>2, AmountsClosed DEF Entries
    <3>4. PICK c : c = StoredTrades[k] - a
      OBVIOUS
    <3>5. c \in Nat /\ c <= StoredTrades[k]
      BY <3>2, <3>3, <3>4
    <3>6. c \in AllAmounts
      BY <3>3, <3>5, AmountsClosed
    <3>7. \/ StoredTrades' = Ideal!Without(StoredTrades, k)
          \/ StoredTrades' = Ideal!With(StoredTrades, k, c)
      BY <2>2, <3>1, <3>4 DEF Ideal!FillClose
    <3> QED
      BY <1>1, <3>6, <3>7, WithEntries, WithoutEntries
  <2>3. ASSUME NEW a \in AllAmounts, Ideal!FillClose(id, a)
        PROVE  Entries(StoredLimits', LimitTermsSet) /\ Entries(StoredOpens', O)
    BY <1>1, <2>3 DEF Ideal!FillClose
  <2> QED
    BY <1>9, <2>1, <2>2, <2>3
<1> QED
  BY <1>3, <1>4, <1>5, <1>6, <1>7, <1>8, <1>9 DEF Ideal!Next, LimitTermsSet

\* Nothing is stored at first.
LEMMA InitIsIdeal ==
    ASSUME Init
    PROVE  IdealTyped /\ Ideal!Init
<1>1. DOMAIN StoredTrades = {} /\ DOMAIN StoredLimits = {}
  BY StoredDomains DEF Init, HasTrade, NoTrade, HasOpenLimitOrder
<1>2. OpenIds = {} /\ CloseIds = {}
  BY DEF Init, OpenIds, CloseIds, Pending
<1>3. DOMAIN StoredOpens = {} /\ DOMAIN StoredCloses = {}
  BY <1>2, StoredIds
<1>4. IdealTyped
  BY <1>1, <1>3 DEF IdealTyped, Entries
<1>5. /\ StoredTrades = [k \in {} |-> k] /\ StoredLimits = [k \in {} |-> k]
      /\ StoredOpens = [k \in {} |-> k] /\ StoredCloses = [k \in {} |-> k]
  BY <1>1, <1>3 DEF StoredTrades, StoredLimits, StoredOpens, StoredCloses
<1> QED
  BY <1>4, <1>5 DEF Ideal!Init, Ideal!Empty

\* The storage stays sound, and what a transaction does to it is one step, or
\* none, of the ideal book.
THEOREM NextKeepsSound == Sound /\ [Next]_vars => Sound' /\ [Ideal!Next]_Ideal!vars
<1> SUFFICES ASSUME Sound, [Next]_vars PROVE Sound' /\ [Ideal!Next]_Ideal!vars
  OBVIOUS
<1>1. IInv'
  BY NextKeepsIInv DEF Sound
<1>2. Counted'
  BY <1>1, NextKeepsCounts DEF Sound
<1>3. Ideal!Next \/ Unseen
  BY <1>1, NextIsIdeal
<1>4. IdealTyped'
  BY <1>3, IdealStepTyped DEF Sound
<1> QED
  BY <1>1, <1>2, <1>3, <1>4 DEF Sound, Unseen, Ideal!vars

\* Every behaviour of the arrays, counters and back-pointers the book is stored
\* in is a behaviour of the ideal one.
THEOREM BookImplementsIdealBook == Spec => ImplementsIdealBook
<1>1. Init => Sound /\ Ideal!Init
  BY InitIInv, InitCounted, InitIsIdeal DEF Sound
<1> QED
  BY <1>1, NextKeepsSound, PTL DEF Spec, ImplementsIdealBook, Ideal!Spec
=============================================================================
