------------------------------ MODULE TradeBook ------------------------------
(***************************************************************************)
(* The order book of Avantis: open trades, pending market orders and open  *)
(* limit orders, as Trading.sol requests them, PriceAggregator.sol answers *)
(* them, TradingCallbacks.sol settles them and TradingStorage.sol stores   *)
(* them.  Money is abstracted to the collateral of a trade; prices to the  *)
(* outcome of the checks a callback makes on them.                         *)
(*                                                                         *)
(* One action is one transaction.  A market order takes two: the trader's  *)
(* request, and the operator's executeMarketOrders (or, as a last resort,  *)
(* cancelPendingMarketOrder).  Everything else is requested, priced and    *)
(* settled in the transaction of its caller.  A transaction that would     *)
(* revert is an action that is not enabled.                                *)
(*                                                                         *)
(* A definition named Slip_X is X with a plausible slip in it.  Nothing    *)
(* uses it: it stands in for X to show that a property would notice.       *)
(***************************************************************************)
EXTENDS Integers, Sequences, FiniteSets

CONSTANTS
    Traders,                 \* wallets
    Pairs,                   \* pair indices
    MaxTradesPerPair,        \* TradingStorage.maxTradesPerPair
    MaxPendingMarketOrders,  \* TradingStorage.maxPendingMarketOrders
    Sizes,                   \* collaterals a trader opens with or tops up to
    CloseAmounts,            \* amounts a trader asks closeTradeMarket to close
    Fees,                    \* fees one operation can take from a collateral
    Prices,                  \* prices of a limit order
    Slippages,               \* slippage tolerances of a limit order
    GuaranteedSlPairs,       \* pairs with guaranteedSlEnabled
    BackupModes,             \* values governance gives useBackupOnly
    Shortages,               \* values storageShort takes
    MaxOrders,               \* bound on the order ids ever given out
    NoOrder                  \* the empty entry of _reqIDpendingMarketOrder

ASSUME LimitsAssumption ==
    /\ MaxTradesPerPair \in Nat \ {0}
    /\ MaxPendingMarketOrders \in Nat
    /\ MaxOrders \in Nat
    /\ BackupModes \subseteq BOOLEAN
    /\ Shortages \subseteq BOOLEAN

ASSUME AmountsAssumption ==
    /\ Sizes \subseteq Nat \ {0}
    /\ CloseAmounts \subseteq Nat
    /\ Fees \subseteq Nat
    /\ GuaranteedSlPairs \subseteq Pairs

Books    == [trader : Traders, pair : Pairs]
Slots    == 0 .. MaxTradesPerPair - 1
Keys     == [book : Books, index : Slots]
OrderIds == 1 .. MaxOrders

\* An open trade is one whose leverage is not 0, as the code tells them apart.
Trade         == [coll : Nat, open : BOOLEAN]
NoTrade       == [coll |-> 0, open |-> FALSE]
LimitOrder    == [key : Keys, size : Nat, price : Prices, slippageP : Slippages,
                  ripe : BOOLEAN]
PendingOrder  == [key : Keys, amount : Nat]

ASSUME NoOrderAssumption == NoOrder \notin PendingOrder

VARIABLES
    openTrades,               \* [Keys -> Trade]
    beingMarketClosed,        \* [Keys -> BOOLEAN], the field of TradeInfo
    openTradesCount,          \* [Books -> Nat]
    pairTraders,              \* [Pairs -> Seq(Traders)]
    pairTradersId,            \* [Books -> Nat], 0-based place in pairTraders
    pendingOrderIds,          \* [Traders -> Seq(OrderIds)]
    reqIDpendingMarketOrder,  \* [OrderIds -> PendingOrder or NoOrder]
    pendingMarketOpenCount,   \* [Books -> Nat]
    pendingMarketCloseCount,  \* [Books -> Nat]
    openLimitOrders,          \* Seq(LimitOrder), all traders and pairs
    openLimitOrderIds,        \* [Keys -> Nat], 0-based place in openLimitOrders
    openLimitOrdersCount,     \* [Books -> Nat]
    orders,                   \* [OrderIds -> type of the order initiated]
    currentOrderId,           \* PairStorage.currentOrderId
    useBackupOnly,            \* PriceAggregator.useBackupOnly
    storageShort              \* TradingStorage lacks the USDC it is to send

tradeVars   == <<openTrades, openTradesCount, pairTraders, pairTradersId>>
pendingVars == <<pendingOrderIds, reqIDpendingMarketOrder,
                 pendingMarketOpenCount, pendingMarketCloseCount>>
limitVars   == <<openLimitOrders, openLimitOrderIds, openLimitOrdersCount>>
vars        == <<tradeVars, beingMarketClosed, pendingVars, limitVars,
                 orders, currentOrderId, useBackupOnly, storageShort>>

Key(b, i) == [book |-> b, index |-> i]

Init ==
    /\ openTrades              = [k \in Keys |-> NoTrade]
    /\ beingMarketClosed       = [k \in Keys |-> FALSE]
    /\ openTradesCount         = [b \in Books |-> 0]
    /\ pairTraders             = [p \in Pairs |-> <<>>]
    /\ pairTradersId           = [b \in Books |-> 0]
    /\ pendingOrderIds         = [t \in Traders |-> <<>>]
    /\ reqIDpendingMarketOrder = [id \in OrderIds |-> NoOrder]
    /\ pendingMarketOpenCount  = [b \in Books |-> 0]
    /\ pendingMarketCloseCount = [b \in Books |-> 0]
    /\ openLimitOrders         = <<>>
    /\ openLimitOrderIds       = [k \in Keys |-> 0]
    /\ openLimitOrdersCount    = [b \in Books |-> 0]
    /\ orders                  = [id \in OrderIds |-> "none"]
    /\ currentOrderId          = 1
    /\ useBackupOnly           = FALSE
    /\ storageShort            = FALSE

-----------------------------------------------------------------------------
(* Helpers of TradingStorage. *)

HasTrade(k) == openTrades[k].open

\* The last element takes the place of the i-th, then the array is popped.
SwapPop(s, i) ==
    [j \in 1 .. Len(s) - 1 |-> IF j = i THEN s[Len(s)] ELSE s[j]]

\* The array element a key points to is re-checked against the key.
HasOpenLimitOrder(k) ==
    /\ openLimitOrders # <<>>
    /\ openLimitOrderIds[k] < Len(openLimitOrders)
    /\ openLimitOrders[openLimitOrderIds[k] + 1].key = k

IsFirst(i, S) == i \in S /\ \A j \in S : i <= j

Slip_FirstEmptyTradeIndex(b, i) == IsFirst(i, {j \in Slots : ~beingMarketClosed[Key(b, j)]})

FirstEmptyTradeIndex(b, i) == IsFirst(i, {j \in Slots : ~HasTrade(Key(b, j))})

\* The array asked is that of the trades.
Slip_FirstEmptyOpenLimitIndex(b, i) == IsFirst(i, {j \in Slots : ~HasTrade(Key(b, j))})

FirstEmptyOpenLimitIndex(b, i) ==
    IsFirst(i, {j \in Slots : ~HasOpenLimitOrder(Key(b, j))})

\* getPrice: a new id; orders[id] is set by the caller of this helper.
FreshOrder(id) ==
    /\ currentOrderId <= MaxOrders
    /\ id = currentOrderId
    /\ currentOrderId' = currentOrderId + 1

\* An order requested and fulfilled in one transaction leaves only its id used.
InstantOrder == currentOrderId <= MaxOrders /\ currentOrderId' = currentOrderId + 1

StoreTrade(k, coll) ==
    LET b == k.book IN
    /\ openTrades' = [openTrades EXCEPT ![k] = [coll |-> coll, open |-> TRUE]]
    /\ openTradesCount' = [openTradesCount EXCEPT ![b] = @ + 1]
    /\ beingMarketClosed' = [beingMarketClosed EXCEPT ![k] = FALSE]
    /\ IF openTradesCount[b] = 0
       THEN /\ pairTradersId' =
                 [pairTradersId EXCEPT ![b] = Len(pairTraders[b.pair])]
            /\ pairTraders' =
                 [pairTraders EXCEPT ![b.pair] = Append(@, b.trader)]
       ELSE UNCHANGED <<pairTraders, pairTradersId>>

\* The trader that takes the freed place keeps pointing at the old one.
Slip_UnregisterTrade(k) ==
    LET b == k.book
        p == pairTraders[b.pair]
    IN
    /\ openTrades' = [openTrades EXCEPT ![k] = NoTrade]
    /\ beingMarketClosed' = [beingMarketClosed EXCEPT ![k] = FALSE]
    /\ openTradesCount' = [openTradesCount EXCEPT ![b] = @ - 1]
    /\ IF openTradesCount[b] = 1
       THEN /\ pairTraders' =
                 [pairTraders EXCEPT ![b.pair] = SwapPop(p, pairTradersId[b] + 1)]
            /\ pairTradersId' = [pairTradersId EXCEPT ![b] = 0]
       ELSE UNCHANGED <<pairTraders, pairTradersId>>

UnregisterTrade(k) ==
    LET b    == k.book
        p    == pairTraders[b.pair]
        i    == pairTradersId[b] + 1
        last == [b EXCEPT !.trader = p[Len(p)]]
    IN
    /\ openTrades' = [openTrades EXCEPT ![k] = NoTrade]
    /\ beingMarketClosed' = [beingMarketClosed EXCEPT ![k] = FALSE]
    /\ openTradesCount[b] > 0
    /\ openTradesCount' = [openTradesCount EXCEPT ![b] = @ - 1]
    /\ IF openTradesCount[b] = 1
       THEN /\ i \in 1 .. Len(p)
            /\ pairTraders' = [pairTraders EXCEPT ![b.pair] = SwapPop(p, i)]
            /\ pairTradersId' =
                 [[pairTradersId EXCEPT ![last] = i - 1] EXCEPT ![b] = 0]
       ELSE UNCHANGED <<pairTraders, pairTradersId>>

Slip_RegisterPartialTrade(k, reduced) ==
    /\ openTrades' = [openTrades EXCEPT ![k].coll = @ - reduced]
    /\ UNCHANGED <<openTradesCount, pairTraders, pairTradersId>>

\* Checked arithmetic: more than the collateral cannot be taken out.
RegisterPartialTrade(k, reduced) ==
    /\ reduced <= openTrades[k].coll
    /\ openTrades' = [openTrades EXCEPT ![k].coll = @ - reduced]
    /\ UNCHANGED <<openTradesCount, pairTraders, pairTradersId>>

StorePendingMarketOrder(id, o) ==
    LET t == o.key.book.trader IN
    /\ pendingOrderIds' = [pendingOrderIds EXCEPT ![t] = Append(@, id)]
    /\ reqIDpendingMarketOrder' = [reqIDpendingMarketOrder EXCEPT ![id] = o]

\* The last id is popped, not moved to the freed place.
Slip_DropPendingId(id, i) ==
    LET t == reqIDpendingMarketOrder[id].key.book.trader IN
    /\ i \in 1 .. Len(pendingOrderIds[t])
    /\ pendingOrderIds[t][i] = id
    /\ pendingOrderIds' = [pendingOrderIds EXCEPT ![t] = SubSeq(@, 1, Len(@) - 1)]
    /\ reqIDpendingMarketOrder' = [reqIDpendingMarketOrder EXCEPT ![id] = NoOrder]

\* The list and the entry of an order; the counters differ by the caller.
DropPendingId(id, i) ==
    LET t == reqIDpendingMarketOrder[id].key.book.trader IN
    /\ i \in 1 .. Len(pendingOrderIds[t])
    /\ pendingOrderIds[t][i] = id
    /\ pendingOrderIds' = [pendingOrderIds EXCEPT ![t] = SwapPop(@, i)]
    /\ reqIDpendingMarketOrder' = [reqIDpendingMarketOrder EXCEPT ![id] = NoOrder]

\* The code searches the list, and does nothing when the id is not there.
Listed(id) ==
    LET ids == pendingOrderIds[reqIDpendingMarketOrder[id].key.book.trader]
    IN  \E i \in 1 .. Len(ids) : ids[i] = id

\* The counter of the book is left alone.
Slip_UnregisterPendingOpen(id) ==
    /\ \E t \in Traders : \E i \in 1 .. Len(pendingOrderIds[t]) : DropPendingId(id, i)
    /\ UNCHANGED <<pendingMarketOpenCount, pendingMarketCloseCount>>

UnregisterPendingOpen(id) ==
    LET b == reqIDpendingMarketOrder[id].key.book IN
    IF Listed(id)
    THEN /\ \E i \in 1 .. Len(pendingOrderIds[b.trader]) : DropPendingId(id, i)
         /\ pendingMarketOpenCount[b] > 0
         /\ pendingMarketOpenCount' = [pendingMarketOpenCount EXCEPT ![b] = @ - 1]
         /\ UNCHANGED pendingMarketCloseCount
    ELSE UNCHANGED pendingVars

UnregisterPendingClose(id) ==
    LET b == reqIDpendingMarketOrder[id].key.book IN
    IF Listed(id)
    THEN /\ \E i \in 1 .. Len(pendingOrderIds[b.trader]) : DropPendingId(id, i)
         /\ pendingMarketCloseCount[b] > 0
         /\ pendingMarketCloseCount' = [pendingMarketCloseCount EXCEPT ![b] = @ - 1]
         /\ UNCHANGED pendingMarketOpenCount
    ELSE UNCHANGED pendingVars

\* ... and clears the mark of the slot the close order names.
ClearBeingMarketClosed(id) ==
    beingMarketClosed' =
        IF Listed(id)
        THEN [beingMarketClosed EXCEPT ![reqIDpendingMarketOrder[id].key] = FALSE]
        ELSE beingMarketClosed

StoreOpenLimitOrder(o) ==
    /\ openLimitOrders' = Append(openLimitOrders, o)
    /\ openLimitOrderIds' = [openLimitOrderIds EXCEPT ![o.key] = Len(openLimitOrders)]
    /\ openLimitOrdersCount' = [openLimitOrdersCount EXCEPT ![o.key.book] = @ + 1]

\* Every field is written back but slippageP and executionFee; block is renewed.
StoredLimitUpdate(old, new) == [new EXCEPT !.slippageP = old.slippageP, !.ripe = FALSE]

\* The order that takes the freed place keeps pointing at the old one.
Slip_UnregisterOpenLimitOrder(k) ==
    /\ openLimitOrders' = SwapPop(openLimitOrders, openLimitOrderIds[k] + 1)
    /\ openLimitOrderIds' = [openLimitOrderIds EXCEPT ![k] = 0]
    /\ openLimitOrdersCount' = [openLimitOrdersCount EXCEPT ![k.book] = @ - 1]

UnregisterOpenLimitOrder(k) ==
    LET id   == openLimitOrderIds[k]
        last == openLimitOrders[Len(openLimitOrders)].key
    IN
    /\ openLimitOrders' = SwapPop(openLimitOrders, id + 1)
    /\ openLimitOrderIds' =
         [[openLimitOrderIds EXCEPT ![last] = id] EXCEPT ![k] = 0]
    /\ openLimitOrdersCount[k.book] > 0
    /\ openLimitOrdersCount' = [openLimitOrdersCount EXCEPT ![k.book] = @ - 1]

-----------------------------------------------------------------------------
(* Trading.sol: what a trader requests. *)

\* Limit orders, which may still become trades, are forgotten.
Slip_RoomForOrder(b) ==
    /\ Len(pendingOrderIds[b.trader]) < MaxPendingMarketOrders
    /\ openTradesCount[b] + pendingMarketOpenCount[b] < MaxTradesPerPair

\* The limit is passed by one.
SlipByOne_RoomForOrder(b) ==
    /\ Len(pendingOrderIds[b.trader]) < MaxPendingMarketOrders
    /\ openTradesCount[b] + pendingMarketOpenCount[b] + openLimitOrdersCount[b]
         <= MaxTradesPerPair

RoomForOrder(b) ==
    /\ Len(pendingOrderIds[b.trader]) < MaxPendingMarketOrders
    /\ openTradesCount[b] + pendingMarketOpenCount[b] + openLimitOrdersCount[b]
         < MaxTradesPerPair

OpenTradeMarket(b, size) ==
    /\ RoomForOrder(b)
    /\ \E id \in OrderIds :
         /\ FreshOrder(id)
         /\ orders' = [orders EXCEPT ![id] = "MARKET_OPEN"]
         /\ StorePendingMarketOrder(id, [key |-> Key(b, 0), amount |-> size])
    /\ pendingMarketOpenCount' = [pendingMarketOpenCount EXCEPT ![b] = @ + 1]
    /\ UNCHANGED <<tradeVars, beingMarketClosed, pendingMarketCloseCount,
                   limitVars, useBackupOnly, storageShort>>

OpenTradeLimit(b, size, price, slip) ==
    /\ RoomForOrder(b)
    /\ \E i \in Slots :
         /\ FirstEmptyOpenLimitIndex(b, i)
         /\ StoreOpenLimitOrder([key |-> Key(b, i), size |-> size, price |-> price,
                                 slippageP |-> slip, ripe |-> FALSE])
    /\ UNCHANGED <<tradeVars, beingMarketClosed, pendingVars, orders,
                   currentOrderId, useBackupOnly, storageShort>>

\* The amount is not compared with the collateral here.
CloseTradeMarket(k, amount) ==
    /\ Len(pendingOrderIds[k.book.trader]) < MaxPendingMarketOrders
    /\ ~beingMarketClosed[k]
    /\ HasTrade(k)
    /\ \E id \in OrderIds :
         /\ FreshOrder(id)
         /\ orders' = [orders EXCEPT ![id] = "MARKET_CLOSE"]
         /\ StorePendingMarketOrder(id, [key |-> k, amount |-> amount])
    /\ pendingMarketCloseCount' = [pendingMarketCloseCount EXCEPT ![k.book] = @ + 1]
    /\ beingMarketClosed' = [beingMarketClosed EXCEPT ![k] = TRUE]
    /\ UNCHANGED <<tradeVars, pendingMarketOpenCount, limitVars, useBackupOnly, storageShort>>

UpdateOpenLimitOrder(k, price, slip) ==
    LET n == openLimitOrderIds[k] + 1 IN
    /\ HasOpenLimitOrder(k)
    /\ openLimitOrders[n].ripe
    /\ openLimitOrders' = [openLimitOrders EXCEPT ![n] =
         StoredLimitUpdate(@, [@ EXCEPT !.price = price, !.slippageP = slip])]
    /\ UNCHANGED <<openLimitOrderIds, openLimitOrdersCount, tradeVars,
                   beingMarketClosed, pendingVars, orders, currentOrderId,
                   useBackupOnly, storageShort>>

CancelOpenLimitOrder(k) ==
    /\ HasOpenLimitOrder(k)
    /\ openLimitOrders[openLimitOrderIds[k] + 1].ripe
    /\ ~storageShort
    /\ UnregisterOpenLimitOrder(k)
    /\ UNCHANGED <<tradeVars, beingMarketClosed, pendingVars, orders,
                   currentOrderId, useBackupOnly, storageShort>>

\* Blocks go by: the order is older than limitOrdersTimelock.
LimitOrderRipens(k) ==
    LET n == openLimitOrderIds[k] + 1 IN
    /\ HasOpenLimitOrder(k)
    /\ ~openLimitOrders[n].ripe
    /\ openLimitOrders' = [openLimitOrders EXCEPT ![n].ripe = TRUE]
    /\ UNCHANGED <<openLimitOrderIds, openLimitOrdersCount, tradeVars,
                   beingMarketClosed, pendingVars, orders, currentOrderId,
                   useBackupOnly, storageShort>>

SetCollateral(k, coll) ==
    /\ openTrades' = [openTrades EXCEPT ![k].coll = coll]
    /\ UNCHANGED <<openTradesCount, pairTraders, pairTradersId,
                   beingMarketClosed, pendingVars, limitVars, orders,
                   useBackupOnly, storageShort>>

\* Deposit or withdrawal, within the leverage limits of the pair.
UpdateMargin(k, coll) ==
    /\ ~beingMarketClosed[k]
    /\ HasTrade(k)
    /\ InstantOrder
    /\ SetCollateral(k, coll)

\* A guaranteed stop loss is paid for from the collateral, closing or not.
UpdateSl(k, fee) ==
    /\ k.book.pair \in GuaranteedSlPairs
    /\ HasTrade(k)
    /\ fee <= openTrades[k].coll
    /\ InstantOrder
    /\ SetCollateral(k, openTrades[k].coll - fee)

-----------------------------------------------------------------------------
(* Executor bots: executeLimitOrder, fulfilled at once. *)

\* A limit order becomes a trade; with the backup oracle alone its price is 0.
ExecuteLimitOpen(k, fee) ==
    LET o == openLimitOrders[openLimitOrderIds[k] + 1] IN
    /\ HasOpenLimitOrder(k)
    /\ ~useBackupOnly
    /\ ~storageShort
    /\ fee <= o.size
    /\ InstantOrder
    /\ \E i \in Slots :
         /\ FirstEmptyTradeIndex(k.book, i)
         /\ StoreTrade(Key(k.book, i), o.size - fee)
    /\ UnregisterOpenLimitOrder(k)
    /\ UNCHANGED <<pendingVars, orders, useBackupOnly, storageShort>>

\* TP, SL or LIQ closes the whole trade, whether or not it is being closed.
ExecuteLimitClose(k, type) ==
    /\ HasTrade(k)
    /\ useBackupOnly => type = "LIQ"
    /\ InstantOrder
    /\ UnregisterTrade(k)
    /\ UNCHANGED <<pendingVars, limitVars, orders, useBackupOnly, storageShort>>

\* The price has not reached the order, or an exposure limit is in the way.
ExecuteLimitMiss(k) ==
    /\ HasTrade(k) \/ HasOpenLimitOrder(k)
    /\ InstantOrder
    /\ UNCHANGED <<tradeVars, beingMarketClosed, pendingVars, limitVars, orders,
                   useBackupOnly, storageShort>>

-----------------------------------------------------------------------------
(* The operator: executeMarketOrders and cancelPendingMarketOrder. *)

Pending(id, type) ==
    /\ orders[id] = type
    /\ reqIDpendingMarketOrder[id] # NoOrder

FulfilOrder(id) == orders' = [orders EXCEPT ![id] = "none"]

MarketOpenFills(id, fee) ==
    LET o == reqIDpendingMarketOrder[id] IN
    /\ Pending(id, "MARKET_OPEN")
    /\ ~useBackupOnly
    /\ ~storageShort
    /\ fee <= o.amount
    /\ \E i \in Slots :
         /\ FirstEmptyTradeIndex(o.key.book, i)
         /\ StoreTrade(Key(o.key.book, i), o.amount - fee)
    /\ UnregisterPendingOpen(id)
    /\ FulfilOrder(id)
    /\ UNCHANGED <<limitVars, currentOrderId, useBackupOnly, storageShort>>

\* Slippage, TP, SL, exposure or a zero price: the collateral goes back, if
\* storage still has it.
MarketOpenRefunds(id) ==
    /\ Pending(id, "MARKET_OPEN")
    /\ ~storageShort
    /\ UnregisterPendingOpen(id)
    /\ FulfilOrder(id)
    /\ UNCHANGED <<tradeVars, beingMarketClosed, limitVars, currentOrderId,
                   useBackupOnly, storageShort>>

\* o.block == 0: the order was cancelled before it was fulfilled.
MarketOpenIgnored(id) ==
    /\ orders[id] = "MARKET_OPEN"
    /\ reqIDpendingMarketOrder[id] = NoOrder
    /\ FulfilOrder(id)
    /\ UNCHANGED <<tradeVars, beingMarketClosed, pendingVars, limitVars,
                   currentOrderId, useBackupOnly, storageShort>>

ClosesNow(id) ==
    /\ Pending(id, "MARKET_CLOSE")
    /\ ~useBackupOnly
    /\ HasTrade(reqIDpendingMarketOrder[id].key)

MarketCloseFull(id) ==
    LET o == reqIDpendingMarketOrder[id] IN
    /\ ClosesNow(id)
    /\ o.amount = openTrades[o.key].coll
    /\ UnregisterTrade(o.key)
    /\ UnregisterPendingClose(id)
    /\ FulfilOrder(id)
    /\ UNCHANGED <<limitVars, currentOrderId, useBackupOnly, storageShort>>

MarketClosePartial(id, fee) ==
    LET o == reqIDpendingMarketOrder[id] IN
    /\ ClosesNow(id)
    /\ o.amount # openTrades[o.key].coll
    /\ RegisterPartialTrade(o.key, o.amount + fee)
    /\ UnregisterPendingClose(id)
    /\ ClearBeingMarketClosed(id)
    /\ FulfilOrder(id)
    /\ UNCHANGED <<limitVars, currentOrderId, useBackupOnly, storageShort>>

\* The trade is gone, or the price is 0.
MarketCloseLapses(id) ==
    /\ Pending(id, "MARKET_CLOSE")
    /\ useBackupOnly \/ ~HasTrade(reqIDpendingMarketOrder[id].key)
    /\ UnregisterPendingClose(id)
    /\ ClearBeingMarketClosed(id)
    /\ FulfilOrder(id)
    /\ UNCHANGED <<tradeVars, limitVars, currentOrderId, useBackupOnly, storageShort>>

\* The fallback looks at opens only: their collateral is what gets stuck.
Slip_CancelPendingMarketOrder(id) ==
    /\ Pending(id, "MARKET_OPEN")
    /\ ~storageShort
    /\ UnregisterPendingOpen(id)
    /\ UNCHANGED <<beingMarketClosed, tradeVars, limitVars, orders,
                   currentOrderId, useBackupOnly, storageShort>>

\* The aggregator keeps the order initiated: it can still be fulfilled later.
\* The collateral of an open is sent back at the end; that of a close is 0.
CancelPendingMarketOrder(id) ==
    /\ reqIDpendingMarketOrder[id] # NoOrder
    /\ IF orders[id] = "MARKET_OPEN"
       THEN /\ ~storageShort
            /\ UnregisterPendingOpen(id)
            /\ UNCHANGED beingMarketClosed
       ELSE UnregisterPendingClose(id) /\ ClearBeingMarketClosed(id)
    /\ UNCHANGED <<tradeVars, limitVars, orders, currentOrderId, useBackupOnly, storageShort>>

UseBackUpOracleOnly(start) ==
    /\ useBackupOnly' = start
    /\ UNCHANGED <<tradeVars, beingMarketClosed, pendingVars, limitVars, orders,
                   currentOrderId, storageShort>>

\* Credited fees and rebates are claimed out of the collateral that waits in
\* storage, and what comes in later makes up for it.
StorageRunsShort(short) ==
    /\ storageShort' = short
    /\ UNCHANGED <<tradeVars, beingMarketClosed, pendingVars, limitVars, orders,
                   currentOrderId, useBackupOnly>>

-----------------------------------------------------------------------------
ExecuteMarketOrder(id) ==
    \/ \E fee \in Fees : MarketOpenFills(id, fee)
    \/ MarketOpenRefunds(id)
    \/ MarketOpenIgnored(id)
    \/ MarketCloseFull(id)
    \/ \E fee \in Fees : MarketClosePartial(id, fee)
    \/ MarketCloseLapses(id)

OnBook(b) ==
    \/ \E size \in Sizes : OpenTradeMarket(b, size)
    \/ \E size \in Sizes, price \in Prices, slip \in Slippages :
         OpenTradeLimit(b, size, price, slip)

OnKey(k) ==
    \/ \E amount \in CloseAmounts : CloseTradeMarket(k, amount)
    \/ \E price \in Prices, slip \in Slippages : UpdateOpenLimitOrder(k, price, slip)
    \/ CancelOpenLimitOrder(k)
    \/ LimitOrderRipens(k)
    \/ \E coll \in Sizes : UpdateMargin(k, coll)
    \/ \E fee \in Fees : UpdateSl(k, fee)
    \/ \E fee \in Fees : ExecuteLimitOpen(k, fee)
    \/ \E type \in {"TP", "SL", "LIQ"} : ExecuteLimitClose(k, type)
    \/ ExecuteLimitMiss(k)

Next ==
    \/ \E b \in Books : OnBook(b)
    \/ \E k \in Keys : OnKey(k)
    \/ \E id \in OrderIds : ExecuteMarketOrder(id) \/ CancelPendingMarketOrder(id)
    \/ \E start \in BackupModes : UseBackUpOracleOnly(start)
    \/ \E short \in Shortages : StorageRunsShort(short)

Spec == Init /\ [][Next]_vars

(* The operator is a bot whose work is to execute what is pending; nothing *)
(* is assumed of traders, executor bots or governance.  To execute is not  *)
(* always possible: an open reverts for as long as the vault cannot        *)
(* reserve its size, and a close of the whole collateral for good once a   *)
(* guaranteed stop loss has taken its fee from it.  The operator then      *)
(* falls back on cancelPendingMarketOrder.  That reverts too, with every   *)
(* other way out of an open, while storage cannot send the collateral      *)
(* back: weak fairness promises nothing to an order whose refund is again  *)
(* and again impossible.                                                   *)
FairSpec ==
    Spec /\ \A id \in OrderIds :
              WF_vars(ExecuteMarketOrder(id) \/ CancelPendingMarketOrder(id))

-----------------------------------------------------------------------------
(* Properties. *)

\* Every variable has its type.
TypeOK ==
    /\ openTrades \in [Keys -> Trade]
    /\ beingMarketClosed \in [Keys -> BOOLEAN]
    /\ openTradesCount \in [Books -> Nat]
    /\ pairTraders \in [Pairs -> Seq(Traders)]
    /\ pairTradersId \in [Books -> Nat]
    /\ pendingOrderIds \in [Traders -> Seq(OrderIds)]
    /\ reqIDpendingMarketOrder \in [OrderIds -> PendingOrder \cup {NoOrder}]
    /\ pendingMarketOpenCount \in [Books -> Nat]
    /\ pendingMarketCloseCount \in [Books -> Nat]
    /\ openLimitOrders \in Seq(LimitOrder)
    /\ openLimitOrderIds \in [Keys -> Nat]
    /\ openLimitOrdersCount \in [Books -> Nat]
    /\ orders \in [OrderIds -> {"none", "MARKET_OPEN", "MARKET_CLOSE"}]
    /\ currentOrderId \in 1 .. MaxOrders + 1
    /\ useBackupOnly \in BOOLEAN
    /\ storageShort \in BOOLEAN

\* The key-to-place map and the array of limit orders agree after any sequence
\* of swap-and-pop deletions: every element is found under its own key, and a
\* key of no order points at place 0, which the code re-checks.  Otherwise a
\* trader would amend, cancel or be filled on somebody else's order
\* (TradingStorage.sol:447-493, 850-856).
LimitRegistry ==
    /\ \A n \in 1 .. Len(openLimitOrders) :
         openLimitOrderIds[openLimitOrders[n].key] = n - 1
    /\ \A k \in Keys : openLimitOrderIds[k] # 0 => HasOpenLimitOrder(k)

\* pendingOrderIds and _reqIDpendingMarketOrder name the same orders, each once
\* and under its own trader, and the aggregator still holds each of them as
\* initiated: no order is stuck without a transaction that settles it
\* (TradingStorage.sol:349-424).
PendingRegistry ==
    /\ \A t \in Traders : \A i \in 1 .. Len(pendingOrderIds[t]) :
         LET id == pendingOrderIds[t][i] IN
         /\ reqIDpendingMarketOrder[id] # NoOrder
         /\ reqIDpendingMarketOrder[id].key.book.trader = t
         /\ orders[id] # "none"
         /\ id < currentOrderId
         /\ \A j \in 1 .. Len(pendingOrderIds[t]) : pendingOrderIds[t][j] = id => j = i
    /\ \A id \in OrderIds : reqIDpendingMarketOrder[id] # NoOrder =>
         \E i \in 1 .. Len(pendingOrderIds[reqIDpendingMarketOrder[id].key.book.trader]) :
           pendingOrderIds[reqIDpendingMarketOrder[id].key.book.trader][i] = id

\* Open trades, pending opens and limit orders of a trader on a pair together
\* never exceed maxTradesPerPair, although the limit is only checked when an
\* order is placed and trades are registered later (Trading.sol:306-312).
SlotBudget ==
    \A b \in Books :
      openTradesCount[b] + pendingMarketOpenCount[b] + openLimitOrdersCount[b]
        <= MaxTradesPerPair

KeysOf(b)       == {k \in Keys : k.book = b}
TradesOf(b)     == {k \in KeysOf(b) : HasTrade(k)}
LimitsOf(b)     == {k \in KeysOf(b) : HasOpenLimitOrder(k)}
PendingOf(b, type) ==
    {id \in OrderIds : Pending(id, type) /\ reqIDpendingMarketOrder[id].key.book = b}

\* The counters the limits are checked with count what is really stored.
CountersExact ==
    \A b \in Books :
      /\ openTradesCount[b] = Cardinality(TradesOf(b))
      /\ openLimitOrdersCount[b] = Cardinality(LimitsOf(b))
      /\ pendingMarketOpenCount[b] = Cardinality(PendingOf(b, "MARKET_OPEN"))
      /\ pendingMarketCloseCount[b] = Cardinality(PendingOf(b, "MARKET_CLOSE"))

\* An accepted order always finds an empty slot when it is filled: the
\* "MAX_TRADES_REACHED" revert of firstEmptyTradeIndex, which would leave the
\* collateral of the order in storage, is unreachable.
SlotForEveryOrder ==
    \A b \in Books :
      Cardinality(PendingOf(b, "MARKET_OPEN")) + Cardinality(LimitsOf(b))
        <= Cardinality(KeysOf(b) \ TradesOf(b))

\* pairTraders[p] lists, once each, the traders with an open trade on p, and
\* pairTradersId finds them there (TradingStorage.sol:275-278, 325-334).
TraderRegistry ==
    \A b \in Books :
      LET p == pairTraders[b.pair] IN
      /\ openTradesCount[b] > 0 <=> \E i \in 1 .. Len(p) : p[i] = b.trader
      /\ \A i \in 1 .. Len(p) : p[i] = b.trader => pairTradersId[b] = i - 1

Terms(k) ==
    LET o == openLimitOrders[openLimitOrderIds[k] + 1]
    IN [size |-> o.size, price |-> o.price, slippageP |-> o.slippageP]

\* A limit order stays under its key with its terms until its own trader amends
\* or cancels it or an executor fills it: deleting another one moves this one in
\* the array, and no new one is given its index (TradingStorage.sol:447-493).
LimitOrdersKeepTheirTerms ==
    [][\A k \in Keys : HasOpenLimitOrder(k) =>
         \/ HasOpenLimitOrder(k)' /\ Terms(k)' = Terms(k)
         \/ \E price \in Prices, slip \in Slippages :
              UpdateOpenLimitOrder(k, price, slip)
         \/ CancelOpenLimitOrder(k)
         \/ \E fee \in Fees : ExecuteLimitOpen(k, fee)]_vars

Settles(id, type) == Pending(id, type) ~> reqIDpendingMarketOrder[id] = NoOrder

\* Every pending market order is executed or cancelled in the end: the list of
\* its trader never loses it, so that the fallback can always take it out, and
\* its place comes free.  A close settles whatever happens, since taking it out
\* sends nothing; an open, whose collateral has to be sent, if storage is not
\* short of USDC for ever or over and over (TradingStorage.sol:398-424).
OrdersSettle ==
    \A id \in OrderIds :
      /\ Settles(id, "MARKET_CLOSE")
      /\ <>[]~storageShort => Settles(id, "MARKET_OPEN")

\* "ALREADY_BEING_CLOSED": a trade has at most one market close pending, and
\* is marked for as long as it has one (Trading.sol:403).
BeingClosedIsMarked ==
    \A id \in OrderIds : Pending(id, "MARKET_CLOSE") =>
      LET k == reqIDpendingMarketOrder[id].key IN
      HasTrade(k) => beingMarketClosed[k]
=============================================================================
