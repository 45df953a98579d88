------------------------- MODULE TradeBookRefinement -------------------------
(* The stored book implements the ideal one. *)
EXTENDS TradeBook

StoredTrades == [k \in {k \in Keys : HasTrade(k)} |-> openTrades[k].coll]

StoredLimits == [k \in {k \in Keys : HasOpenLimitOrder(k)} |-> Terms(k)]

StoredOpens ==
    [id \in {id \in OrderIds : Pending(id, "MARKET_OPEN")} |->
       [book   |-> reqIDpendingMarketOrder[id].key.book,
        amount |-> reqIDpendingMarketOrder[id].amount]]

StoredCloses ==
    [id \in {id \in OrderIds : Pending(id, "MARKET_CLOSE")} |->
       [key    |-> reqIDpendingMarketOrder[id].key,
        amount |-> reqIDpendingMarketOrder[id].amount]]

AllAmounts == UNION {0 .. n : n \in Sizes \cup CloseAmounts}

Ideal == INSTANCE IdealBook WITH
    trades  <- StoredTrades,
    limits  <- StoredLimits,
    opens   <- StoredOpens,
    closes  <- StoredCloses,
    Amounts <- AllAmounts,
    LimitTerms <- [size : Sizes, price : Prices, slippageP : Slippages]

\* Every transaction on the arrays, counters and back-pointers is one step, or
\* none, of the ideal book: an order is never lost, duplicated, moved to
\* another slot or altered by an operation on another one, and the counters
\* the limits are checked with enforce the limit on what is really stored.
ImplementsIdealBook == Ideal!Spec
=============================================================================
