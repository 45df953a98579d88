------------------------------ MODULE IdealBook ------------------------------
(***************************************************************************)
(* What the order book promises, without the arrays, back-pointers and     *)
(* counters it is stored in: three partial functions, from the key of a    *)
(* slot to its trade, from the key of a slot to its limit order, and from  *)
(* an order id to the market order pending under it.  The trades, limit    *)
(* orders and pending opens of a book share MaxTradesPerPair places, and a *)
(* step touches nothing but the entries it names.                          *)
(***************************************************************************)
EXTENDS Integers, FiniteSets

CONSTANTS Books, Slots, OrderIds, Amounts, LimitTerms, MaxTradesPerPair

VARIABLES trades, limits, opens, closes

vars == <<trades, limits, opens, closes>>

At(b, i) == [book |-> b, index |-> i]

With(f, x, v) == [y \in DOMAIN f \cup {x} |-> IF y = x THEN v ELSE f[y]]
Without(f, x) == [y \in DOMAIN f \ {x} |-> f[y]]

Empty == [x \in {} |-> x]

Load(b) ==
      Cardinality({k \in DOMAIN trades : k.book = b})
    + Cardinality({k \in DOMAIN limits : k.book = b})
    + Cardinality({id \in DOMAIN opens : opens[id].book = b})

Init == trades = Empty /\ limits = Empty /\ opens = Empty /\ closes = Empty

Unused(id) == id \notin DOMAIN opens \cup DOMAIN closes

\* A trader asks for a trade, at market or at a limit.
RequestOpen(b, id, amount) ==
    /\ Unused(id) /\ Load(b) < MaxTradesPerPair
    /\ opens' = With(opens, id, [book |-> b, amount |-> amount])
    /\ UNCHANGED <<trades, limits, closes>>

PlaceLimit(b, i, terms) ==
    /\ At(b, i) \notin DOMAIN limits /\ Load(b) < MaxTradesPerPair
    /\ limits' = With(limits, At(b, i), terms)
    /\ UNCHANGED <<trades, opens, closes>>

AmendLimit(k, terms) ==
    /\ k \in DOMAIN limits
    /\ terms.size = limits[k].size
    /\ limits' = With(limits, k, terms)
    /\ UNCHANGED <<trades, opens, closes>>

CancelLimit(k) ==
    /\ k \in DOMAIN limits
    /\ limits' = Without(limits, k)
    /\ UNCHANGED <<trades, opens, closes>>

\* The order becomes a trade in an empty slot, for no more than its amount.
FillOpen(id, i, amount) ==
    /\ id \in DOMAIN opens /\ amount <= opens[id].amount
    /\ At(opens[id].book, i) \notin DOMAIN trades
    /\ trades' = With(trades, At(opens[id].book, i), amount)
    /\ opens' = Without(opens, id)
    /\ UNCHANGED <<limits, closes>>

FillLimit(k, i, amount) ==
    /\ k \in DOMAIN limits /\ amount <= limits[k].size
    /\ At(k.book, i) \notin DOMAIN trades
    /\ trades' = With(trades, At(k.book, i), amount)
    /\ limits' = Without(limits, k)
    /\ UNCHANGED <<opens, closes>>

RefundOpen(id) ==
    /\ id \in DOMAIN opens
    /\ opens' = Without(opens, id)
    /\ UNCHANGED <<trades, limits, closes>>

\* A trade is amended, closed at once, or asked to be closed at market.
Amend(k, amount) ==
    /\ k \in DOMAIN trades
    /\ trades' = With(trades, k, amount)
    /\ UNCHANGED <<limits, opens, closes>>

Close(k) ==
    /\ k \in DOMAIN trades
    /\ trades' = Without(trades, k)
    /\ UNCHANGED <<limits, opens, closes>>

RequestClose(k, id, amount) ==
    /\ Unused(id) /\ k \in DOMAIN trades
    /\ closes' = With(closes, id, [key |-> k, amount |-> amount])
    /\ UNCHANGED <<trades, limits, opens>>

\* A market close takes all of the trade's collateral, or more than was asked
\* for (the fees) but no more than there is.
FillClose(id, amount) ==
    LET k == closes[id].key IN
    /\ id \in DOMAIN closes /\ k \in DOMAIN trades
    /\ closes[id].amount <= amount /\ amount <= trades[k]
    /\ trades' = IF closes[id].amount = trades[k] THEN Without(trades, k)
                 ELSE With(trades, k, trades[k] - amount)
    /\ closes' = Without(closes, id)
    /\ UNCHANGED <<limits, opens>>

DropClose(id) ==
    /\ id \in DOMAIN closes
    /\ closes' = Without(closes, id)
    /\ UNCHANGED <<trades, limits, opens>>

Next ==
    \/ \E b \in Books, id \in OrderIds, a \in Amounts : RequestOpen(b, id, a)
    \/ \E b \in Books, i \in Slots, t \in LimitTerms : PlaceLimit(b, i, t)
    \/ \E k \in DOMAIN limits :
         \/ CancelLimit(k)
         \/ \E t \in LimitTerms : AmendLimit(k, t)
         \/ \E i \in Slots, a \in Amounts : FillLimit(k, i, a)
    \/ \E id \in DOMAIN opens :
         \/ RefundOpen(id)
         \/ \E i \in Slots, a \in Amounts : FillOpen(id, i, a)
    \/ \E k \in DOMAIN trades :
         \/ Close(k)
         \/ \E a \in Amounts : Amend(k, a)
         \/ \E id \in OrderIds, a \in Amounts : RequestClose(k, id, a)
    \/ \E id \in DOMAIN closes :
         \/ DropClose(id)
         \/ \E a \in Amounts : FillClose(id, a)

Spec == Init /\ [][Next]_vars
=============================================================================
