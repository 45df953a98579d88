------------------------------- MODULE Position -------------------------------
(***************************************************************************)
(* One position and the prices it meets: opening with slippage, take       *)
(* profit and stop loss, changes of margin, closing at market, at TP, at   *)
(* SL and by liquidation (TradingCallbacks.sol), with the prices that the  *)
(* aggregator hands over (PriceAggregator.sol) and the liquidation price   *)
(* and value of PairInfos.sol.                                             *)
(*                                                                         *)
(* A request and its execution are one action; what may happen between     *)
(* them is in module TradeBook.  The accounts are in module Settlement and *)
(* the rollover accumulator in module Rollover: here it is a number that   *)
(* grows.  Referral discounts, which lower the closing fee, are left out.  *)
(***************************************************************************)
EXTENDS Integers

CONSTANTS
    Pairs, Guaranteed,  \* pairs; those with guaranteedSlEnabled
    Prices,             \* what Pyth and Chainlink may say
    Confs,              \* Pyth's confidence intervals
    MaxConfP, MaxDeviationP,  \* maxDeviationP of the feed and of the backup feed
    Spreads,            \* what an opening adds to the price: spread or impact
    SlippageP,          \* slippage of an order
    Wanted,             \* prices of orders
    Collaterals, Leverages,   \* of an opening, fees deducted
    Tps, Sls,           \* TP and SL that traders ask for
    Protections,        \* lossProtection multipliers of the tiers, percent
    CloseAmounts, Margins,
    SlFees,             \* fee of a guaranteed stop loss
    CloseFeeP, LimitFeeP,
    LiqFeeP, LiqTotalFeeP, MaxExecReward, LiqThreshold,
    MaxSlP, MaxGainP, WithdrawThresholdP,
    MinLeverage, MaxLeverage,
    Precision,          \* _PRECISION, also of leverages
    MaxAccrued, MaxSteps  \* bounds of the runs

ASSUME PositionAssumption ==
    /\ Guaranteed \subseteq Pairs
    /\ Prices \subseteq Nat \ {0} /\ Wanted \subseteq Nat \ {0}
    /\ Confs \subseteq Nat /\ MaxConfP \in Nat /\ MaxDeviationP \in Nat
    /\ Precision \in Nat \ {0}
    /\ Spreads \subseteq 1 - 100 * Precision .. 100 * Precision - 1 /\ SlippageP \in Nat
    /\ Tps \subseteq Nat /\ Sls \subseteq Nat
    /\ MinLeverage \in Nat /\ MaxLeverage \in Nat /\ Precision <= MinLeverage
    /\ Collaterals \subseteq Nat \ {0} /\ Leverages \subseteq MinLeverage .. MaxLeverage
    /\ Protections \subseteq 0 .. 100
    /\ CloseAmounts \subseteq Nat \ {0} /\ Margins \subseteq Nat \ {0} /\ SlFees \subseteq Nat
    /\ CloseFeeP \in Nat /\ LimitFeeP \in Nat /\ MaxExecReward \in Nat
    /\ LiqFeeP \in Nat \ {0} /\ LiqTotalFeeP \in Nat /\ LiqFeeP <= LiqTotalFeeP
    /\ LiqThreshold \in 0 .. 100 /\ MaxSlP \in 0 .. 100 /\ MaxGainP \in Nat
    /\ WithdrawThresholdP \in 0 .. 100
    /\ MaxAccrued \in Nat /\ MaxSteps \in Nat

VARIABLES
    trade,
    accrued,        \* rollover fee per open interest since the trade's start
    useBackupOnly,  \* Pyth is not used
    paidIn,         \* history: collateral and margin that the trader sent
    paidOut,        \* history: what he was sent
    unpaid,         \* history: margin credited, less debited, without USDC
    steps

vars == <<trade, accrued, useBackupOnly, paidIn, paidOut, unpaid, steps>>

NoTrade == [coll |-> 0]
Trades == [pair : Pairs, buy : BOOLEAN, open : Nat, coll : Nat, oi : Nat, lev : Nat,
           tp : Nat, sl : Nat, protection : Protections]
IsTrade == trade # NoTrade

-----------------------------------------------------------------------------
(* Arithmetic. *)

\* The division of a signed integer.
Quotient(a, b) == IF a < 0 THEN -((-a) \div b) ELSE a \div b

Mul(amount, lev) == (amount * lev) \div Precision
Div(amount, lev) == (amount * Precision) \div lev

\* No cap on the gain.
Slip_CurrentPercentProfit(open, price, buy, lev) ==
    LET p == Quotient((IF buy THEN price - open ELSE open - price) * 100 * lev, open)
    IN  IF p < -100 * Precision THEN -100 * Precision ELSE p

CurrentPercentProfit(open, price, buy, lev) ==
    LET p == Quotient((IF buy THEN price - open ELSE open - price) * 100 * lev, open)
    IN  CASE p < -100 * Precision     -> -100 * Precision
          [] p > MaxGainP * Precision -> MaxGainP * Precision
          [] OTHER                    -> p

Pnl(amount, profitP) == Quotient(amount * profitP, Precision * 100)
ProtectedPnl(amount, profitP, protection) ==
    LET pnl == Pnl(amount, profitP)
    IN  IF pnl < 0 THEN Quotient(pnl * protection, 100) ELSE pnl

ProfitAt(t, price) == CurrentPercentProfit(t.open, price, t.buy, t.lev)

\* price is at the level or on the losing side of it.
AtOrWorse(buy, price, level) == IF buy THEN price <= level ELSE price >= level
AtOrBetter(buy, price, level) == IF buy THEN price >= level ELSE price <= level

\* A short's take profit below 0.
Slip_CorrectTp(open, lev, tp, buy) ==
    LET diff == Div(open * MaxGainP, lev) \div 100 IN
    IF tp = 0 \/ CurrentPercentProfit(open, tp, buy, lev) = MaxGainP * Precision
    THEN IF buy THEN open + diff ELSE open - diff
    ELSE tp

CorrectTp(open, lev, tp, buy) ==
    LET diff == Div(open * MaxGainP, lev) \div 100 IN
    IF tp = 0 \/ CurrentPercentProfit(open, tp, buy, lev) = MaxGainP * Precision
    THEN IF buy THEN open + diff ELSE IF diff <= open THEN open - diff ELSE 0
    ELSE tp

CorrectSl(open, lev, sl, buy) ==
    LET diff == Div(open * MaxSlP, lev) \div 100 IN
    IF sl > 0 /\ CurrentPercentProfit(open, sl, buy, lev) < -MaxSlP * Precision
    THEN IF buy THEN open - diff ELSE open + diff
    ELSE sl

-----------------------------------------------------------------------------
(* Prices.  The aggregator's answer to an order is 0 where it has none.     *)

Deviation(a, b) ==
    IF a > b THEN ((a - b) * 100 * Precision) \div b ELSE ((b - a) * 100 * Precision) \div a

\* A feed of 0 is Chainlink's when it has not been updated lately.
Accepted(price, conf, feed) ==
    /\ (conf * Precision * 100) \div price <= MaxConfP
    /\ feed > 0 => Deviation(price, feed) <= MaxDeviationP

PythPrices ==
    {price \in Prices : \E conf \in Confs, feed \in Prices \cup {0} : Accepted(price, conf, feed)}

Answers == IF useBackupOnly THEN {0} ELSE PythPrices

\* "Pyth Broke. Only Allow liquidations via CL."
LiquidationAnswers == IF useBackupOnly THEN Prices \cup {0} ELSE PythPrices

-----------------------------------------------------------------------------
(* Values. *)

Rollover(t, amount) == (accrued * Mul(amount, t.lev)) \div Precision

\* Divided first, the distance is 0.
Slip_LiquidationPrice(t) ==
    LET distance == t.open * Quotient((t.coll * LiqThreshold) \div 100 - Rollover(t, t.coll),
                                      Mul(t.coll, t.lev))
        level == IF t.buy THEN t.open - distance ELSE t.open + distance
    IN  IF level > 0 THEN level ELSE 0

\* getTradeLiquidationPricePure.
LiquidationPrice(t) ==
    LET distance == Quotient(t.open * ((t.coll * LiqThreshold) \div 100 - Rollover(t, t.coll)),
                             Mul(t.coll, t.lev))
        level == IF t.buy THEN t.open - distance ELSE t.open + distance
    IN  IF level > 0 THEN level ELSE 0

\* getTradeValuePure.
TradeValue(t, amount, profitP, fees) ==
    LET pnl == ProtectedPnl(amount, profitP, t.protection)
        value == amount + pnl - fees
    IN
    IF value <= (amount * (100 - LiqThreshold)) \div 100
    THEN [value |-> 0, pnl |-> fees - amount]
    ELSE [value |-> value, pnl |-> pnl]

\* Of what the position is worth at the price, without protection.
ClosingFee(t, amount, price) ==
    (Mul(amount + Pnl(amount, ProfitAt(t, price)), t.lev) * CloseFeeP) \div (100 * Precision)

\* allocateRewards refuses 0: a loss needs fees besides the executor's.
CanSettle(t, amount, price, fee, reward) ==
    LET fees   == Rollover(t, amount) + fee
        result == TradeValue(t, amount, ProfitAt(t, price), fees + reward)
    IN  result.pnl < 0 \/ fees + reward > 0 => fees > 0

-----------------------------------------------------------------------------
(* Openings. *)

Step == steps < MaxSteps /\ steps' = steps + 1

ExecutionPrice(price, spread, buy) ==
    LET diff == Quotient(price * spread, 100 * Precision)
    IN  IF buy THEN price + diff ELSE price - diff

WithinSlippage(open, wanted, buy) ==
    LET slippage == (wanted * SlippageP) \div (100 * Precision)
    IN  AtOrWorse(buy, open, IF buy THEN wanted + slippage ELSE wanted - slippage)

\* The checks of an order's stops, against the price it asks for or gets.
StopsAround(open, tp, sl, buy) ==
    /\ tp > 0 => open # tp /\ AtOrWorse(buy, open, tp)
    /\ sl > 0 => open # sl /\ AtOrBetter(buy, open, sl)

RegisterTrade(pair, buy, open, coll, lev, tp, sl, protection) ==
    /\ Step
    /\ ~IsTrade
    /\ trade' = [pair |-> pair, buy |-> buy, open |-> open, coll |-> coll,
                 oi |-> Mul(coll, lev), lev |-> lev,
                 tp |-> CorrectTp(open, lev, tp, buy), sl |-> CorrectSl(open, lev, sl, buy),
                 protection |-> protection]
    /\ accrued' = 0
    /\ paidIn' = paidIn + coll
    /\ UNCHANGED <<useBackupOnly, paidOut, unpaid>>

OpenMarket(pair, buy, coll, lev, tp, sl, protection, wanted, spread, price) ==
    LET open == ExecutionPrice(price, spread, buy) IN
    /\ StopsAround(wanted, tp, sl, buy)
    /\ price > 0
    /\ WithinSlippage(open, wanted, buy)
    /\ StopsAround(open, tp, sl, buy)
    /\ RegisterTrade(pair, buy, open, coll, lev, tp, sl, protection)

\* A limit order's stops are not compared with the price it gets.
OpenLimit(pair, buy, coll, lev, tp, sl, protection, wanted, spread, price, reversal) ==
    LET open == ExecutionPrice(price, spread, buy) IN
    /\ StopsAround(wanted, tp, sl, buy)
    /\ price > 0
    /\ IF reversal THEN AtOrBetter(buy, price, wanted) ELSE AtOrWorse(buy, price, wanted)
    /\ WithinSlippage(open, wanted, buy)
    /\ RegisterTrade(pair, buy, open, coll, lev, tp, sl, protection)

-----------------------------------------------------------------------------
(* Closings. *)

\* _unregisterTrade: of a part of the collateral, the fees are taken off too.
UnregisterTrade(amount, price, fee, reward) ==
    LET t       == trade
        fees    == Rollover(t, amount) + fee + reward
        reduced == amount + fees
    IN
    /\ Step
    /\ CanSettle(t, amount, price, fee, reward)
    /\ paidOut' = paidOut + TradeValue(t, amount, ProfitAt(t, price), fees).value
    /\ IF amount = t.coll
       THEN trade' = NoTrade /\ accrued' = 0
       ELSE /\ reduced <= t.coll /\ Mul(reduced, t.lev) <= t.oi
            /\ trade' = [t EXCEPT !.coll = @ - reduced, !.oi = @ - Mul(reduced, t.lev)]
            /\ UNCHANGED accrued
    /\ UNCHANGED <<useBackupOnly, paidIn, unpaid>>

CloseMarket(amount, price) ==
    /\ IsTrade
    /\ price > 0 /\ amount <= trade.coll
    /\ UnregisterTrade(amount, price, ClosingFee(trade, amount, price), 0)

\* On guaranteed pairs a stop is executed at its own price, but for a stop
\* loss that locks in a gain.
StopPrice(t, type, price) ==
    CASE t.pair \notin Guaranteed -> price
      [] type = "TP" -> t.tp
      [] OTHER -> IF t.sl # t.open /\ AtOrBetter(t.buy, t.sl, t.open) THEN price ELSE t.sl

StopHit(t, type, price) ==
    IF type = "TP" THEN t.tp > 0 /\ AtOrBetter(t.buy, price, t.tp)
    ELSE t.sl > 0 /\ AtOrWorse(t.buy, price, t.sl)

StopReward(t) ==
    LET reward == (t.coll * LimitFeeP) \div (100 * Precision)
    IN  IF reward > MaxExecReward THEN MaxExecReward ELSE reward

StopFee(t, type, price) == ClosingFee(t, t.coll, StopPrice(t, type, price))

CanCloseAtStop(t, type, price) ==
    /\ price > 0 /\ StopHit(t, type, price) /\ StopReward(t) > 0
    /\ CanSettle(t, t.coll, StopPrice(t, type, price), StopFee(t, type, price), StopReward(t))

CloseAtStop(type, price) ==
    /\ IsTrade
    /\ CanCloseAtStop(trade, type, price)
    /\ UnregisterTrade(trade.coll, StopPrice(trade, type, price),
                       StopFee(trade, type, price), StopReward(trade))

LiquidationReward(t) == (t.coll * LiqFeeP) \div 100
LiquidationFee(t) == (LiquidationReward(t) * (LiqTotalFeeP - LiqFeeP)) \div LiqFeeP

\* Any stop loss stands in for liquidation.
Slip_HasSl(t) == t.sl > 0

\* A stop loss that is reached before the liquidation price.
HasSl(t) == t.sl > 0 /\ AtOrBetter(t.buy, t.sl, LiquidationPrice(t))

CanLiquidate(t, price) ==
    /\ Mul(t.coll, t.lev) > 0 /\ ~HasSl(t)
    /\ price > 0 /\ AtOrWorse(t.buy, price, LiquidationPrice(t)) /\ LiquidationReward(t) > 0
    /\ CanSettle(t, t.coll, price, LiquidationFee(t), LiquidationReward(t))

Liquidate(price) ==
    /\ IsTrade
    /\ CanLiquidate(trade, price)
    /\ UnregisterTrade(trade.coll, price, LiquidationFee(trade), LiquidationReward(trade))

-----------------------------------------------------------------------------
(* Changes of the trade. *)

\* With the collateral and the leverage from before the withdrawal.
Slip_Withdrawable(t, new, price) ==
    LET profitP == ProfitAt(t, price) IN
    t.coll + ProtectedPnl(t.coll, profitP, t.protection)
      > (t.coll * (100 - WithdrawThresholdP)) \div 100

\* What is left after a withdrawal has not lost too much.
Withdrawable(t, new, price) ==
    LET profitP == ProfitAt(new, price) IN
    new.coll + ProtectedPnl(new.coll, profitP, new.protection)
      > (new.coll * (100 - WithdrawThresholdP)) \div 100

\* The trade is changed before the price is asked for; without one, no USDC
\* moves.
UpdateMargin(deposit, amount, price) ==
    LET t    == trade
        coll == (IF deposit THEN t.coll + amount ELSE t.coll - amount) - Rollover(t, t.coll)
        new  == [t EXCEPT !.coll = coll, !.lev = Div(t.oi, coll)]
    IN
    /\ Step
    /\ IsTrade
    /\ coll > 0
    /\ new.lev \in MinLeverage .. MaxLeverage
    /\ price > 0 /\ ~deposit => Withdrawable(t, new, price)
    /\ trade' = new
    /\ accrued' = 0
    /\ paidIn' = IF price > 0 /\ deposit THEN paidIn + amount ELSE paidIn
    /\ paidOut' = IF price > 0 /\ ~deposit THEN paidOut + amount ELSE paidOut
    /\ unpaid' = CASE price > 0 -> unpaid
                   [] price = 0 /\ deposit -> unpaid + amount
                   [] price = 0 /\ ~deposit -> unpaid - amount
    /\ UNCHANGED useBackupOnly

UpdateTp(tp) ==
    /\ Step
    /\ IsTrade
    /\ trade' = [trade EXCEPT !.tp = CorrectTp(trade.open, trade.lev, tp, trade.buy)]
    /\ UNCHANGED <<accrued, useBackupOnly, paidIn, paidOut, unpaid>>

\* A guaranteed stop loss costs a fee, whatever the price then says.
UpdateSl(sl, fee, price) ==
    LET t       == trade
        maxDist == Div((t.open * MaxSlP) \div 100, t.lev)
        asked   == sl > 0 /\ t.pair \in Guaranteed
        set     == asked => price > 0 /\ AtOrBetter(t.buy, price, sl)
    IN
    /\ Step
    /\ IsTrade
    /\ sl > 0 => AtOrBetter(t.buy, sl, IF t.buy THEN t.open - maxDist ELSE t.open + maxDist)
    /\ asked => fee <= t.coll
    /\ trade' = [t EXCEPT !.coll = IF asked THEN @ - fee ELSE @,
                          !.sl = IF set THEN CorrectSl(t.open, t.lev, sl, t.buy) ELSE @]
    /\ UNCHANGED <<accrued, useBackupOnly, paidIn, paidOut, unpaid>>

Accrue ==
    /\ IsTrade /\ accrued < MaxAccrued
    /\ accrued' = accrued + 1
    /\ UNCHANGED <<trade, useBackupOnly, paidIn, paidOut, unpaid, steps>>

SwitchOracle ==
    /\ Step
    /\ useBackupOnly' = ~useBackupOnly
    /\ UNCHANGED <<trade, accrued, paidIn, paidOut, unpaid>>

-----------------------------------------------------------------------------
Init ==
    /\ trade = NoTrade /\ accrued = 0 /\ useBackupOnly = FALSE
    /\ paidIn = 0 /\ paidOut = 0 /\ unpaid = 0 /\ steps = 0

Open ==
    \E pair \in Pairs, buy \in BOOLEAN, coll \in Collaterals, lev \in Leverages,
       tp \in Tps, sl \in Sls, protection \in Protections, wanted \in Wanted,
       spread \in Spreads, price \in Answers :
      \/ OpenMarket(pair, buy, coll, lev, tp, sl, protection, wanted, spread, price)
      \/ \E reversal \in BOOLEAN :
           OpenLimit(pair, buy, coll, lev, tp, sl, protection, wanted, spread, price, reversal)

Next ==
    \/ ~IsTrade /\ Open
    \/ \E price \in Answers :
         \/ \E amount \in CloseAmounts \cup {trade.coll} : CloseMarket(amount, price)
         \/ \E type \in {"TP", "SL"} : CloseAtStop(type, price)
         \/ \E deposit \in BOOLEAN, amount \in Margins : UpdateMargin(deposit, amount, price)
         \/ \E sl \in Sls, fee \in SlFees : UpdateSl(sl, fee, price)
    \/ \E price \in LiquidationAnswers : Liquidate(price)
    \/ \E tp \in Tps : UpdateTp(tp)
    \/ Accrue
    \/ SwitchOracle

Spec == Init /\ [][Next]_vars

-----------------------------------------------------------------------------
(* Properties. *)

TypeOK ==
    /\ trade \in Trades \cup {NoTrade}
    /\ accrued \in 0 .. MaxAccrued /\ useBackupOnly \in BOOLEAN
    /\ paidIn \in Nat /\ paidOut \in Nat /\ unpaid \in Int /\ steps \in 0 .. MaxSteps

\* While Pyth works, an executor can close any trade that has reached its
\* liquidation price, by liquidation or, where a stop loss stands in for it, at
\* that: the two guards, one before and one after the price is known, leave no
\* gap.  But for a total loss that owes no fee (TradingCallbacks.sol:340-400).
InsolventTradesAreCloseable ==
    IsTrade /\ LiquidationReward(trade) > 0 /\ StopReward(trade) > 0 =>
      \A price \in Prices : AtOrWorse(trade.buy, price, LiquidationPrice(trade)) =>
        \/ CanLiquidate(trade, price)
        \/ CanCloseAtStop(trade, "SL", price)
        \/ /\ StopHit(trade, "SL", price)
           /\ Rollover(trade, trade.coll) = 0 /\ StopFee(trade, "SL", price) = 0

\* A trade is liquidated only when one unit of price more would have cost its
\* position, rollover included, the threshold's share of its collateral: whatever
\* margin was added or withdrawn, rounding never liquidates early
\* (PairInfos.sol:606-621).
SolventTradesAreNotLiquidated ==
    [][\A price \in Prices : Liquidate(price) =>
         LET t     == trade
             worse == (IF t.buy THEN t.open - price ELSE price - t.open) + 1
         IN  worse * Mul(t.coll, t.lev)
               >= t.open * ((t.coll * LiqThreshold) \div 100 - Rollover(t, t.coll))]_vars

\* Through partial closings and changes of margin, no trader is paid more than
\* his money and the maximal gain on it; margin that was credited without USDC
\* counts as his money (TradingCallbacks.sol:597-607, 68-107).
PayoutsWithinMaxGain ==
    100 * paidOut + (100 + MaxGainP) * trade.coll
      <= (100 + MaxGainP) * (paidIn + unpaid)

\* A withdrawal of margin leaves a trade without loss protection on the safe
\* side of its new liquidation price (TradingCallbacks.sol:79-92).
WithdrawalsLeaveTradesSolvent ==
    [][\A price \in Prices, amount \in Margins :
         UpdateMargin(FALSE, amount, price) /\ trade.protection = 100 =>
           ~AtOrWorse(trade.buy, price, LiquidationPrice(trade)')]_vars
=============================================================================
