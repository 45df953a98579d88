--------------------------- MODULE Position_proofs ---------------------------
(* Proofs about Position, for any prices, fees, limits and orders. *)
EXTENDS Position, TLAPS

-----------------------------------------------------------------------------
(* Products and quotients. *)

\* Products of naturals are naturals, and keep the order.
LEMMA ProductMonotone ==
    ASSUME NEW a \in Nat, NEW b \in Nat, NEW c \in Nat, a <= b
    PROVE  a * c \in Nat /\ b * c \in Nat /\ a * c <= b * c
BY SMT

\* So do products of integers with a natural.
LEMMA ScaleMonotone ==
    ASSUME NEW a \in Int, NEW b \in Int, NEW c \in Nat, a <= b
    PROVE  a * c \in Int /\ b * c \in Int /\ a * c <= b * c
<1>1. (b - a) * c \in Nat /\ (b - a) * c = b * c - a * c
  BY SMT
<1> QED
  BY <1>1, SMT

\* Rounding down leaves out less than one unit.
LEMMA Down ==
    ASSUME NEW x \in Nat, NEW n \in Nat \ {0}
    PROVE  x \div n \in Nat /\ (x \div n) * n <= x /\ x < (x \div n + 1) * n
BY SMT

\* A common factor can be taken out of a strict inequality.
LEMMA CancelFactor ==
    ASSUME NEW a \in Int, NEW b \in Int, NEW c \in Nat, a * c < b * c
    PROVE  a < b
<1>1. SUFFICES ASSUME b <= a PROVE FALSE
  BY SMT
<1>2. b * c <= a * c /\ a * c \in Int /\ b * c \in Int
  BY <1>1, ScaleMonotone
<1> QED
  BY <1>2, SMT

\* What is at most a multiple is rounded down to at most that.
LEMMA DownAtMost ==
    ASSUME NEW x \in Nat, NEW n \in Nat \ {0}, NEW y \in Nat, x <= y * n
    PROVE  x \div n <= y
<1> DEFINE q == x \div n
<1>1. q \in Nat /\ q * n <= x
  BY Down
<1> HIDE DEF q
<1>2. q * n < (y + 1) * n
  <2>1. q * n \in Nat /\ (y + 1) * n = y * n + n
    BY <1>1, SMT
  <2> QED
    BY <2>1, <1>1, SMT
<1>3. q < y + 1
  BY <1>1, <1>2, CancelFactor
<1> QED
  BY <1>1, <1>3, SMT DEF q

\* What is at least a multiple is rounded down to at least that.
LEMMA DownAtLeast ==
    ASSUME NEW x \in Nat, NEW n \in Nat \ {0}, NEW y \in Nat, y * n <= x
    PROVE  y <= x \div n
<1> DEFINE q == x \div n
<1>1. q \in Nat /\ x < (q + 1) * n
  BY Down
<1> HIDE DEF q
<1>2. y * n < (q + 1) * n
  BY <1>1, SMT
<1>3. y < q + 1
  BY <1>1, <1>2, CancelFactor
<1> QED
  BY <1>1, <1>3, SMT DEF q

\* A signed quotient has the sign of its dividend, and is rounded towards 0.
LEMMA QuotientSigned ==
    ASSUME NEW a \in Int, NEW n \in Nat \ {0}
    PROVE  /\ Quotient(a, n) \in Int
           /\ a >= 0 => Quotient(a, n) >= 0 /\ Quotient(a, n) * n <= a
           /\ a < 0  => Quotient(a, n) <= 0 /\ a <= Quotient(a, n) * n
           /\ a < (Quotient(a, n) + 1) * n
<1>1. CASE a >= 0
  <2>1. Quotient(a, n) = a \div n /\ a \in Nat
    BY <1>1, SMT DEF Quotient
  <2>2. a \div n \in Nat /\ (a \div n) * n <= a /\ a < (a \div n + 1) * n
    BY <2>1, Down
  <2> QED
    BY <1>1, <2>1, <2>2, SMT
<1>2. CASE a < 0
  <2> DEFINE q == (-a) \div n
  <2>1. -a \in Nat /\ Quotient(a, n) = -q
    BY <1>2, SMT DEF Quotient
  <2>2. q \in Nat /\ q * n <= -a
    BY <2>1, Down
  <2> HIDE DEF q
  <2>3. (-q) * n = -(q * n) /\ (-q + 1) * n = -(q * n) + n /\ q * n \in Nat
    BY <2>2, SMT
  <2>4. a <= (-q) * n /\ a < (-q + 1) * n /\ -q \in Int /\ -q <= 0
    BY <2>2, <2>3, SMT
  <2> QED
    BY <1>2, <2>1, <2>4, SMT
<1> QED
  BY <1>1, <1>2, SMT

\* It stays within what bounds the dividend.
LEMMA QuotientBounds ==
    ASSUME NEW a \in Int, NEW n \in Nat \ {0}, NEW y \in Nat
    PROVE  /\ a <= y * n => Quotient(a, n) <= y
           /\ -(y * n) <= a => -y <= Quotient(a, n)
<1>1. /\ Quotient(a, n) \in Int
      /\ a >= 0 => Quotient(a, n) >= 0 /\ Quotient(a, n) * n <= a
      /\ a < 0  => Quotient(a, n) <= 0 /\ a <= Quotient(a, n) * n
  BY QuotientSigned
<1> DEFINE q == Quotient(a, n)
<1> HIDE DEF q
<1>2. /\ (y + 1) * n = y * n + n /\ (-y - 1) * n = -(y * n) - n
      /\ y * n \in Nat /\ q * n \in Int
  BY <1>1, SMT DEF q
<1>3. ASSUME a <= y * n PROVE q <= y
  <2>1. CASE a < 0
    BY <1>1, <2>1, SMT DEF q
  <2>2. CASE a >= 0
    <3>1. q * n < (y + 1) * n
      BY <1>1, <1>2, <1>3, <2>2, SMT DEF q
    <3>2. q < y + 1
      BY <1>1, <3>1, CancelFactor DEF q
    <3> QED
      BY <1>1, <3>2, SMT DEF q
  <2> QED
    BY <2>1, <2>2, SMT
<1>4. ASSUME -(y * n) <= a PROVE -y <= q
  <2>1. CASE a >= 0
    BY <1>1, <2>1, SMT DEF q
  <2>2. CASE a < 0
    <3>1. (-y - 1) * n < q * n
      BY <1>1, <1>2, <1>4, <2>2, SMT DEF q
    <3>2. -y - 1 < q
      BY <1>1, <3>1, CancelFactor DEF q
    <3> QED
      BY <1>1, <3>2, SMT DEF q
  <2> QED
    BY <2>1, <2>2, SMT
<1> QED
  BY <1>3, <1>4 DEF q

-----------------------------------------------------------------------------
(* Profits and values. *)

\* A profit is between the loss of everything and the maximal gain.
LEMMA ProfitInRange ==
    ASSUME PositionAssumption, NEW open \in Nat \ {0}, NEW price \in Int,
           NEW buy \in BOOLEAN, NEW lev \in Nat
    PROVE  /\ CurrentPercentProfit(open, price, buy, lev) \in Int
           /\ -(100 * Precision) <= CurrentPercentProfit(open, price, buy, lev)
           /\ CurrentPercentProfit(open, price, buy, lev) <= MaxGainP * Precision
<1> DEFINE diff == IF buy THEN price - open ELSE open - price
           p == Quotient(diff * 100 * lev, open)
           low == 100 * Precision
           high == MaxGainP * Precision
<1>1. diff \in Int
  BY SMT
<1> HIDE DEF diff
<1>2. diff * 100 * lev \in Int
  BY <1>1, SMT
<1>3. p \in Int
  BY <1>2, QuotientSigned
<1>4. low \in Nat /\ high \in Nat /\ -100 * Precision = -low
  BY SMT DEF PositionAssumption
<1>5. CurrentPercentProfit(open, price, buy, lev) =
        CASE p < -100 * Precision -> -100 * Precision [] p > high -> high [] OTHER -> p
  BY DEF CurrentPercentProfit, diff
<1> HIDE DEF p, low, high
<1>6. CurrentPercentProfit(open, price, buy, lev) =
        CASE p < -low -> -low [] p > high -> high [] OTHER -> p
  BY <1>4, <1>5
<1>7. /\ CurrentPercentProfit(open, price, buy, lev) \in Int
      /\ -low <= CurrentPercentProfit(open, price, buy, lev)
      /\ CurrentPercentProfit(open, price, buy, lev) <= high
  BY <1>3, <1>4, <1>6, SMT
<1> QED
  BY <1>7 DEF low, high

\* A profit in range never costs more than the amount, nor gains more than the
\* maximal gain on it.
LEMMA PnlInRange ==
    ASSUME PositionAssumption, NEW amount \in Nat, NEW profitP \in Int,
           -(100 * Precision) <= profitP, profitP <= MaxGainP * Precision
    PROVE  /\ Pnl(amount, profitP) \in Int
           /\ -amount <= Pnl(amount, profitP)
           /\ 100 * Pnl(amount, profitP) <= MaxGainP * amount
<1> DEFINE n == Precision * 100
           x == amount * profitP
           q == Quotient(x, n)
<1>1. /\ Precision \in Nat \ {0} /\ MaxGainP \in Nat
      /\ n \in Nat \ {0} /\ x \in Int /\ n = 100 * Precision
  BY SMT DEF PositionAssumption
<1>2. x = profitP * amount /\ -(amount * n) = (-n) * amount /\ -n <= profitP /\ -n \in Int
  BY <1>1, SMT
<1>3. -(amount * n) <= x
  BY <1>2, ScaleMonotone
<1>4. MaxGainP * Precision \in Int
  BY <1>1, SMT
<1>5. x <= (MaxGainP * Precision) * amount
  BY <1>2, <1>4, ScaleMonotone
<1> DEFINE y == MaxGainP * amount
<1>6. y \in Nat /\ (MaxGainP * Precision) * amount = y * Precision
  BY <1>1, SMT
<1> HIDE DEF x, n
<1>7. q \in Int /\ -amount <= q
  <2>1. q \in Int
    BY <1>1, QuotientSigned
  <2>2. -(amount * n) <= x => -amount <= q
    BY <1>1, QuotientBounds
  <2> QED
    BY <1>3, <2>1, <2>2
<1>8. 100 * q <= y
  <2>1. CASE x < 0
    <3>1. q <= 0
      BY <1>1, <2>1, QuotientSigned
    <3> QED
      BY <3>1, <1>6, <1>7, SMT DEF q
  <2>2. CASE x >= 0
    <3>1. q * n <= x
      BY <1>1, <2>2, QuotientSigned
    <3> HIDE DEF q, y
    <3>2. q * n = (100 * q) * Precision
      BY <1>1, <1>7, SMT
    <3>3. y * Precision \in Nat /\ (y + 1) * Precision = y * Precision + Precision
      BY <1>1, <1>6, SMT
    <3>4. (100 * q) * Precision < (y + 1) * Precision
      BY <1>1, <1>5, <1>6, <1>7, <3>1, <3>2, <3>3, SMT
    <3>5. 100 * q < y + 1
      BY <1>1, <1>6, <1>7, <3>4, CancelFactor
    <3> QED
      BY <1>6, <1>7, <3>5, SMT
  <2> QED
    BY <1>1, <2>1, <2>2, SMT
<1> QED
  BY <1>7, <1>8 DEF Pnl, q, x, n, y

\* Protection only lowers a loss.
LEMMA ProtectedInRange ==
    ASSUME PositionAssumption, NEW amount \in Nat, NEW profitP \in Int,
           -(100 * Precision) <= profitP, profitP <= MaxGainP * Precision,
           NEW protection \in Protections
    PROVE  /\ ProtectedPnl(amount, profitP, protection) \in Int
           /\ 100 * ProtectedPnl(amount, profitP, protection) <= MaxGainP * amount
<1> DEFINE pnl == Pnl(amount, profitP)
<1>1. pnl \in Int /\ 100 * pnl <= MaxGainP * amount
  BY PnlInRange
<1>2. protection \in Nat /\ MaxGainP * amount \in Nat
  BY SMT DEF PositionAssumption
<1>3. ProtectedPnl(amount, profitP, protection) =
        IF pnl < 0 THEN Quotient(pnl * protection, 100) ELSE pnl
  BY DEF ProtectedPnl
<1> HIDE DEF pnl
<1>4. CASE pnl < 0
  <2>1. pnl * protection \in Int /\ pnl * protection <= 0
    BY <1>1, <1>2, <1>4, ScaleMonotone, SMT
  <2>2. Quotient(pnl * protection, 100) \in Int /\ Quotient(pnl * protection, 100) <= 0
    <3>1. 100 \in Nat \ {0} /\ 0 \in Nat /\ pnl * protection <= 0 * 100
      BY <2>1, SMT
    <3> QED
      BY <2>1, <3>1, QuotientSigned, QuotientBounds
  <2> QED
    BY <1>2, <1>3, <1>4, <2>2, SMT
<1>5. CASE ~(pnl < 0)
  BY <1>1, <1>3, <1>5
<1> QED
  BY <1>4, <1>5

\* A trade's value is a natural number, within the maximal gain.
LEMMA ValueInRange ==
    ASSUME PositionAssumption, NEW t \in Trades, NEW amount \in Nat, NEW profitP \in Int,
           -(100 * Precision) <= profitP, profitP <= MaxGainP * Precision,
           NEW fees \in Nat
    PROVE  /\ TradeValue(t, amount, profitP, fees).value \in Nat
           /\ 100 * TradeValue(t, amount, profitP, fees).value <= (100 + MaxGainP) * amount
<1> DEFINE pnl   == ProtectedPnl(amount, profitP, t.protection)
           value == amount + pnl - fees
           floor == (amount * (100 - LiqThreshold)) \div 100
<1>1. t.protection \in Protections
  BY DEF Trades
<1>2. pnl \in Int /\ 100 * pnl <= MaxGainP * amount
  BY <1>1, ProtectedInRange
<1>3. floor \in Nat
  <2>1. amount * (100 - LiqThreshold) \in Nat
    <3>1. 100 - LiqThreshold \in Nat
      BY SMT DEF PositionAssumption
    <3> QED
      BY <3>1, ProductMonotone
  <2> QED
    BY <2>1, Down
<1>4. MaxGainP \in Nat /\ MaxGainP * amount \in Nat
      /\ (100 + MaxGainP) * amount = 100 * amount + MaxGainP * amount
  BY SMT DEF PositionAssumption
<1>5. TradeValue(t, amount, profitP, fees).value = IF value <= floor THEN 0 ELSE value
  BY DEF TradeValue
<1> HIDE DEF pnl, floor
<1> QED
  BY <1>2, <1>3, <1>4, <1>5, SMT

\* A leveraged amount is a natural number, and so is what it owes.
LEMMA LeveragedIsNat ==
    ASSUME PositionAssumption, NEW amount \in Nat, NEW lev \in Nat
    PROVE  Mul(amount, lev) \in Nat
<1>1. amount * lev \in Nat /\ Precision \in Nat \ {0}
  BY ProductMonotone DEF PositionAssumption
<1> QED
  BY <1>1, Down DEF Mul

\* So is the rollover fee of an amount.
LEMMA RolloverIsNat ==
    ASSUME PositionAssumption, accrued \in Nat, NEW t \in Trades, NEW amount \in Nat
    PROVE  Rollover(t, amount) \in Nat
<1>1. Mul(amount, t.lev) \in Nat /\ Precision \in Nat \ {0}
  BY LeveragedIsNat DEF Trades, PositionAssumption
<1>2. accrued * Mul(amount, t.lev) \in Nat
  BY <1>1, ProductMonotone
<1> QED
  BY <1>1, <1>2, Down DEF Rollover

\* The price of an opening is positive: the spread is less than all of it.
LEMMA ExecutionPriceIsPositive ==
    ASSUME PositionAssumption, NEW price \in Nat \ {0}, NEW spread \in Spreads,
           NEW buy \in BOOLEAN
    PROVE  ExecutionPrice(price, spread, buy) \in Nat \ {0}
<1> DEFINE n == 100 * Precision
           x == price * spread
           q == Quotient(x, n)
<1>1. n \in Nat \ {0} /\ spread \in Int /\ spread \in 1 - n .. n - 1
  BY SMT DEF PositionAssumption
<1> HIDE DEF n
<1>2. x \in Int /\ x = spread * price
  BY <1>1, SMT
<1>3. x <= (n - 1) * price /\ (1 - n) * price <= x
  <2>1. n - 1 \in Int /\ 1 - n \in Int /\ spread <= n - 1 /\ 1 - n <= spread
    BY <1>1, SMT
  <2> QED
    BY <2>1, <1>1, <1>2, ScaleMonotone
<1>4. (n - 1) * price = price * n - price /\ (1 - n) * price = price - price * n
      /\ (-price) * n = -(price * n) /\ price * n \in Nat
  BY <1>1, SMT
<1>5. x < price * n /\ (-price) * n < x
  BY <1>2, <1>3, <1>4, SMT
<1> HIDE DEF x
<1>6. /\ q \in Int
      /\ x >= 0 => q >= 0 /\ q * n <= x
      /\ x < 0  => q <= 0 /\ x <= q * n
  BY <1>1, <1>2, QuotientSigned
<1> HIDE DEF q
<1>7. -price < q /\ q < price
  <2>1. CASE x >= 0
    <3>1. q * n < price * n
      BY <1>1, <1>2, <1>4, <1>5, <1>6, <2>1, SMT
    <3>2. q < price
      BY <1>1, <1>6, <3>1, CancelFactor
    <3> QED
      BY <1>6, <2>1, <3>2, SMT
  <2>2. CASE x < 0
    <3>1. (-price) * n < q * n
      BY <1>1, <1>2, <1>4, <1>5, <1>6, <2>2, SMT
    <3>2. -price < q
      BY <1>1, <1>6, <3>1, CancelFactor
    <3> QED
      BY <1>6, <2>2, <3>2, SMT
  <2> QED
    BY <1>2, <2>1, <2>2, SMT
<1>8. ExecutionPrice(price, spread, buy) = IF buy THEN price + q ELSE price - q
  BY DEF ExecutionPrice, q, x, n
<1> QED
  BY <1>6, <1>7, <1>8, SMT

-----------------------------------------------------------------------------
(* Stops and fees of a trade with a price and a leverage. *)

Leveraged(lev) == lev \in Nat \ {0} /\ Precision <= lev

\* A corrected take profit is a price.
LEMMA CorrectTpIsNat ==
    ASSUME PositionAssumption, NEW open \in Nat, NEW lev, Leveraged(lev), NEW tp \in Nat,
           NEW buy \in BOOLEAN
    PROVE  CorrectTp(open, lev, tp, buy) \in Nat
<1> DEFINE diff == Div(open * MaxGainP, lev) \div 100
<1>1. open * MaxGainP * Precision \in Nat
  BY SMT DEF PositionAssumption
<1>2. Div(open * MaxGainP, lev) \in Nat
  BY <1>1, Down DEF Div, Leveraged
<1>3. diff \in Nat
  BY <1>2, Down
<1>4. \/ CorrectTp(open, lev, tp, buy) = tp
      \/ CorrectTp(open, lev, tp, buy)
           = IF buy THEN open + diff ELSE IF diff <= open THEN open - diff ELSE 0
  BY DEF CorrectTp
<1> HIDE DEF diff
<1> QED
  BY <1>3, <1>4, SMT

\* The largest distance of a stop loss is within the price.
LEMMA SlDistance ==
    ASSUME PositionAssumption, NEW open \in Nat, NEW lev, Leveraged(lev)
    PROVE  Div(open * MaxSlP, lev) \div 100 \in 0 .. open
<1> DEFINE x == open * MaxSlP * Precision
           d == Div(open * MaxSlP, lev)
<1>1. /\ MaxSlP \in Nat /\ MaxSlP <= 100 /\ Precision \in Nat /\ Precision <= lev
      /\ lev \in Nat \ {0}
  BY SMT DEF PositionAssumption, Leveraged
<1>2. x \in Nat /\ x <= (open * 100) * lev
  <2>1. MaxSlP * Precision \in Nat /\ MaxSlP * Precision <= 100 * Precision
    BY <1>1, ProductMonotone, SMT
  <2>2. 100 * Precision <= 100 * lev /\ 100 * lev \in Nat
    BY <1>1, SMT
  <2>3. MaxSlP * Precision <= 100 * lev
    BY <1>1, <2>1, <2>2, SMT
  <2>4. (MaxSlP * Precision) * open \in Nat
        /\ (MaxSlP * Precision) * open <= (100 * lev) * open
    BY <2>1, <2>2, <2>3, ProductMonotone
  <2>5. x = (MaxSlP * Precision) * open /\ (100 * lev) * open = (open * 100) * lev
    BY <1>1, SMT
  <2> QED
    BY <2>4, <2>5
<1>3. d = x \div lev
  BY DEF Div
<1> HIDE DEF x, d
<1>4. d \in Nat /\ d <= open * 100
  <2>1. open * 100 \in Nat
    BY SMT
  <2> QED
    BY <1>1, <1>2, <1>3, <2>1, Down, DownAtMost
<1>5. d \div 100 \in Nat /\ d \div 100 <= open
  BY <1>4, Down, DownAtMost
<1> QED
  BY <1>5, SMT DEF d

\* A corrected stop loss is a price.
LEMMA CorrectSlIsNat ==
    ASSUME PositionAssumption, NEW open \in Nat, NEW lev, Leveraged(lev), NEW sl \in Nat,
           NEW buy \in BOOLEAN
    PROVE  CorrectSl(open, lev, sl, buy) \in Nat
<1> DEFINE diff == Div(open * MaxSlP, lev) \div 100
<1>1. diff \in 0 .. open
  BY SlDistance
<1>2. \/ CorrectSl(open, lev, sl, buy) = sl
      \/ CorrectSl(open, lev, sl, buy) = IF buy THEN open - diff ELSE open + diff
  BY DEF CorrectSl
<1> HIDE DEF diff
<1> QED
  BY <1>1, <1>2, SMT

\* A closing fee is never negative, since nothing is worth less than nothing.
LEMMA ClosingFeeIsNat ==
    ASSUME PositionAssumption, NEW t \in Trades, t.open > 0, NEW amount \in Nat,
           NEW price \in Nat
    PROVE  ClosingFee(t, amount, price) \in Nat
<1> DEFINE profitP == ProfitAt(t, price)
           pnl == Pnl(amount, profitP)
<1>1. t.open \in Nat \ {0} /\ t.buy \in BOOLEAN /\ t.lev \in Nat /\ price \in Int
  BY SMT DEF Trades
<1>2. profitP \in Int /\ -(100 * Precision) <= profitP /\ profitP <= MaxGainP * Precision
  BY <1>1, ProfitInRange, ZenonT(60) DEF ProfitAt
<1> HIDE DEF profitP
<1>3. pnl \in Int /\ -amount <= pnl
  BY <1>2, PnlInRange
<1>4. amount + pnl \in Nat
  BY <1>3, SMT
<1>5. Mul(amount + pnl, t.lev) \in Nat
  BY <1>1, <1>4, LeveragedIsNat
<1>6. Mul(amount + pnl, t.lev) * CloseFeeP \in Nat /\ 100 * Precision \in Nat \ {0}
  BY <1>5, ProductMonotone, SMT DEF PositionAssumption
<1> QED
  BY <1>6, Down DEF ClosingFee, pnl, profitP

\* So are the executor's reward and what liquidating costs.
LEMMA ExecutionFeesAreNat ==
    ASSUME PositionAssumption, NEW t \in Trades
    PROVE  /\ StopReward(t) \in Nat /\ LiquidationReward(t) \in Nat
           /\ LiquidationFee(t) \in Nat
<1>1. t.coll \in Nat
  BY DEF Trades
<1>2. LiquidationReward(t) \in Nat
  <2>1. t.coll * LiqFeeP \in Nat
    BY <1>1, ProductMonotone DEF PositionAssumption
  <2> QED
    BY <2>1, Down DEF LiquidationReward
<1>3. LiquidationFee(t) \in Nat
  <2>1. LiqTotalFeeP - LiqFeeP \in Nat
    BY SMT DEF PositionAssumption
  <2>2. LiquidationReward(t) * (LiqTotalFeeP - LiqFeeP) \in Nat
    BY <1>2, <2>1, ProductMonotone
  <2> QED
    BY <2>2, Down DEF LiquidationFee, PositionAssumption
<1>4. StopReward(t) \in Nat
  <2> DEFINE reward == (t.coll * LimitFeeP) \div (100 * Precision)
  <2>1. t.coll * LimitFeeP \in Nat /\ 100 * Precision \in Nat \ {0}
    BY <1>1, ProductMonotone, SMT DEF PositionAssumption
  <2>2. reward \in Nat
    BY <2>1, Down
  <2>3. StopReward(t) = IF reward > MaxExecReward THEN MaxExecReward ELSE reward
    BY DEF StopReward
  <2> QED
    BY <2>2, <2>3 DEF PositionAssumption
<1> QED
  BY <1>2, <1>3, <1>4

\* A stop is executed at a price.
LEMMA StopPriceIsNat ==
    ASSUME NEW t \in Trades, NEW type, NEW price \in Nat
    PROVE  StopPrice(t, type, price) \in Nat
<1>1. t.tp \in Nat /\ t.sl \in Nat
  BY DEF Trades
<1> QED
  BY <1>1 DEF StopPrice

-----------------------------------------------------------------------------
(* The invariant. *)

\* A trade has been opened at a price, at a leverage within the limits.
Priced == IsTrade => trade.open > 0 /\ trade.lev \in MinLeverage .. MaxLeverage

IInv == TypeOK /\ Priced /\ PayoutsWithinMaxGain

\* What is known of the trade.
LEMMA TradeFacts ==
    ASSUME PositionAssumption, TypeOK, Priced, IsTrade
    PROVE  /\ trade \in Trades /\ trade.open \in Nat \ {0} /\ Leveraged(trade.lev)
           /\ trade.pair \in Pairs /\ trade.buy \in BOOLEAN
           /\ trade.coll \in Nat /\ trade.oi \in Nat /\ trade.lev \in Nat
           /\ trade.tp \in Nat /\ trade.sl \in Nat /\ trade.protection \in Protections
<1>1. trade \in Trades
  BY DEF TypeOK, IsTrade
<1>2. Leveraged(trade.lev)
  <2>1. trade.lev \in MinLeverage .. MaxLeverage
    BY DEF Priced
  <2> QED
    BY <2>1, SMT DEF PositionAssumption, Leveraged
<1> QED
  BY <1>1, <1>2 DEF Trades, Priced

\* The aggregator answers with a price or 0.
LEMMA AnswersAreNat ==
    ASSUME PositionAssumption
    PROVE  Answers \subseteq Nat /\ LiquidationAnswers \subseteq Nat
<1>1. Prices \subseteq Nat /\ 0 \in Nat
  BY DEF PositionAssumption
<1>2. PythPrices \subseteq Prices
  BY DEF PythPrices
<1> QED
  BY <1>1, <1>2, Zenon DEF Answers, LiquidationAnswers

\* What counts a step.
LEMMA StepType ==
    ASSUME PositionAssumption, TypeOK, Step
    PROVE  steps' \in 0 .. MaxSteps
BY SMT DEF TypeOK, Step, PositionAssumption

\* A payout of at most the maximal gain on what the trade loses.
LEMMA PayoutCovered ==
    ASSUME NEW k \in Int, NEW out \in Int, NEW coll \in Int, NEW money \in Int,
           100 * out + k * coll <= k * money,
           NEW value \in Int, NEW left \in Int, 100 * value + k * left <= k * coll
    PROVE  100 * (out + value) + k * left <= k * money
<1> DEFINE x == k * coll
           y == k * left
           z == k * money
<1>1. x \in Int /\ y \in Int /\ z \in Int
  BY SMT
<1>2. 100 * out + x <= z /\ 100 * value + y <= x
  OBVIOUS
<1> HIDE DEF x, y, z
<1>3. 100 * (out + value) + y <= z
  BY <1>1, <1>2, SMT
<1> QED
  BY <1>3 DEF y, z

\* Without a trade, or without any change of it.
LEMMA PayoutAfter ==
    ASSUME PositionAssumption, IInv, NEW value \in Nat, NEW left \in Nat,
           100 * value + (100 + MaxGainP) * left <= (100 + MaxGainP) * trade.coll,
           paidOut' = paidOut + value, trade'.coll = left, UNCHANGED <<paidIn, unpaid>>
    PROVE  PayoutsWithinMaxGain'
<1> DEFINE k == 100 + MaxGainP
           money == paidIn + unpaid
<1>1. trade.coll \in Nat
  BY DEF IInv, TypeOK, Trades, NoTrade
<1>2. k \in Int /\ paidOut \in Int /\ money \in Int
  BY SMT DEF IInv, TypeOK, PositionAssumption
<1>3. 100 * paidOut + k * trade.coll <= k * money
  BY DEF IInv, PayoutsWithinMaxGain
<1>4. money' = money
  OBVIOUS
<1>5. 100 * (paidOut + value) + k * left <= k * money
  <2>1. 100 * value + k * left <= k * trade.coll
    OBVIOUS
  <2> HIDE DEF k, money
  <2> QED
    BY <1>1, <1>2, <1>3, <2>1, PayoutCovered, SMT
<1> QED
  BY <1>4, <1>5 DEF PayoutsWithinMaxGain

\* Closing keeps the invariant: the payout is within the gain of the amount, and
\* the fees are not negative.
LEMMA UnregisterKeeps ==
    ASSUME PositionAssumption, IInv, IsTrade, NEW amount \in Nat, NEW price \in Nat,
           NEW fee \in Nat, NEW reward \in Nat,
           UnregisterTrade(amount, price, fee, reward)
    PROVE  IInv'
<1> DEFINE fees    == Rollover(trade, amount) + fee + reward
           reduced == amount + fees
           profitP == ProfitAt(trade, price)
           value   == TradeValue(trade, amount, profitP, fees).value
           k       == 100 + MaxGainP
<1>1. /\ trade \in Trades /\ trade.open \in Nat \ {0} /\ trade.buy \in BOOLEAN
      /\ trade.coll \in Nat /\ trade.oi \in Nat /\ trade.lev \in Nat
  BY TradeFacts DEF IInv
<1>2. accrued \in Nat /\ paidOut \in Nat
  BY SMT DEF IInv, TypeOK, PositionAssumption
<1>3. fees \in Nat /\ reduced \in Nat /\ amount <= reduced
  <2>1. Rollover(trade, amount) \in Nat
    BY <1>1, <1>2, RolloverIsNat
  <2> QED
    BY <2>1, SMT
<1>4. profitP \in Int /\ -(100 * Precision) <= profitP /\ profitP <= MaxGainP * Precision
  <2>1. price \in Int
    BY SMT
  <2> QED
    BY <1>1, <2>1, ProfitInRange, ZenonT(60) DEF ProfitAt
<1>5. /\ Step
      /\ paidOut' = paidOut + value
      /\ UNCHANGED <<useBackupOnly, paidIn, unpaid>>
      /\ \/ amount = trade.coll /\ trade' = NoTrade /\ accrued' = 0
         \/ /\ reduced <= trade.coll /\ Mul(reduced, trade.lev) <= trade.oi
            /\ trade' = [trade EXCEPT !.coll = trade.coll - reduced,
                                      !.oi = trade.oi - Mul(reduced, trade.lev)]
            /\ accrued' = accrued
  BY DEF UnregisterTrade
<1> HIDE DEF fees, profitP
<1>6. value \in Nat /\ 100 * value <= k * amount
  BY <1>1, <1>3, <1>4, ValueInRange
<1>7. k \in Nat /\ Mul(reduced, trade.lev) \in Nat
  <2>1. k \in Nat
    BY SMT DEF PositionAssumption
  <2> HIDE DEF k, reduced
  <2> QED
    BY <1>1, <1>3, <2>1, LeveragedIsNat
<1> HIDE DEF value, reduced, k
<1>8. /\ steps' \in 0 .. MaxSteps /\ useBackupOnly' \in BOOLEAN /\ paidIn' \in Nat
      /\ paidOut' \in Nat /\ unpaid' \in Int
  BY <1>2, <1>5, <1>6, StepType, SMT DEF IInv, TypeOK
<1>9. CASE amount = trade.coll /\ trade' = NoTrade /\ accrued' = 0
  <2>1. trade'.coll = 0 /\ 0 \in Nat
    BY <1>9 DEF NoTrade
  <2>2. 100 * value + k * 0 <= k * trade.coll
    BY <1>6, <1>7, <1>9, SMT
  <2>3. PayoutsWithinMaxGain'
    BY <1>5, <1>6, <2>1, <2>2, PayoutAfter DEF k
  <2>4. TypeOK'
    <3>1. accrued' \in 0 .. MaxAccrued
      BY <1>9, SMT DEF PositionAssumption
    <3> QED
      BY <1>8, <1>9, <3>1 DEF TypeOK
  <2>5. Priced'
    BY <1>9 DEF Priced, IsTrade
  <2> QED
    BY <2>3, <2>4, <2>5 DEF IInv
<1>10. CASE /\ reduced <= trade.coll /\ Mul(reduced, trade.lev) <= trade.oi
            /\ trade' = [trade EXCEPT !.coll = trade.coll - reduced,
                                      !.oi = trade.oi - Mul(reduced, trade.lev)]
            /\ accrued' = accrued
  <2> DEFINE left == trade.coll - reduced
             oi   == trade.oi - Mul(reduced, trade.lev)
  <2>1. left \in Nat /\ oi \in Nat
    BY <1>1, <1>3, <1>7, <1>10, SMT
  <2>2. trade' = [trade EXCEPT !.coll = left, !.oi = oi]
    BY <1>10
  <2> HIDE DEF left, oi
  <2>3. /\ trade' \in Trades /\ trade'.coll = left
        /\ trade'.open = trade.open /\ trade'.lev = trade.lev
    BY <1>1, <2>1, <2>2 DEF Trades
  <2>4. 100 * value + k * left <= k * trade.coll
    <3>1. k * left = k * trade.coll - k * reduced
      BY <1>1, <1>3, <1>7, SMT DEF left
    <3>2. k * amount <= k * reduced /\ k * reduced \in Nat /\ k * amount \in Nat
      <4>1. amount * k <= reduced * k /\ reduced * k \in Nat /\ amount * k \in Nat
        BY <1>3, <1>7, ProductMonotone
      <4> QED
        BY <4>1, <1>3, <1>7, SMT
    <3>3. k * trade.coll \in Nat
      BY <1>1, <1>7, ProductMonotone
    <3> QED
      BY <3>1, <3>2, <3>3, <1>6, SMT
  <2>5. PayoutsWithinMaxGain'
    BY <1>5, <1>6, <2>1, <2>3, <2>4, PayoutAfter DEF k
  <2>6. TypeOK'
    BY <1>8, <1>10, <2>3 DEF TypeOK, IInv
  <2>7. Priced'
    BY <2>3 DEF Priced, IsTrade, IInv
  <2> QED
    BY <2>5, <2>6, <2>7 DEF IInv
<1> QED
  BY <1>5, <1>9, <1>10

\* An opened trade is well formed, and its collateral is the trader's.
LEMMA RegisterKeeps ==
    ASSUME PositionAssumption, IInv, NEW pair \in Pairs, NEW buy \in BOOLEAN,
           NEW open \in Nat \ {0}, NEW coll \in Collaterals, NEW lev \in Leverages,
           NEW tp \in Tps, NEW sl \in Sls, NEW protection \in Protections,
           RegisterTrade(pair, buy, open, coll, lev, tp, sl, protection)
    PROVE  IInv'
<1>1. /\ coll \in Nat /\ lev \in MinLeverage .. MaxLeverage /\ tp \in Nat /\ sl \in Nat
      /\ MaxGainP \in Nat /\ 0 \in 0 .. MaxAccrued
  BY SMT DEF PositionAssumption
<1>2. Leveraged(lev) /\ lev \in Nat
  BY <1>1, SMT DEF PositionAssumption, Leveraged
<1>3. /\ CorrectTp(open, lev, tp, buy) \in Nat /\ CorrectSl(open, lev, sl, buy) \in Nat
      /\ Mul(coll, lev) \in Nat
  BY <1>1, <1>2, CorrectTpIsNat, CorrectSlIsNat, LeveragedIsNat
<1>4. /\ trade' \in Trades /\ trade'.open = open /\ trade'.lev = lev /\ trade'.coll = coll
  BY <1>1, <1>2, <1>3 DEF RegisterTrade, Trades
<1>5. /\ trade = NoTrade /\ accrued' = 0 /\ paidIn' = paidIn + coll /\ Step
      /\ UNCHANGED <<useBackupOnly, paidOut, unpaid>>
  BY DEF RegisterTrade, IsTrade
<1>6. TypeOK'
  <2>1. steps' \in 0 .. MaxSteps /\ paidIn' \in Nat
    BY <1>1, <1>5, StepType, SMT DEF IInv, TypeOK
  <2> QED
    BY <1>1, <1>4, <1>5, <2>1 DEF IInv, TypeOK
<1>7. Priced'
  BY <1>1, <1>4, SMT DEF Priced
<1>8. PayoutsWithinMaxGain'
  <2> DEFINE k == 100 + MaxGainP
             money == paidIn + unpaid
  <2>1. k \in Int /\ money \in Int /\ paidOut \in Int
    BY <1>1, SMT DEF IInv, TypeOK
  <2>2. 100 * paidOut + k * 0 <= k * money
    BY <1>5 DEF IInv, PayoutsWithinMaxGain, NoTrade
  <2>3. paidIn' + unpaid' = money + coll /\ paidOut' = paidOut
    BY <1>1, <1>5, SMT DEF IInv, TypeOK
  <2> HIDE DEF k, money
  <2>4. k * (money + coll) = k * money + k * coll /\ k * money \in Int /\ k * coll \in Int
    BY <1>1, <2>1, SMT
  <2>5. 100 * paidOut + k * coll <= k * (money + coll)
    BY <2>1, <2>2, <2>4, SMT
  <2> QED
    BY <1>4, <2>3, <2>5 DEF PayoutsWithinMaxGain, k
<1> QED
  BY <1>6, <1>7, <1>8 DEF IInv

\* Openings, at market and at a limit, keep the invariant.
LEMMA OpenKeeps ==
    ASSUME PositionAssumption, IInv, Open
    PROVE  IInv'
<1>1. PICK pair \in Pairs, buy \in BOOLEAN, coll \in Collaterals, lev \in Leverages,
           tp \in Tps, sl \in Sls, protection \in Protections, wanted \in Wanted,
           spread \in Spreads, price \in Answers :
        \/ OpenMarket(pair, buy, coll, lev, tp, sl, protection, wanted, spread, price)
        \/ \E reversal \in BOOLEAN :
             OpenLimit(pair, buy, coll, lev, tp, sl, protection, wanted, spread, price,
                       reversal)
  BY DEF Open
<1> DEFINE open == ExecutionPrice(price, spread, buy)
<1>2. RegisterTrade(pair, buy, open, coll, lev, tp, sl, protection) /\ price > 0
  BY <1>1 DEF OpenMarket, OpenLimit
<1>3. price \in Nat \ {0}
  <2>1. price \in Nat
    BY AnswersAreNat
  <2> QED
    BY <1>2, <2>1, SMT
<1>4. open \in Nat \ {0}
  BY <1>3, ExecutionPriceIsPositive
<1> HIDE DEF open
<1> QED
  BY <1>2, <1>4, RegisterKeeps

\* The margin of the trade changes, and what the trader has sent, was paid or
\* was credited changes by as much or more.
LEMMA MarginKeepsPayouts ==
    ASSUME NEW k \in Nat, 100 <= k, NEW out \in Int, NEW coll \in Nat, NEW money \in Int,
           100 * out + k * coll <= k * money,
           NEW amount \in Nat, NEW fee \in Nat
    PROVE  /\ 100 * out + k * ((coll + amount) - fee) <= k * (money + amount)
           /\ 100 * (out + amount) + k * (coll - amount - fee) <= k * money
           /\ 100 * out + k * (coll - amount - fee) <= k * (money - amount)
<1> DEFINE a == k * amount
           f == k * fee
           c == k * coll
           m == k * money
<1>1. a \in Nat /\ f \in Nat /\ c \in Int /\ m \in Int /\ 100 * out + c <= m
  BY SMT
<1>2. 100 * amount <= a
  <2>1. 100 * amount <= k * amount
    BY ProductMonotone
  <2> QED
    BY <2>1
<1>3. /\ k * ((coll + amount) - fee) = c + a - f
      /\ k * (coll - amount - fee) = c - a - f
      /\ k * (money + amount) = m + a /\ k * (money - amount) = m - a
  BY SMT
<1> HIDE DEF a, f, c, m
<1> QED
  BY <1>1, <1>2, <1>3, SMT

\* A change of margin keeps the invariant, with a price or without.
LEMMA UpdateMarginKeeps ==
    ASSUME PositionAssumption, IInv, NEW deposit \in BOOLEAN, NEW amount \in Margins,
           NEW price \in Nat, UpdateMargin(deposit, amount, price)
    PROVE  IInv'
<1> DEFINE fee  == Rollover(trade, trade.coll)
           coll == (IF deposit THEN trade.coll + amount ELSE trade.coll - amount) - fee
           lev  == Div(trade.oi, coll)
           k    == 100 + MaxGainP
           money == paidIn + unpaid
<1>1. /\ trade \in Trades /\ trade.open \in Nat \ {0} /\ trade.coll \in Nat
      /\ IsTrade
  BY TradeFacts DEF IInv, UpdateMargin
<1>2. /\ accrued \in Nat /\ paidOut \in Nat /\ paidIn \in Nat /\ unpaid \in Int
      /\ amount \in Nat /\ 0 \in 0 .. MaxAccrued /\ k \in Nat /\ 100 <= k
  BY SMT DEF IInv, TypeOK, PositionAssumption
<1>3. fee \in Nat
  BY <1>1, <1>2, RolloverIsNat
<1>4. /\ Step /\ coll > 0 /\ lev \in MinLeverage .. MaxLeverage
      /\ trade' = [trade EXCEPT !.coll = coll, !.lev = lev]
      /\ accrued' = 0 /\ useBackupOnly' = useBackupOnly
      /\ paidIn' = IF price > 0 /\ deposit THEN paidIn + amount ELSE paidIn
      /\ paidOut' = IF price > 0 /\ ~deposit THEN paidOut + amount ELSE paidOut
      /\ unpaid' = CASE price > 0 -> unpaid
                     [] price = 0 /\ deposit -> unpaid + amount
                     [] price = 0 /\ ~deposit -> unpaid - amount
  <2>1. [trade EXCEPT !.coll = coll, !.lev = lev].lev = lev
    BY <1>1 DEF Trades
  <2> QED
    BY <2>1 DEF UpdateMargin
<1>5. coll \in Nat /\ lev \in Nat
  <2>1. lev \in Nat
    BY <1>4, SMT DEF PositionAssumption
  <2> HIDE DEF lev, fee
  <2> QED
    BY <1>1, <1>2, <1>3, <1>4, <2>1, SMT
<1>6. 100 * paidOut + k * trade.coll <= k * money
  BY DEF IInv, PayoutsWithinMaxGain
<1>7. /\ 100 * paidOut + k * ((trade.coll + amount) - fee) <= k * (money + amount)
      /\ 100 * (paidOut + amount) + k * (trade.coll - amount - fee) <= k * money
      /\ 100 * paidOut + k * (trade.coll - amount - fee) <= k * (money - amount)
  <2>1. money \in Int /\ paidOut \in Int
    BY <1>2, SMT
  <2> HIDE DEF k, money, fee
  <2> QED
    BY <1>1, <1>2, <1>3, <1>6, <2>1, MarginKeepsPayouts
<1> HIDE DEF lev
<1>8. /\ trade' \in Trades /\ trade'.coll = coll
      /\ trade'.open = trade.open /\ trade'.lev = lev
  <2> HIDE DEF coll
  <2> QED
    BY <1>1, <1>4, <1>5 DEF Trades
<1> HIDE DEF fee
<1>9. PayoutsWithinMaxGain'
  <2>1. CASE price > 0 /\ deposit
    <3>1. /\ paidOut' = paidOut /\ paidIn' + unpaid' = money + amount
          /\ trade'.coll = (trade.coll + amount) - fee
      <4>1. paidOut' = paidOut /\ paidIn' = paidIn + amount /\ unpaid' = unpaid
        BY <1>4, <2>1
      <4>2. paidIn' + unpaid' = money + amount
        BY <1>2, <4>1, SMT
      <4>3. trade'.coll = (trade.coll + amount) - fee
        BY <1>8, <2>1
      <4> QED
        BY <4>1, <4>2, <4>3
    <3> QED
      BY <1>7, <3>1 DEF PayoutsWithinMaxGain
  <2>2. CASE price > 0 /\ ~deposit
    <3>1. /\ paidOut' = paidOut + amount /\ paidIn' + unpaid' = money
          /\ trade'.coll = trade.coll - amount - fee
      BY <1>4, <1>8, <2>2
    <3> QED
      BY <1>7, <3>1 DEF PayoutsWithinMaxGain
  <2>3. CASE price = 0 /\ deposit
    <3>1. /\ paidOut' = paidOut /\ paidIn' + unpaid' = money + amount
          /\ trade'.coll = (trade.coll + amount) - fee
      <4>1. paidOut' = paidOut /\ paidIn' = paidIn /\ unpaid' = unpaid + amount
        BY <1>4, <2>3, SMT
      <4>2. paidIn' + unpaid' = money + amount
        BY <1>2, <4>1, SMT
      <4>3. trade'.coll = (trade.coll + amount) - fee
        BY <1>8, <2>3
      <4> QED
        BY <4>1, <4>2, <4>3
    <3> QED
      BY <1>7, <3>1 DEF PayoutsWithinMaxGain
  <2>4. CASE price = 0 /\ ~deposit
    <3>1. /\ paidOut' = paidOut /\ paidIn' + unpaid' = money - amount
          /\ trade'.coll = trade.coll - amount - fee
      <4>1. paidOut' = paidOut /\ paidIn' = paidIn /\ unpaid' = unpaid - amount
        BY <1>4, <2>4, SMT
      <4>2. paidIn' + unpaid' = money - amount
        BY <1>2, <4>1, SMT
      <4>3. trade'.coll = trade.coll - amount - fee
        BY <1>8, <2>4
      <4> QED
        BY <4>1, <4>2, <4>3
    <3> QED
      BY <1>7, <3>1 DEF PayoutsWithinMaxGain
  <2>5. price > 0 \/ price = 0
    BY SMT
  <2> QED
    BY <2>1, <2>2, <2>3, <2>4, <2>5
<1>10. TypeOK'
  <2>1. paidIn' \in Nat /\ paidOut' \in Nat
    BY <1>2, <1>4, SMT
  <2>2. unpaid' \in Int
    BY <1>2, <1>4, SMT
  <2>3. steps' \in 0 .. MaxSteps
    BY <1>4, StepType DEF IInv
  <2> QED
    BY <1>2, <1>4, <1>8, <2>1, <2>2, <2>3 DEF IInv, TypeOK
<1>11. Priced'
  BY <1>1, <1>4, <1>8, SMT DEF Priced
<1> QED
  BY <1>9, <1>10, <1>11 DEF IInv

\* A payout of nothing leaves room for a smaller trade.
LEMMA SmallerKeepsPayouts ==
    ASSUME PositionAssumption, IInv, IsTrade, trade'.coll \in Nat,
           trade'.coll <= trade.coll, UNCHANGED <<paidIn, paidOut, unpaid>>
    PROVE  PayoutsWithinMaxGain'
<1> DEFINE k == 100 + MaxGainP
           left == trade'.coll
<1>1. trade.coll \in Nat
  BY TradeFacts DEF IInv
<1>2. k \in Nat /\ paidOut \in Nat
  BY SMT DEF PositionAssumption, IInv, TypeOK
<1>3. 100 * 0 + k * left <= k * trade.coll
  <2> HIDE DEF k
  <2>1. left * k <= trade.coll * k
    BY <1>1, <1>2, ProductMonotone
  <2>2. left * k = k * left /\ trade.coll * k = k * trade.coll /\ k * left \in Nat
    BY <1>1, <1>2, SMT
  <2> QED
    BY <2>1, <2>2, SMT
<1>4. paidOut' = paidOut + 0
  BY <1>2, SMT
<1> QED
  BY <1>3, <1>4, PayoutAfter DEF k, left

\* New stops are prices.
LEMMA UpdateTpKeeps ==
    ASSUME PositionAssumption, IInv, NEW tp \in Tps, UpdateTp(tp)
    PROVE  IInv'
<1> DEFINE new == CorrectTp(trade.open, trade.lev, tp, trade.buy)
<1>1. /\ IsTrade /\ Step /\ trade' = [trade EXCEPT !.tp = new]
      /\ UNCHANGED <<accrued, useBackupOnly, paidIn, paidOut, unpaid>>
  BY DEF UpdateTp
<1>2. /\ trade \in Trades /\ trade.open \in Nat /\ Leveraged(trade.lev)
      /\ trade.buy \in BOOLEAN /\ tp \in Nat /\ trade.coll \in Nat
  BY <1>1, TradeFacts DEF IInv, PositionAssumption
<1>3. new \in Nat
  BY <1>2, CorrectTpIsNat
<1> HIDE DEF new
<1>4. /\ trade' \in Trades /\ trade'.coll = trade.coll
      /\ trade'.open = trade.open /\ trade'.lev = trade.lev
  BY <1>1, <1>2, <1>3 DEF Trades
<1>5. PayoutsWithinMaxGain'
  BY <1>1, <1>2, <1>4, SmallerKeepsPayouts, SMT
<1>6. TypeOK'
  BY <1>1, <1>4, StepType DEF IInv, TypeOK
<1>7. Priced'
  BY <1>1, <1>4 DEF IInv, Priced
<1> QED
  BY <1>5, <1>6, <1>7 DEF IInv

\* Whether the stop is set or not, its fee only makes the trade smaller.
LEMMA UpdateSlKeeps ==
    ASSUME PositionAssumption, IInv, NEW sl \in Sls, NEW fee \in SlFees, NEW price \in Nat,
           UpdateSl(sl, fee, price)
    PROVE  IInv'
<1> DEFINE asked == sl > 0 /\ trade.pair \in Guaranteed
           set   == asked => price > 0 /\ AtOrBetter(trade.buy, price, sl)
           coll  == IF asked THEN trade.coll - fee ELSE trade.coll
           new   == IF set THEN CorrectSl(trade.open, trade.lev, sl, trade.buy)
                    ELSE trade.sl
<1>1. /\ IsTrade /\ Step /\ (asked => fee <= trade.coll)
      /\ trade' = [trade EXCEPT !.coll = coll, !.sl = new]
      /\ UNCHANGED <<accrued, useBackupOnly, paidIn, paidOut, unpaid>>
  BY DEF UpdateSl
<1>2. /\ trade \in Trades /\ trade.open \in Nat /\ Leveraged(trade.lev)
      /\ trade.buy \in BOOLEAN /\ sl \in Nat /\ fee \in Nat /\ trade.coll \in Nat
      /\ trade.sl \in Nat
  BY <1>1, TradeFacts DEF IInv, PositionAssumption
<1>3. CorrectSl(trade.open, trade.lev, sl, trade.buy) \in Nat
  BY <1>2, CorrectSlIsNat
<1>4. new \in Nat
  BY <1>2, <1>3, Zenon
<1> HIDE DEF new, set
<1>5. coll \in Nat /\ coll <= trade.coll
  <2> HIDE DEF asked
  <2>1. CASE asked
    BY <1>1, <1>2, <2>1, SMT
  <2>2. CASE ~asked
    BY <1>2, <2>2, SMT
  <2> QED
    BY <2>1, <2>2
<1> HIDE DEF coll, asked
<1>6. /\ trade' \in Trades /\ trade'.coll = coll
      /\ trade'.open = trade.open /\ trade'.lev = trade.lev
  BY <1>1, <1>2, <1>4, <1>5 DEF Trades
<1>7. PayoutsWithinMaxGain'
  BY <1>1, <1>5, <1>6, SmallerKeepsPayouts
<1>8. TypeOK'
  BY <1>1, <1>6, StepType DEF IInv, TypeOK
<1>9. Priced'
  BY <1>1, <1>6 DEF IInv, Priced
<1> QED
  BY <1>7, <1>8, <1>9 DEF IInv

\* The invariant holds at first.
LEMMA InitIInv == PositionAssumption /\ Init => IInv
<1> SUFFICES ASSUME PositionAssumption, Init PROVE IInv
  OBVIOUS
<1>1. /\ trade = NoTrade /\ accrued = 0 /\ useBackupOnly = FALSE /\ paidIn = 0
      /\ paidOut = 0 /\ unpaid = 0 /\ steps = 0 /\ trade.coll = 0
  BY DEF Init, NoTrade
<1>2. TypeOK
  <2>1. 0 \in 0 .. MaxAccrued /\ 0 \in 0 .. MaxSteps /\ 0 \in Nat /\ 0 \in Int
    BY SMT DEF PositionAssumption
  <2> QED
    BY <1>1, <2>1, Zenon DEF TypeOK
<1>3. Priced
  BY <1>1 DEF Priced, IsTrade
<1>4. PayoutsWithinMaxGain
  <2>1. MaxGainP \in Nat
    BY DEF PositionAssumption
  <2>2. 100 * 0 + (100 + MaxGainP) * 0 <= (100 + MaxGainP) * (0 + 0)
    BY <2>1, SMT
  <2> QED
    BY <1>1, <2>2 DEF PayoutsWithinMaxGain
<1> QED
  BY <1>2, <1>3, <1>4 DEF IInv

\* Every step keeps it.
LEMMA NextKeepsIInv == PositionAssumption /\ IInv /\ [Next]_vars => IInv'
<1> SUFFICES ASSUME PositionAssumption, IInv, [Next]_vars PROVE IInv'
  OBVIOUS
<1>1. ASSUME ~IsTrade, Open PROVE IInv'
  BY <1>1, OpenKeeps
<1>2. ASSUME NEW price \in Answers, NEW amount \in CloseAmounts \cup {trade.coll},
             CloseMarket(amount, price)
      PROVE  IInv'
  <2>1. /\ IsTrade /\ price \in Nat
        /\ UnregisterTrade(amount, price, ClosingFee(trade, amount, price), 0)
    BY <1>2, AnswersAreNat DEF CloseMarket
  <2>2. trade \in Trades /\ trade.open > 0 /\ trade.coll \in Nat
    BY <2>1, TradeFacts, SMT DEF IInv
  <2>3. amount \in Nat
    BY <2>2 DEF PositionAssumption
  <2>4. ClosingFee(trade, amount, price) \in Nat
    BY <2>1, <2>2, <2>3, ClosingFeeIsNat
  <2> QED
    BY <2>1, <2>3, <2>4, UnregisterKeeps
<1>3. ASSUME NEW price \in Answers, NEW type \in {"TP", "SL"}, CloseAtStop(type, price)
      PROVE  IInv'
  <2>1. /\ IsTrade /\ price \in Nat
        /\ UnregisterTrade(trade.coll, StopPrice(trade, type, price),
                           StopFee(trade, type, price), StopReward(trade))
    BY <1>3, AnswersAreNat DEF CloseAtStop
  <2>2. trade \in Trades /\ trade.open > 0 /\ trade.coll \in Nat
    BY <2>1, TradeFacts, SMT DEF IInv
  <2>3. StopPrice(trade, type, price) \in Nat /\ StopReward(trade) \in Nat
    BY <2>1, <2>2, StopPriceIsNat, ExecutionFeesAreNat
  <2>4. StopFee(trade, type, price) \in Nat
    BY <2>2, <2>3, ClosingFeeIsNat DEF StopFee
  <2> QED
    BY <2>1, <2>2, <2>3, <2>4, UnregisterKeeps
<1>4. ASSUME NEW price \in LiquidationAnswers, Liquidate(price) PROVE IInv'
  <2>1. /\ IsTrade /\ price \in Nat
        /\ UnregisterTrade(trade.coll, price, LiquidationFee(trade),
                           LiquidationReward(trade))
    BY <1>4, AnswersAreNat DEF Liquidate
  <2>2. trade \in Trades /\ trade.coll \in Nat
    BY <2>1, TradeFacts DEF IInv
  <2>3. LiquidationFee(trade) \in Nat /\ LiquidationReward(trade) \in Nat
    BY <2>2, ExecutionFeesAreNat
  <2> QED
    BY <2>1, <2>2, <2>3, UnregisterKeeps
<1>5. ASSUME NEW price \in Answers, NEW deposit \in BOOLEAN, NEW amount \in Margins,
             UpdateMargin(deposit, amount, price)
      PROVE  IInv'
  <2>1. price \in Nat
    BY AnswersAreNat
  <2> QED
    BY <1>5, <2>1, UpdateMarginKeeps
<1>6. ASSUME NEW price \in Answers, NEW sl \in Sls, NEW fee \in SlFees,
             UpdateSl(sl, fee, price)
      PROVE  IInv'
  <2>1. price \in Nat
    BY AnswersAreNat
  <2> QED
    BY <1>6, <2>1, UpdateSlKeeps
<1>7. ASSUME NEW tp \in Tps, UpdateTp(tp) PROVE IInv'
  BY <1>7, UpdateTpKeeps
<1>8. ASSUME Accrue PROVE IInv'
  <2>1. /\ accrued' \in 0 .. MaxAccrued
        /\ UNCHANGED <<trade, useBackupOnly, paidIn, paidOut, unpaid, steps>>
    BY <1>8, SMT DEF Accrue, IInv, TypeOK, PositionAssumption
  <2> QED
    BY <2>1 DEF IInv, TypeOK, Priced, IsTrade, PayoutsWithinMaxGain
<1>9. ASSUME SwitchOracle PROVE IInv'
  <2>1. /\ Step /\ useBackupOnly' \in BOOLEAN
        /\ UNCHANGED <<trade, accrued, paidIn, paidOut, unpaid>>
    BY <1>9 DEF SwitchOracle
  <2>2. steps' \in 0 .. MaxSteps
    BY <2>1, StepType DEF IInv
  <2> QED
    BY <2>1, <2>2 DEF IInv, TypeOK, Priced, IsTrade, PayoutsWithinMaxGain
<1>10. ASSUME UNCHANGED vars PROVE IInv'
  BY <1>10 DEF vars, IInv, TypeOK, Priced, IsTrade, PayoutsWithinMaxGain
<1> QED
  BY <1>1, <1>2, <1>3, <1>4, <1>5, <1>6, <1>7, <1>8, <1>9, <1>10, Zenon DEF Next

\* The invariant of the other theorems, about whatever callbacks and updates make
\* of a trade (TradingCallbacks.sol:68-690, Trading.sol:604-662).
THEOREM IInvHolds == Spec => []IInv
<1>1. Init => IInv
  BY InitIInv, PositionAssumption
<1>2. IInv /\ [Next]_vars => IInv'
  BY NextKeepsIInv, PositionAssumption
<1> QED
  BY <1>1, <1>2, PTL DEF Spec

\* The record of a trade stays well formed: corrected stops are prices, payouts
\* and collaterals are never negative (TradingCallbacks.sol:420-690).
THEOREM TypeCorrect == Spec => []TypeOK
<1>1. IInv => TypeOK
  BY DEF IInv
<1> QED
  BY <1>1, IInvHolds, PTL

\* However a trade is closed in parts and its margin moved, its trader is paid at
\* most his money and the maximal gain on it (TradingCallbacks.sol:597-607).
THEOREM PayoutsWithinMaxGainAlways == Spec => []PayoutsWithinMaxGain
<1>1. IInv => PayoutsWithinMaxGain
  BY DEF IInv
<1> QED
  BY <1>1, IInvHolds, PTL

-----------------------------------------------------------------------------
(* Liquidation. *)

\* At the liquidation price or beyond, one more unit of price would have cost
\* what the threshold leaves of the collateral after rollover.
LEMMA DistanceReached ==
    ASSUME PositionAssumption, NEW open \in Nat, NEW left \in Int,
           NEW position \in Nat \ {0}, NEW moved \in Int,
           Quotient(open * left, position) <= moved
    PROVE  (moved + 1) * position >= open * left
<1> DEFINE x == open * left
           d == Quotient(x, position)
<1>1. x \in Int
  BY SMT
<1> HIDE DEF x
<1>2. d \in Int /\ x < (d + 1) * position
  BY <1>1, QuotientSigned
<1>3. d <= moved
  BY DEF x
<1> HIDE DEF d
<1>4. d + 1 \in Int /\ moved + 1 \in Int /\ d + 1 <= moved + 1
  BY <1>2, <1>3, SMT
<1>5. (d + 1) * position <= (moved + 1) * position /\ (d + 1) * position \in Int
      /\ (moved + 1) * position \in Int
  BY <1>4, ScaleMonotone
<1>6. (moved + 1) * position >= x
  BY <1>1, <1>2, <1>5, SMT
<1> QED
  BY <1>6 DEF x

\* How far the price has moved against the trade.
Moved(t, price) == IF t.buy THEN t.open - price ELSE price - t.open

\* What the threshold leaves of the collateral.
Cushion(t) == (t.coll * LiqThreshold) \div 100 - Rollover(t, t.coll)

\* It is an integer, negative once rollover has used it up.
LEMMA CushionIsInt ==
    ASSUME PositionAssumption, accrued \in Nat, NEW t \in Trades
    PROVE  Cushion(t) \in Int
<1>1. t.coll \in Nat /\ LiqThreshold \in Nat
  BY SMT DEF Trades, PositionAssumption
<1>2. t.coll * LiqThreshold \in Nat
  BY <1>1, ProductMonotone
<1>3. (t.coll * LiqThreshold) \div 100 \in Nat
  BY <1>2, Down
<1>4. Rollover(t, t.coll) \in Nat
  BY <1>1, RolloverIsNat
<1> QED
  BY <1>3, <1>4, SMT DEF Cushion

\* The liquidation price is an integer, and how it is made up.
LEMMA LiquidationPriceIsLevel ==
    ASSUME PositionAssumption, accrued \in Nat, NEW t \in Trades,
           Mul(t.coll, t.lev) \in Nat \ {0}
    PROVE  LET d     == Quotient(t.open * Cushion(t), Mul(t.coll, t.lev))
               level == IF t.buy THEN t.open - d ELSE t.open + d
           IN  /\ d \in Int /\ level \in Int
               /\ LiquidationPrice(t) = IF level > 0 THEN level ELSE 0
               /\ LiquidationPrice(t) \in Int
<1> DEFINE d == Quotient(t.open * Cushion(t), Mul(t.coll, t.lev))
           level == IF t.buy THEN t.open - d ELSE t.open + d
<1>1. t.open \in Nat /\ t.buy \in BOOLEAN
  BY DEF Trades
<1>2. LiquidationPrice(t) = IF level > 0 THEN level ELSE 0
  BY DEF LiquidationPrice, Cushion
<1>3. d \in Int
  <2>1. t.open * Cushion(t) \in Int
    BY <1>1, CushionIsInt, SMT
  <2> QED
    BY <2>1, QuotientSigned
<1> HIDE DEF d
<1>4. level \in Int
  BY <1>1, <1>3, SMT
<1> HIDE DEF level
<1>5. LiquidationPrice(t) \in Int
  BY <1>2, <1>4, SMT
<1> QED
  BY <1>2, <1>3, <1>4, <1>5 DEF d, level

\* The price at which a trade has this much left to lose.
LevelOf(t, left) ==
    LET d     == Quotient(t.open * left, Mul(t.coll, t.lev))
        level == IF t.buy THEN t.open - d ELSE t.open + d
    IN  IF level > 0 THEN level ELSE 0

\* A positive price at or beyond that level has moved the distance.
LEMMA LevelReached ==
    ASSUME PositionAssumption, NEW t \in Trades, Mul(t.coll, t.lev) \in Nat \ {0},
           NEW left \in Int, NEW price \in Nat \ {0},
           AtOrWorse(t.buy, price, LevelOf(t, left))
    PROVE  (Moved(t, price) + 1) * Mul(t.coll, t.lev) >= t.open * left
<1> DEFINE d == Quotient(t.open * left, Mul(t.coll, t.lev))
           level == IF t.buy THEN t.open - d ELSE t.open + d
<1>1. t.open \in Nat /\ t.buy \in BOOLEAN
  BY DEF Trades
<1>2. LevelOf(t, left) = IF level > 0 THEN level ELSE 0
  BY DEF LevelOf
<1>3. d \in Int
  <2>1. t.open * left \in Int
    BY <1>1, SMT
  <2> QED
    BY <2>1, QuotientSigned
<1>4. d <= Moved(t, price) /\ Moved(t, price) \in Int
  <2> HIDE DEF d
  <2>1. CASE t.buy
    <3>1. price <= (IF level > 0 THEN level ELSE 0) /\ level = t.open - d
      BY <1>2, <2>1 DEF AtOrWorse
    <3> HIDE DEF level
    <3>2. d <= t.open - price /\ t.open - price \in Int
      BY <1>1, <1>3, <3>1, SMT
    <3> QED
      BY <2>1, <3>2 DEF Moved
  <2>2. CASE ~t.buy
    <3>1. price >= (IF level > 0 THEN level ELSE 0) /\ level = t.open + d
      BY <1>2, <2>2 DEF AtOrWorse
    <3> HIDE DEF level
    <3>2. d <= price - t.open /\ price - t.open \in Int
      BY <1>1, <1>3, <3>1, SMT
    <3> QED
      BY <2>2, <3>2 DEF Moved
  <2> QED
    BY <2>1, <2>2
<1> QED
  BY <1>1, <1>4, DistanceReached DEF d

LEMMA LiquidationPriceReached ==
    ASSUME PositionAssumption, accrued \in Nat, NEW t \in Trades,
           Mul(t.coll, t.lev) \in Nat \ {0}, NEW price \in Nat \ {0},
           AtOrWorse(t.buy, price, LiquidationPrice(t))
    PROVE  (Moved(t, price) + 1) * Mul(t.coll, t.lev) >= t.open * Cushion(t)
<1>1. LiquidationPrice(t) = LevelOf(t, Cushion(t))
  BY DEF LiquidationPrice, LevelOf, Cushion
<1>2. Cushion(t) \in Int
  BY CushionIsInt
<1> HIDE DEF Cushion, LevelOf
<1> QED
  BY <1>1, <1>2, LevelReached

\* A liquidation at a price is not early.
NotEarly(price) ==
    Liquidate(price) =>
      (Moved(trade, price) + 1) * Mul(trade.coll, trade.lev) >= trade.open * Cushion(trade)

\* No liquidation is early: rounding of the leverage, of the rollover and of the
\* distance never costs a trader the position before its threshold
\* (PairInfos.sol:606-621).
THEOREM SolventTradesAreNotLiquidatedAlways == Spec => SolventTradesAreNotLiquidated
<1>1. ASSUME IInv, NEW price \in Prices PROVE NotEarly(price)
  <2>1. SUFFICES ASSUME Liquidate(price)
                 PROVE  (Moved(trade, price) + 1) * Mul(trade.coll, trade.lev)
                          >= trade.open * Cushion(trade)
    BY DEF NotEarly
  <2>2. /\ IsTrade /\ Mul(trade.coll, trade.lev) > 0
        /\ AtOrWorse(trade.buy, price, LiquidationPrice(trade))
    BY <2>1 DEF Liquidate, CanLiquidate
  <2>3. trade \in Trades /\ trade.coll \in Nat /\ trade.lev \in Nat
    BY <1>1, <2>2, PositionAssumption, TradeFacts DEF IInv
  <2>4. price \in Nat \ {0} /\ accrued \in Nat
    BY <1>1, PositionAssumption, SMT DEF PositionAssumption, IInv, TypeOK
  <2>5. Mul(trade.coll, trade.lev) \in Nat
    BY <2>3, PositionAssumption, LeveragedIsNat
  <2>6. Mul(trade.coll, trade.lev) \in Nat \ {0}
    BY <2>2, <2>5, SMT
  <2> QED
    BY <2>2, <2>3, <2>4, <2>6, PositionAssumption, LiquidationPriceReached
<1>2. IInv /\ [Next]_vars => [\A price \in Prices : NotEarly(price)]_vars
  BY <1>1
<1>3. Spec => [][\A price \in Prices : NotEarly(price)]_vars
  BY <1>2, IInvHolds, PTL DEF Spec
<1> QED
  BY <1>3 DEF SolventTradesAreNotLiquidated, NotEarly, Moved, Cushion

\* A trade with collateral has a position.
LEMMA PositionIsPositive ==
    ASSUME PositionAssumption, NEW coll \in Nat \ {0}, NEW lev, Leveraged(lev)
    PROVE  Mul(coll, lev) \in Nat \ {0}
<1>1. Precision \in Nat \ {0} /\ lev \in Nat /\ Precision <= lev
  BY DEF PositionAssumption, Leveraged
<1>2. 1 * Precision <= coll * lev /\ coll * lev \in Nat
  <2>1. 1 * lev <= coll * lev /\ coll * lev \in Nat
    BY <1>1, ProductMonotone, SMT
  <2> QED
    BY <1>1, <2>1, SMT
<1>3. 1 <= (coll * lev) \div Precision /\ (coll * lev) \div Precision \in Nat
  BY <1>1, <1>2, Down, DownAtLeast
<1> QED
  BY <1>3, SMT DEF Mul

\* Where the executor's share of a liquidation is at most half, what it leaves
\* is positive with it.
LEMMA LiquidationFeeIsPositive ==
    ASSUME PositionAssumption, 2 * LiqFeeP <= LiqTotalFeeP, NEW t \in Trades,
           LiquidationReward(t) > 0
    PROVE  LiquidationFee(t) \in Nat \ {0}
<1> DEFINE r == LiquidationReward(t)
           rest == LiqTotalFeeP - LiqFeeP
<1>1. r \in Nat /\ r > 0
  BY ExecutionFeesAreNat
<1>2. LiqFeeP \in Nat \ {0} /\ rest \in Nat /\ LiqFeeP <= rest
  BY SMT DEF PositionAssumption
<1> HIDE DEF r, rest
<1>3. LiqFeeP * r <= rest * r /\ rest * r \in Nat
  BY <1>1, <1>2, ProductMonotone
<1>4. r * LiqFeeP <= r * rest /\ r * rest \in Nat
  BY <1>1, <1>2, <1>3, SMT
<1>5. r <= (r * rest) \div LiqFeeP /\ (r * rest) \div LiqFeeP \in Nat
  BY <1>1, <1>2, <1>4, Down, DownAtLeast
<1> QED
  BY <1>1, <1>5, SMT DEF LiquidationFee, r, rest

\* With Pyth, each trade that has reached its liquidation price can be closed,
\* when the executor's share of a liquidation is at most half
\* (TradingCallbacks.sol:332-400, Trading.sol:541-575).
THEOREM InsolventTradesAreCloseableAlways ==
    ASSUME 2 * LiqFeeP <= LiqTotalFeeP
    PROVE  Spec => []InsolventTradesAreCloseable
<1>1. ASSUME IInv PROVE InsolventTradesAreCloseable
  <2>1. SUFFICES ASSUME IsTrade, LiquidationReward(trade) > 0, StopReward(trade) > 0,
                        NEW price \in Prices,
                        AtOrWorse(trade.buy, price, LiquidationPrice(trade))
                 PROVE  \/ CanLiquidate(trade, price)
                        \/ CanCloseAtStop(trade, "SL", price)
                        \/ /\ StopHit(trade, "SL", price)
                           /\ Rollover(trade, trade.coll) = 0
                           /\ StopFee(trade, "SL", price) = 0
    BY DEF InsolventTradesAreCloseable
  <2>2. /\ trade \in Trades /\ trade.open > 0 /\ trade.coll \in Nat /\ trade.sl \in Nat
        /\ trade.open \in Nat
        /\ trade.buy \in BOOLEAN /\ trade.lev \in Nat /\ Leveraged(trade.lev)
    <3>1. trade.open \in Nat \ {0}
      BY <1>1, <2>1, PositionAssumption, TradeFacts DEF IInv
    <3>2. trade.open > 0 /\ trade.open \in Nat
      BY <3>1, SMT
    <3> QED
      BY <1>1, <2>1, <3>2, PositionAssumption, TradeFacts DEF IInv
  <2>3. price \in Nat /\ price > 0 /\ accrued \in Nat
    BY <1>1, PositionAssumption, SMT DEF PositionAssumption, IInv, TypeOK
  <2>4. Rollover(trade, trade.coll) \in Nat
    BY <2>2, <2>3, PositionAssumption, RolloverIsNat
  <2>5. trade.coll \in Nat \ {0}
    <3>1. SUFFICES ASSUME trade.coll = 0 PROVE FALSE
      BY <2>2
    <3>2. LiquidationReward(trade) = 0
      BY <3>1, PositionAssumption, SMT DEF LiquidationReward, PositionAssumption
    <3> QED
      BY <2>1, <3>2, SMT
  <2>6. Mul(trade.coll, trade.lev) \in Nat \ {0} /\ Mul(trade.coll, trade.lev) > 0
    <3>1. Mul(trade.coll, trade.lev) \in Nat \ {0}
      BY <2>2, <2>5, PositionAssumption, PositionIsPositive
    <3> QED
      BY <3>1, SMT
  <2>7. CASE ~HasSl(trade)
    <3>1. LiquidationFee(trade) \in Nat \ {0}
      BY <2>1, <2>2, PositionAssumption, LiquidationFeeIsPositive
    <3>2. Rollover(trade, trade.coll) + LiquidationFee(trade) > 0
      BY <2>4, <3>1, SMT
    <3>3. CanSettle(trade, trade.coll, price, LiquidationFee(trade),
                    LiquidationReward(trade))
      BY <3>2 DEF CanSettle
    <3> QED
      BY <2>1, <2>3, <2>7, <2>6, <3>3 DEF CanLiquidate
  <2>8. CASE HasSl(trade)
    <3>1. StopHit(trade, "SL", price)
      <4>1. LiquidationPrice(trade) \in Int
        BY <2>2, <2>3, <2>6, PositionAssumption, LiquidationPriceIsLevel
      <4> QED
        BY <2>1, <2>2, <2>3, <2>8, <4>1, SMT DEF HasSl, StopHit, AtOrWorse, AtOrBetter
    <3> DEFINE fee == StopFee(trade, "SL", price)
    <3>2. fee \in Nat
      <4>1. StopPrice(trade, "SL", price) \in Nat
        BY <2>2, <2>3, StopPriceIsNat
      <4> QED
        BY <2>2, <4>1, PositionAssumption, ClosingFeeIsNat DEF StopFee
    <3> HIDE DEF fee
    <3>3. CASE Rollover(trade, trade.coll) + fee > 0
      <4>1. CanSettle(trade, trade.coll, StopPrice(trade, "SL", price),
                      StopFee(trade, "SL", price), StopReward(trade))
        BY <3>3 DEF CanSettle, fee
      <4> QED
        BY <2>1, <2>3, <3>1, <4>1 DEF CanCloseAtStop
    <3>4. CASE ~(Rollover(trade, trade.coll) + fee > 0)
      <4>1. Rollover(trade, trade.coll) = 0 /\ fee = 0
        BY <2>4, <3>2, <3>4, SMT
      <4> QED
        BY <3>1, <4>1 DEF fee
    <3> QED
      BY <3>3, <3>4
  <2> QED
    BY <2>7, <2>8
<1> QED
  BY <1>1, IInvHolds, PTL


-----------------------------------------------------------------------------
(* Withdrawals of margin. *)

\* A move D of the price has reached the liquidation price, up to roundings.
LossIsLarge(P, open, c, L, T, D) ==
    P * open * (c * T - 99) <= 100 * L * c * (D + 1)

\* It has cost less than the threshold W: n percent, of which m is the amount,
\* each rounded down.
LossIsSmall(P, open, c, L, W, D, m, n) ==
    /\ 100 * D * L < (n + 1) * open
    /\ c * n < (m + 1) * (100 * P)
    /\ 100 * m < c * W

\* Collateral and price are large against the roundings, and the two
\* thresholds at least five percent apart.
Apart(P, open, c, L, T, W) ==
    100 <= c /\ 50 * L <= P * open /\ W + 5 <= T

\* It cannot have done both: the distance of the two thresholds is more than
\* the roundings take.
LEMMA ThresholdsApart ==
    ASSUME NEW open \in Nat \ {0}, NEW c \in Nat, NEW L \in Nat,
           NEW P \in Nat \ {0}, NEW T \in Nat, NEW W \in Nat,
           NEW D \in Nat, NEW m \in Nat, NEW n \in Nat, Apart(P, open, c, L, T, W),
           LossIsLarge(P, open, c, L, T, D), LossIsSmall(P, open, c, L, W, D, m, n)
    PROVE  FALSE
<1> DEFINE X == P * open
<1> USE DEF LossIsLarge, LossIsSmall, Apart
<1>1. X \in Nat /\ open <= X /\ 50 * L <= X
  <2>1. 1 * open <= P * open /\ P * open \in Nat
    BY ProductMonotone, SMT
  <2> QED
    BY <2>1, SMT
\* What the market took, in units of X.
<1>2. c * (100 * D * L) <= c * (n * open) + c * open
  <2>1. 100 * D * L \in Nat /\ n * open \in Nat /\ (n + 1) * open = n * open + open
    BY SMT
  <2>2. 100 * D * L <= n * open + open
    BY <2>1, SMT
  <2>3. (100 * D * L) * c <= (n * open + open) * c
    BY <2>1, <2>2, ProductMonotone
  <2> HIDE DEF X
  <2>4. (n * open + open) * c = c * (n * open) + c * open
    BY <2>1, SMT
  <2> QED
    BY <2>1, <2>3, <2>4, SMT
<1>3. c * (n * open) <= (100 * m + 100) * X
  <2>1. c * n \in Nat /\ (m + 1) * (100 * P) \in Nat /\ c * n <= (m + 1) * (100 * P)
    BY SMT
  <2>2. (c * n) * open <= ((m + 1) * (100 * P)) * open
    BY <2>1, ProductMonotone
  <2>3. (c * n) * open = c * (n * open)
    BY SMT
  <2>4. ((m + 1) * (100 * P)) * open = (100 * m + 100) * (P * open)
    BY SMT
  <2> QED
    BY <2>2, <2>3, <2>4
<1>4. (100 * m + 100) * X <= (c * W + 99) * X
  <2>1. c * W \in Nat /\ 100 * m + 100 <= c * W + 99
    BY SMT
  <2> HIDE DEF X
  <2> QED
    BY <1>1, <2>1, ProductMonotone
\* What the liquidation price asks for.
<1>5. X * (c * T - 99) <= c * (100 * D * L) + c * (100 * L)
  <2>1. 100 * L * c * (D + 1) = c * (100 * D * L) + c * (100 * L)
    BY SMT
  <2> QED
    BY <2>1
<1>6. c * (100 * L) <= c * (2 * X) /\ c * open <= c * X
  <2> HIDE DEF X
  <2>1. 100 * L <= 2 * X /\ 100 * L \in Nat /\ 2 * X \in Nat
    BY <1>1, SMT
  <2>2. (100 * L) * c <= (2 * X) * c /\ open * c <= X * c
    BY <1>1, <2>1, ProductMonotone
  <2>3. (100 * L) * c = c * (100 * L) /\ (2 * X) * c = c * (2 * X)
        /\ open * c = c * open /\ X * c = c * X
    BY <1>1, SMT
  <2> QED
    BY <2>2, <2>3
<1> HIDE DEF X
<1>7. X * (c * T - 99) <= (c * W + 99) * X + 3 * (c * X)
  <2>1. /\ c * (100 * D * L) \in Int /\ c * (n * open) \in Int /\ c * open \in Int
        /\ (100 * m + 100) * X \in Int /\ (c * W + 99) * X \in Int
        /\ X * (c * T - 99) \in Int /\ c * (100 * L) \in Int
        /\ c * (2 * X) = 2 * (c * X) /\ c * X \in Int
    BY <1>1, SMT
  <2> QED
    BY <1>2, <1>3, <1>4, <1>5, <1>6, <2>1, SMT
<1>8. X * (c * T - 99) <= (c * W + 99 + 3 * c) * X
  BY <1>1, <1>7, SMT
<1>9. c * W + 5 * c <= c * T /\ c * W \in Nat /\ c * T \in Nat
  <2>1. (W + 5) * c <= T * c
    BY ProductMonotone
  <2> QED
    BY <2>1, SMT
<1>10. c * W + 99 + 3 * c + 1 <= c * T - 99
  BY <1>9, SMT
<1>11. (c * W + 99 + 3 * c + 1) * X <= (c * T - 99) * X
  <2>1. c * W + 99 + 3 * c + 1 \in Nat /\ c * T - 99 \in Nat
    BY <1>9, <1>10, SMT
  <2> QED
    BY <1>1, <1>10, <2>1, ProductMonotone
<1>12. X > 0
  BY <1>1, SMT
<1> QED
  <2> DEFINE Y == c * W + 99 + 3 * c
             Z == c * T - 99
  <2>1. Y \in Int /\ Z \in Int
    BY <1>9, SMT
  <2>2. X * Z <= Y * X /\ (Y + 1) * X <= Z * X
    BY <1>8, <1>11
  <2> HIDE DEF Y, Z
  <2>3. (Y + 1) * X = Y * X + X /\ X * Z = Z * X /\ Y * X \in Int /\ Z * X \in Int
    BY <1>1, <2>1, SMT
  <2> QED
    BY <1>1, <1>12, <2>2, <2>3, SMT


\* A loss is rounded down as its size.
LEMMA QuotientOfLoss ==
    ASSUME NEW a \in Nat, NEW n \in Nat \ {0}
    PROVE  Quotient(-a, n) = -(a \div n)
<1>1. CASE a = 0
  <2>1. 0 \div n = 0
    BY SMT
  <2> QED
    BY <1>1, <2>1, SMT DEF Quotient
<1>2. CASE a > 0
  BY <1>2, SMT DEF Quotient
<1> QED
  BY <1>1, <1>2, SMT

\* The price has moved by D against the trade.
Against(open, price, buy, D) ==
    D = IF buy THEN open - price ELSE price - open

\* The profit after a move against the trade.
LossP(D, open, lev) ==
    LET q == (100 * D * lev) \div open
    IN  IF q > 100 * Precision THEN 100 * Precision ELSE q

LEMMA ProfitOfLoss ==
    ASSUME PositionAssumption, NEW open \in Nat \ {0}, NEW price \in Nat,
           NEW buy \in BOOLEAN, NEW lev \in Nat, NEW D \in Nat,
           Against(open, price, buy, D)
    PROVE  CurrentPercentProfit(open, price, buy, lev) = -LossP(D, open, lev)
<1> DEFINE k == 100 * D * lev
           q == k \div open
           p == Quotient((IF buy THEN price - open ELSE open - price) * 100 * lev, open)
           low == 100 * Precision
           high == MaxGainP * Precision
<1>1. k \in Nat /\ (IF buy THEN price - open ELSE open - price) * 100 * lev = -k
  <2>1. (IF buy THEN price - open ELSE open - price) = -D
    BY SMT DEF Against
  <2>2. k \in Nat /\ (-D) * 100 * lev = -k
    BY SMT
  <2> QED
    BY <2>1, <2>2
<1>2. p = -q /\ q \in Nat
  <2> HIDE DEF k
  <2>1. Quotient(-k, open) = -(k \div open) /\ k \div open \in Nat
    BY <1>1, QuotientOfLoss, Down
  <2> QED
    BY <1>1, <2>1
<1>3. low \in Nat /\ high \in Nat /\ -100 * Precision = -low
  BY SMT DEF PositionAssumption
<1>4. CurrentPercentProfit(open, price, buy, lev) =
        CASE p < -100 * Precision -> -100 * Precision [] p > high -> high [] OTHER -> p
  BY DEF CurrentPercentProfit
<1> HIDE DEF p, low, high, q
<1>5. CurrentPercentProfit(open, price, buy, lev) = -(IF q > low THEN low ELSE q)
  BY <1>2, <1>3, <1>4, SMT
<1> QED
  BY <1>5 DEF LossP, q, k, low

\* What may be withdrawn leaves the trade with a loss of less than the
\* withdrawal threshold.
MayKeep(open, price, buy, lev, c) ==
    c + ProtectedPnl(c, CurrentPercentProfit(open, price, buy, lev), 100)
      > (c * (100 - WithdrawThresholdP)) \div 100

LEMMA WithdrawableLoss ==
    ASSUME PositionAssumption, NEW open \in Nat \ {0}, NEW price \in Nat,
           NEW buy \in BOOLEAN, NEW lev \in Nat, NEW D \in Nat,
           Against(open, price, buy, D),
           NEW c \in Nat \ {0}, MayKeep(open, price, buy, lev, c)
    PROVE  \E m, n \in Nat :
             LossIsSmall(Precision, open, c, lev, WithdrawThresholdP, D, m, n)
<1> DEFINE k == 100 * D * lev
           q == k \div open
           low == 100 * Precision
           n == IF q > low THEN low ELSE q
           m == (c * n) \div low
           W == WithdrawThresholdP
           f == (c * (100 - W)) \div 100
<1>1. k \in Nat /\ low \in Nat \ {0} /\ W \in 0 .. 100 /\ 100 - W \in Nat
  BY SMT DEF PositionAssumption
<1>2. q \in Nat /\ k < (q + 1) * open
  <2> HIDE DEF k
  <2> QED
    BY <1>1, Down
<1>3. n \in Nat /\ n <= q
  <2> HIDE DEF q, low
  <2> QED
    BY <1>1, <1>2, SMT
<1>4. CurrentPercentProfit(open, price, buy, lev) = -n
  <2>1. CurrentPercentProfit(open, price, buy, lev) = -LossP(D, open, lev)
    BY ProfitOfLoss
  <2> QED
    BY <2>1 DEF LossP
<1> HIDE DEF n
<1>5. c * n \in Nat /\ m \in Nat /\ c * n < (m + 1) * low
  <2>1. c * n \in Nat
    BY <1>3, SMT
  <2> HIDE DEF low
  <2> QED
    BY <1>1, <2>1, Down
<1>6. Pnl(c, -n) = -m
  <2>1. c * (-n) = -(c * n) /\ Precision * 100 = low
    BY <1>3, SMT DEF PositionAssumption
  <2> HIDE DEF low
  <2>2. Quotient(-(c * n), low) = -((c * n) \div low)
    BY <1>1, <1>5, QuotientOfLoss
  <2> QED
    BY <2>1, <2>2 DEF Pnl
<1> HIDE DEF m
<1>7. ProtectedPnl(c, -n, 100) = -m
  <2>1. CASE m = 0
    BY <1>6, <2>1, SMT DEF ProtectedPnl
  <2>2. CASE m > 0
    <3>1. (m * 100) \div 100 = m
      BY <1>5, SMT
    <3>2. (-m) * 100 = -(m * 100) /\ m * 100 \in Nat /\ -m < 0
      BY <1>5, <2>2, SMT
    <3>3. Quotient(-(m * 100), 100) = -((m * 100) \div 100)
      BY <3>2, QuotientOfLoss
    <3> QED
      BY <1>6, <3>1, <3>2, <3>3 DEF ProtectedPnl
  <2> QED
    BY <1>5, <2>1, <2>2, SMT
<1>8. c - m > f
  <2>1. c + ProtectedPnl(c, -n, 100) > f
    BY <1>4 DEF MayKeep
  <2> QED
    BY <1>5, <1>7, <2>1, SMT
<1>9. 100 * m < c * W
  <2>1. c * (100 - W) \in Nat /\ c * (100 - W) = 100 * c - c * W /\ c * W \in Nat
    BY <1>1, SMT
  <2>2. f \in Nat /\ c * (100 - W) < (f + 1) * 100
    BY <2>1, Down
  <2> HIDE DEF f
  <2> QED
    BY <1>5, <1>8, <2>1, <2>2, SMT
<1>10. n = q
  <2>1. SUFFICES ASSUME q > low PROVE FALSE
    BY DEF n
  <2>2. n = low
    BY <2>1 DEF n
  <2>3. c <= m
    <3> HIDE DEF low
    <3>1. c * low <= c * n
      BY <1>1, <2>2, SMT
    <3> QED
      BY <1>1, <1>5, <3>1, DownAtLeast DEF m
  <2>4. c * W <= c * 100
    <3>1. W * c <= 100 * c
      BY <1>1, ProductMonotone
    <3> QED
      BY <1>1, <3>1, SMT
  <2>5. c * W \in Nat
    BY <1>1, SMT
  <2> QED
    BY <1>5, <1>9, <2>3, <2>4, <2>5, SMT
<1> QED
  <2>1. 100 * D * lev < (n + 1) * open
    BY <1>2, <1>10
  <2>2. LossIsSmall(Precision, open, c, lev, WithdrawThresholdP, D, m, n)
    BY <1>5, <1>9, <2>1 DEF LossIsSmall
  <2> QED
    BY <1>3, <1>5, <2>2

\* At the new liquidation price the position M and what the threshold takes of
\* the collateral are both rounded down.
AtLevel(P, open, c, L, T, D, M, left) ==
    c * T < (left + 1) * 100 /\ M * P <= c * L /\ open * left <= (D + 1) * M

LEMMA MovedToLevel ==
    ASSUME NEW open \in Nat \ {0}, NEW c \in Nat, NEW L \in Nat, NEW P \in Nat \ {0},
           NEW T \in Nat, NEW D \in Nat, NEW M \in Nat, NEW left \in Nat,
           AtLevel(P, open, c, L, T, D, M, left)
    PROVE  LossIsLarge(P, open, c, L, T, D)
<1> USE DEF AtLevel
<1>1. c * T \in Nat /\ c * T - 99 <= 100 * left
  BY SMT
<1>2. P * open \in Nat
  BY SMT
<1> DEFINE X == P * open
<1>3. (c * T - 99) * X <= (100 * left) * X
  <2>1. c * T - 99 \in Int /\ 100 * left \in Int
    BY <1>1, SMT
  <2> HIDE DEF X
  <2> QED
    BY <1>1, <1>2, <2>1, ScaleMonotone DEF X
<1>4. (100 * left) * X = (open * left) * (100 * P)
  BY SMT
<1>5. (open * left) * (100 * P) <= ((D + 1) * M) * (100 * P)
  <2>1. open * left \in Nat /\ (D + 1) * M \in Nat /\ 100 * P \in Nat
    BY SMT
  <2> QED
    BY <2>1, ProductMonotone
<1>6. ((D + 1) * M) * (100 * P) = (M * P) * (100 * (D + 1))
  BY SMT
<1>7. (M * P) * (100 * (D + 1)) <= (c * L) * (100 * (D + 1))
  <2>1. M * P \in Nat /\ c * L \in Nat /\ 100 * (D + 1) \in Nat
    BY SMT
  <2> QED
    BY <2>1, ProductMonotone
<1>8. (c * L) * (100 * (D + 1)) = 100 * L * c * (D + 1)
  BY SMT
<1>9. (c * T - 99) * X = X * (c * T - 99)
  <2>1. c * T - 99 \in Int
    BY <1>1, SMT
  <2> HIDE DEF X
  <2> QED
    BY <1>2, <2>1, SMT DEF X
<1>10. /\ X * (c * T - 99) \in Int /\ (100 * left) * X \in Int
       /\ (open * left) * (100 * P) \in Int /\ ((D + 1) * M) * (100 * P) \in Int
       /\ (M * P) * (100 * (D + 1)) \in Int /\ (c * L) * (100 * (D + 1)) \in Int
  BY SMT
<1> DEFINE A == X * (c * T - 99)
           B == (100 * left) * X
           C == ((D + 1) * M) * (100 * P)
           E == (c * L) * (100 * (D + 1))
<1>11. A \in Int /\ B \in Int /\ C \in Int /\ E \in Int
  BY <1>10
<1>12. A <= B /\ B <= C /\ C <= E
  BY <1>3, <1>4, <1>5, <1>6, <1>7, <1>9
<1> HIDE DEF A, B, C, E
<1>13. A <= E
  BY <1>11, <1>12, SMT
<1> QED
  BY <1>8, <1>13 DEF A, E, X, LossIsLarge

\* A trade c * L opened at a price of one unit at least, and what a move leaves.
Sized(open, price, buy, c, L, M, D, left) ==
    /\ open \in Nat \ {0} /\ price \in Nat /\ buy \in BOOLEAN
    /\ c \in Nat \ {0} /\ L \in Nat /\ M \in Nat /\ D \in Nat /\ left \in Nat

\* No trade is at its liquidation price and keeps what a withdrawal asks for.
LEMMA NoneIsBoth ==
    ASSUME PositionAssumption, NEW open, NEW price, NEW buy, NEW c, NEW L,
           NEW M, NEW D, NEW left, Sized(open, price, buy, c, L, M, D, left),
           Against(open, price, buy, D),
           AtLevel(Precision, open, c, L, LiqThreshold, D, M, left),
           MayKeep(open, price, buy, L, c),
           Apart(Precision, open, c, L, LiqThreshold, WithdrawThresholdP)
    PROVE  FALSE
<1>1. PICK m, n \in Nat : LossIsSmall(Precision, open, c, L, WithdrawThresholdP, D, m, n)
  BY WithdrawableLoss, SMTT(30) DEF Sized
<1>2. /\ Precision \in Nat \ {0} /\ LiqThreshold \in Nat /\ WithdrawThresholdP \in Nat
      /\ c \in Nat
  BY SMT DEF PositionAssumption, Sized
<1>3. LossIsLarge(Precision, open, c, L, LiqThreshold, D)
  BY <1>2, MovedToLevel, Zenon DEF Sized
<1> QED
  BY <1>1, <1>2, <1>3, ThresholdsApart, Zenon DEF Sized


\* A trade of at least 100 units of collateral, whose leverage is small against
\* the units of its price: what the roundings take is small against both.
RoomToRound(t) == 100 <= t.coll /\ 50 * t.lev <= Precision * t.open

Roomy == IsTrade => RoomToRound(trade)

\* What the threshold takes of the collateral, nothing being accrued.
Fresh(t) == (t.coll * LiqThreshold) \div 100

\* A trade that may be left by a withdrawal is not at its liquidation price.
LEMMA WithdrawableIsSolvent ==
    ASSUME PositionAssumption, WithdrawThresholdP + 5 <= LiqThreshold,
           NEW t \in Trades, t.open \in Nat \ {0}, Leveraged(t.lev),
           t.protection = 100, RoomToRound(t),
           NEW price \in Nat \ {0}, Withdrawable(t, t, price)
    PROVE  ~AtOrWorse(t.buy, price, LevelOf(t, Fresh(t)))
<1> SUFFICES ASSUME AtOrWorse(t.buy, price, LevelOf(t, Fresh(t))) PROVE FALSE
  OBVIOUS
<1> DEFINE c == t.coll
           L == t.lev
           M == Mul(c, L)
           D == Moved(t, price)
           T == LiqThreshold
           W == WithdrawThresholdP
           left == Fresh(t)
<1>1. /\ c \in Nat \ {0} /\ c \in Nat /\ 100 <= c /\ L \in Nat /\ t.buy \in BOOLEAN
      /\ T \in Nat /\ W \in Nat /\ W + 5 <= T /\ Precision \in Nat \ {0}
      /\ t.open \in Nat \ {0} /\ t.open \in Nat /\ 50 * L <= Precision * t.open
  <2>1. c \in Nat /\ L \in Nat /\ t.buy \in BOOLEAN
    BY DEF Trades
  <2>2. 100 <= c /\ 50 * L <= Precision * t.open
    BY DEF RoomToRound
  <2>3. T \in Nat /\ W \in Nat /\ W + 5 <= T /\ Precision \in Nat \ {0}
    BY SMT DEF PositionAssumption
  <2> HIDE DEF c, L, T, W
  <2>4. c \in Nat \ {0} /\ t.open \in Nat
    BY <2>1, <2>2, SMT
  <2> QED
    BY <2>1, <2>2, <2>3, <2>4
<1>2. M \in Nat \ {0} /\ M * Precision <= c * L
  <2>1. M \in Nat \ {0}
    BY <1>1, PositionIsPositive
  <2>2. c * L \in Nat
    BY <1>1, ProductMonotone
  <2> HIDE DEF c, L
  <2>3. ((c * L) \div Precision) * Precision <= c * L
    BY <1>1, <2>2, Down
  <2> QED
    BY <2>1, <2>3 DEF Mul, c, L
<1>3. left \in Nat /\ 5 <= left /\ c * T < (left + 1) * 100
  <2>1. c * T \in Nat /\ 5 * 100 <= c * T
    <3>1. 5 <= T /\ 5 * 100 <= 5 * c
      BY <1>1, SMT
    <3>2. 5 * c <= T * c /\ 5 * c \in Nat /\ T * c \in Nat
      BY <1>1, <3>1, ProductMonotone
    <3> HIDE DEF c, T
    <3> QED
      BY <1>1, <3>1, <3>2, SMT
  <2> DEFINE x == c * T
  <2>2. left = x \div 100
    BY DEF Fresh
  <2> HIDE DEF x, left
  <2>3. x \div 100 \in Nat /\ x < (x \div 100 + 1) * 100 /\ 5 <= x \div 100
    BY <2>1, Down, DownAtLeast DEF x
  <2> QED
    BY <2>2, <2>3 DEF x
<1>4. t.open * left <= (D + 1) * M /\ D \in Int
  <2>1. left \in Int
    BY <1>3, SMT
  <2>2. (D + 1) * M >= t.open * left
    BY <1>2, <2>1, LevelReached
  <2>3. D \in Int
    BY <1>1, SMT DEF Moved
  <2> HIDE DEF D, M, left
  <2>4. (D + 1) * M \in Int /\ t.open * left \in Int
    BY <1>1, <1>2, <1>3, <2>3, SMT
  <2> QED
    BY <2>2, <2>3, <2>4, SMT
<1>5. D = (IF t.buy THEN t.open - price ELSE price - t.open)
  BY DEF Moved
<1>6. /\ CurrentPercentProfit(t.open, price, t.buy, L) = ProfitAt(t, price)
      /\ c + ProtectedPnl(c, ProfitAt(t, price), 100) > (c * (100 - W)) \div 100
  BY DEF Withdrawable, ProfitAt
<1> HIDE DEF D, M, left, c, L, T, W
<1>7. D \in Nat
  <2>1. SUFFICES ASSUME D + 1 <= 0 PROVE FALSE
    BY <1>4, SMT
  <2>2. (D + 1) * M <= 0 * M
    BY <1>2, <1>4, <2>1, ScaleMonotone
  <2>3. 1 * left <= t.open * left
    BY <1>1, <1>3, ProductMonotone
  <2>4. (D + 1) * M \in Int /\ t.open * left \in Int
    BY <1>1, <1>2, <1>3, <1>4, SMT
  <2> QED
    BY <1>2, <1>3, <1>4, <2>2, <2>3, <2>4, SMT
<1>8. MayKeep(t.open, price, t.buy, L, c)
  BY <1>6 DEF W, MayKeep
<1>9. AtLevel(Precision, t.open, c, L, LiqThreshold, D, M, left)
  BY <1>2, <1>3, <1>4 DEF AtLevel, T
<1>10. Apart(Precision, t.open, c, L, LiqThreshold, WithdrawThresholdP)
  BY <1>1 DEF Apart, T, W
<1>11. Against(t.open, price, t.buy, D)
  BY <1>5 DEF Against
<1>12. Sized(t.open, price, t.buy, c, L, M, D, left)
  <2>1. M \in Nat /\ price \in Nat
    BY <1>2, SMT
  <2> QED
    BY <1>1, <1>3, <1>7, <2>1 DEF Sized
<1> QED
  BY <1>8, <1>9, <1>10, <1>11, <1>12, NoneIsBoth, SMT

\* A withdrawal at a price, and what it leaves at that price.
StaysSolvent(price, amount) ==
    UpdateMargin(FALSE, amount, price) /\ trade.protection = 100 =>
      ~AtOrWorse(trade.buy, price, LiquidationPrice(trade)')

LEMMA WithdrawalStep ==
    ASSUME PositionAssumption, WithdrawThresholdP + 5 <= LiqThreshold,
           IInv, IInv', Roomy', NEW price \in Prices, NEW amount \in Margins
    PROVE  StaysSolvent(price, amount)
<1>1. SUFFICES ASSUME UpdateMargin(FALSE, amount, price), trade.protection = 100
               PROVE  ~AtOrWorse(trade.buy, price, LiquidationPrice(trade)')
  BY DEF StaysSolvent
<1> DEFINE coll == trade.coll - amount - Rollover(trade, trade.coll)
           new  == [trade EXCEPT !.coll = coll, !.lev = Div(trade.oi, coll)]
<1>2. price \in Nat \ {0} /\ price > 0
  BY SMT DEF PositionAssumption
<1>3. /\ IsTrade /\ coll > 0 /\ trade' = new /\ accrued' = 0
      /\ Withdrawable(trade, new, price)
  BY <1>1, <1>2 DEF UpdateMargin
<1>4. trade \in Trades
  BY <1>3, TradeFacts DEF IInv
<1>5. /\ trade'.coll = coll /\ trade'.open = trade.open /\ trade'.buy = trade.buy
      /\ trade'.protection = 100
  <2> HIDE DEF coll
  <2> QED
    BY <1>1, <1>3, <1>4 DEF Trades
<1>6. PICK t : t = trade'
  OBVIOUS
<1>7. t # NoTrade
  <2> HIDE DEF coll
  <2>1. t.coll # 0
    BY <1>3, <1>5, <1>6, SMT
  <2> QED
    BY <2>1 DEF NoTrade
<1>8. t \in Trades /\ RoomToRound(t) /\ t.open > 0 /\ t.lev \in MinLeverage .. MaxLeverage
  BY <1>6, <1>7 DEF IInv, TypeOK, Priced, Roomy, IsTrade, RoomToRound
<1>9. t.open \in Nat \ {0} /\ Leveraged(t.lev)
  BY <1>8, SMT DEF Trades, PositionAssumption, Leveraged
<1>10. Withdrawable(t, t, price)
  BY <1>3, <1>6 DEF Withdrawable
<1>11. ~AtOrWorse(t.buy, price, LevelOf(t, Fresh(t)))
  BY <1>2, <1>5, <1>6, <1>8, <1>9, <1>10, WithdrawableIsSolvent
<1>12. LiquidationPrice(trade)' = LevelOf(t, Fresh(t))
  <2>1. Mul(t.coll, t.lev) \in Nat /\ t.coll \in Nat
    BY <1>8, LeveragedIsNat DEF Trades
  <2>2. (0 * Mul(t.coll, t.lev)) \div Precision = 0
    BY <2>1, SMT DEF PositionAssumption
  <2>3. Rollover(t, t.coll)' = 0
    BY <1>3, <2>2 DEF Rollover
  <2>4. Fresh(t) \in Nat
    <3>1. t.coll * LiqThreshold \in Nat
      BY <2>1, ProductMonotone, SMT DEF PositionAssumption
    <3> QED
      BY <3>1, Down DEF Fresh
  <2>5. Fresh(t) - 0 = Fresh(t)
    BY <2>4, SMT
  <2>6. Cushion(t)' = Fresh(t)
    BY <2>3, <2>5 DEF Cushion, Fresh
  <2>7. LiquidationPrice(trade)' = LevelOf(t, Cushion(t)')
    BY <1>6 DEF LiquidationPrice, LevelOf, Cushion
  <2> QED
    BY <2>6, <2>7
<1> QED
  BY <1>5, <1>6, <1>11, <1>12

\* With a distance of five percent between the two thresholds (the code has 80
\* and 85), no withdrawal leaves a trade at its new liquidation price, as long
\* as trades have room for the roundings (TradingCallbacks.sol:79-92).
THEOREM WithdrawalsLeaveTradesSolventAlways ==
    ASSUME WithdrawThresholdP + 5 <= LiqThreshold
    PROVE  Spec /\ []Roomy => WithdrawalsLeaveTradesSolvent
<1>1. IInv /\ IInv' /\ Roomy' /\ [Next]_vars =>
        [\A price \in Prices, amount \in Margins : StaysSolvent(price, amount)]_vars
  BY PositionAssumption, WithdrawalStep
<1>2. Spec /\ []Roomy =>
        [][\A price \in Prices, amount \in Margins : StaysSolvent(price, amount)]_vars
  BY <1>1, IInvHolds, PTL DEF Spec
<1> QED
  BY <1>2 DEF WithdrawalsLeaveTradesSolvent, StaysSolvent
=============================================================================
