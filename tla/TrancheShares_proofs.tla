------------------------- MODULE TrancheShares_proofs -------------------------
(* Proofs about TrancheShares, for any amounts, fees and thresholds. *)
EXTENDS TrancheShares, Sums_proofs, TLAPS

-----------------------------------------------------------------------------
(* Division, down and up. *)

\* Products of naturals are naturals, and keep the order.
LEMMA ProductMonotone ==
    ASSUME NEW a \in Nat, NEW b \in Nat, NEW c \in Nat, a <= b
    PROVE  a * c \in Nat /\ b * c \in Nat /\ a * c <= b * c
BY SMT

\* A common factor can be taken out of a strict inequality.
LEMMA CancelFactor ==
    ASSUME NEW a \in Nat, NEW b \in Nat, NEW c \in Nat, a * c < b * c
    PROVE  a < b
<1>1. SUFFICES ASSUME b <= a PROVE FALSE
  BY SMT
<1>2. b * c <= a * c
  BY <1>1, ProductMonotone
<1> QED
  BY <1>2, SMT

\* Rounding down leaves out less than one unit.
LEMMA Down ==
    ASSUME NEW x \in Nat, NEW n \in Nat \ {0}
    PROVE  x \div n \in Nat /\ (x \div n) * n <= x /\ x < (x \div n + 1) * n
BY SMT

\* What is at most a multiple is rounded down to at most that.
LEMMA DownAtMost ==
    ASSUME NEW x \in Nat, NEW n \in Nat \ {0}, NEW y \in Nat, x <= y * n
    PROVE  x \div n <= y
<1> DEFINE q == x \div n
<1>1. q \in Nat /\ q * n <= x
  BY Down
<1> HIDE DEF q
<1>2. q * n \in Nat /\ (y + 1) * n = y * n + n
  BY <1>1, SMT
<1>3. q * n < (y + 1) * n
  BY <1>1, <1>2, SMT
<1>4. q < y + 1
  BY <1>1, <1>3, CancelFactor
<1> QED
  BY <1>1, <1>4, SMT DEF q

\* What is less than a multiple is rounded down to less than that.
LEMMA DownBelow ==
    ASSUME NEW x \in Nat, NEW n \in Nat \ {0}, NEW y \in Nat, x < y * n
    PROVE  x \div n < y
<1> DEFINE q == x \div n
<1>1. q \in Nat /\ q * n <= x
  BY Down
<1> HIDE DEF q
<1>2. q * n < y * n
  BY <1>1, SMT
<1>3. q < y
  BY <1>1, <1>2, CancelFactor
<1> QED
  BY <1>3 DEF q

\* What is at least a multiple is rounded down to at least that.
LEMMA DownAtLeast ==
    ASSUME NEW x \in Nat, NEW n \in Nat \ {0}, NEW y \in Nat, y * n <= x
    PROVE  y <= x \div n
<1> DEFINE q == x \div n
<1>1. q \in Nat /\ x < (q + 1) * n
  BY Down
<1> HIDE DEF q
<1>2. y * n < (q + 1) * n
  BY <1>1, SMT
<1>3. y < q + 1
  BY <1>1, <1>2, CancelFactor
<1> QED
  BY <1>1, <1>3, SMT DEF q

\* What rounding down leaves out.
LEMMA Remainder ==
    ASSUME NEW x \in Int, NEW n \in Nat \ {0}
    PROVE  x % n \in Nat /\ x = (x \div n) * n + (x % n)
BY SMT

\* Rounding up covers the amount, and no multiple that does is smaller.
LEMMA Up ==
    ASSUME NEW x \in Nat, NEW n \in Nat \ {0}
    PROVE  CeilDiv(x, n) \in Nat /\ x <= CeilDiv(x, n) * n
<1> DEFINE z == x + n - 1
           q == z \div n
<1>1. z \in Nat
  BY SMT
<1> HIDE DEF z
<1>2. q \in Nat /\ z < (q + 1) * n
  BY <1>1, Down
<1> HIDE DEF q
<1>3. (q + 1) * n = q * n + n
  BY <1>2, SMT
<1>4. q * n \in Nat
  BY <1>2, SMT
<1>5. x <= q * n
  BY <1>2, <1>3, <1>4, SMT DEF z
<1> QED
  BY <1>2, <1>5 DEF CeilDiv, q, z

LEMMA UpAtMost ==
    ASSUME NEW x \in Nat, NEW n \in Nat \ {0}, NEW y \in Nat, x <= y * n
    PROVE  CeilDiv(x, n) <= y
<1> DEFINE z == x + n - 1
<1>1. z \in Nat /\ y * n \in Nat
  BY SMT
<1>2. z < (y + 1) * n
  <2>1. (y + 1) * n = y * n + n
    BY SMT
  <2> QED
    BY <2>1, <1>1, SMT
<1> HIDE DEF z
<1>3. z \div n < y + 1
  BY <1>1, <1>2, DownBelow
<1>4. z \div n \in Nat
  BY <1>1, Down
<1>5. z \div n <= y
  BY <1>3, <1>4, SMT
<1> QED
  BY <1>5 DEF CeilDiv, z

-----------------------------------------------------------------------------
(* Fees. *)

\* Both ways of taking a fee give natural numbers, and the fee on what is paid
\* is no more than that.
LEMMA FeeTypes ==
    ASSUME NEW a \in Nat, NEW f \in Nat
    PROVE  /\ FeeOnRaw(a, f) \in Nat /\ FeeOnTotal(a, f) \in Nat
           /\ FeeOnTotal(a, f) <= a
<1>1. FeeBase \in Nat \ {0} /\ f + FeeBase \in Nat \ {0}
  BY VeTrancheAssumption, SMT
<1>2. a * f \in Nat /\ a * f <= a * (f + FeeBase)
  <2>1. f * a \in Nat /\ f * a <= (f + FeeBase) * a
    BY <1>1, ProductMonotone, SMT
  <2> QED
    BY <2>1, <1>1, SMT
<1> QED
  BY <1>1, <1>2, Up, UpAtMost DEF FeeOnRaw, FeeOnTotal

\* A fee of nothing, and a fee at no rate, is nothing.
LEMMA NoFee ==
    ASSUME NEW a \in Nat
    PROVE  FeeOnRaw(a, 0) = 0 /\ FeeOnTotal(a, 0) = 0
<1>1. FeeBase \in Nat \ {0} /\ a * 0 = 0 /\ 0 + FeeBase = FeeBase
  BY VeTrancheAssumption, SMT
<1>2. CeilDiv(0, FeeBase) \in Nat /\ CeilDiv(0, FeeBase) <= 0
  BY <1>1, Up, UpAtMost, SMT
<1>3. CeilDiv(0, FeeBase) = 0
  BY <1>2, SMT
<1> QED
  BY <1>1, <1>3 DEF FeeOnRaw, FeeOnTotal

\* What is left of an amount after its fee is charged no more than that fee,
\* although both are rounded up.
LEMMA FeeOfRest ==
    ASSUME NEW g \in Nat, NEW net \in Nat, NEW f \in Nat, net + FeeOnTotal(g, f) <= g
    PROVE  FeeOnRaw(net, f) <= FeeOnTotal(g, f)
<1> DEFINE t == FeeOnTotal(g, f)
<1>1. FeeBase \in Nat \ {0} /\ f + FeeBase \in Nat \ {0}
  BY VeTrancheAssumption, SMT
<1>2. t \in Nat /\ g * f <= t * (f + FeeBase)
  BY <1>1, Up, SMT DEF FeeOnTotal
<1> HIDE DEF t
<1>3. (net + t) * f <= g * f
  BY <1>2, ProductMonotone, SMT DEF t
<1>4. (net + t) * f = net * f + t * f /\ t * (f + FeeBase) = t * f + t * FeeBase
  BY <1>1, <1>2, SMT
<1>5. /\ net * f \in Nat /\ t * f \in Nat /\ t * FeeBase \in Nat /\ g * f \in Nat
  BY <1>1, <1>2, SMT
<1>6. net * f <= t * FeeBase
  BY <1>2, <1>3, <1>4, <1>5, SMT
<1>7. CeilDiv(net * f, FeeBase) <= t
  BY <1>1, <1>2, <1>5, <1>6, UpAtMost
<1> QED
  BY <1>7 DEF FeeOnRaw, t

\* An amount with its fee on top is charged, as a whole, no more than that fee.
LEMMA FeeOfSum ==
    ASSUME NEW n \in Nat, NEW f \in Nat
    PROVE  FeeOnTotal(n + FeeOnRaw(n, f), f) <= FeeOnRaw(n, f)
<1> DEFINE r == FeeOnRaw(n, f)
<1>1. FeeBase \in Nat \ {0} /\ f + FeeBase \in Nat \ {0}
  BY VeTrancheAssumption, SMT
<1>2. r \in Nat /\ n * f \in Nat /\ n * f <= r * FeeBase
  BY <1>1, Up, SMT DEF FeeOnRaw
<1> HIDE DEF r
<1>3. (n + r) * f = n * f + r * f /\ r * (f + FeeBase) = r * f + r * FeeBase
  BY <1>1, <1>2, SMT
<1>4. (n + r) * f \in Nat /\ r * f \in Nat /\ r * FeeBase \in Nat /\ n + r \in Nat
  BY <1>1, <1>2, SMT
<1>5. (n + r) * f <= r * (f + FeeBase)
  BY <1>2, <1>3, <1>4, SMT
<1>6. CeilDiv((n + r) * f, f + FeeBase) <= r
  BY <1>1, <1>2, <1>4, <1>5, UpAtMost
<1> QED
  BY <1>6 DEF FeeOnTotal, r

-----------------------------------------------------------------------------
(* The balancing fee. *)

\* A part of a sum, in percent, grows with the part and falls with the rest.
LEMMA ShareOfSum ==
    ASSUME NEW x \in Nat, NEW y \in Nat, x <= y, NEW o \in Nat \ {0}
    PROVE  /\ (100 * x) \div (x + o) <= (100 * y) \div (y + o)
           /\ (100 * o) \div (y + o) <= (100 * o) \div (x + o)
<1> DEFINE q == (100 * x) \div (x + o)
           p == (100 * o) \div (y + o)
<1>1. /\ 100 * x \in Nat /\ 100 * y \in Nat /\ 100 * o \in Nat
      /\ x + o \in Nat \ {0} /\ y + o \in Nat \ {0}
  BY SMT
<1>2. q \in Nat /\ q * (x + o) <= 100 * x
  BY <1>1, Down
<1>3. q <= 100
  <2>1. 100 * x <= 100 * (x + o)
    BY SMT
  <2> QED
    BY <1>1, <2>1, DownAtMost
<1>4. p \in Nat /\ p * (y + o) <= 100 * o
  BY <1>1, Down
<1> HIDE DEF q, p
<1>5. q * (y + o) <= 100 * y
  <2>1. q * (y + o) = q * (x + o) + q * (y - x)
    BY <1>2, SMT
  <2>2. q * (y - x) <= 100 * (y - x)
    BY <1>2, <1>3, ProductMonotone, SMT
  <2>3. q * (y - x) \in Nat /\ q * (x + o) \in Nat
    BY <1>2, SMT
  <2> QED
    BY <1>2, <2>1, <2>2, <2>3, SMT
<1>6. p * (x + o) <= 100 * o
  <2>1. (x + o) * p <= (y + o) * p
    BY <1>1, <1>4, ProductMonotone, SMT
  <2>2. (x + o) * p = p * (x + o) /\ (y + o) * p = p * (y + o)
    BY <1>4, SMT
  <2>3. p * (x + o) \in Nat /\ p * (y + o) \in Nat
    BY <1>4, SMT
  <2> QED
    BY <1>4, <2>1, <2>2, <2>3, SMT
<1>7. q <= (100 * y) \div (y + o)
  BY <1>1, <1>2, <1>5, DownAtLeast
<1>8. p <= (100 * o) \div (x + o)
  BY <1>1, <1>4, <1>6, DownAtLeast
<1> QED
  BY <1>7, <1>8 DEF q, p

\* A rate is the fee or nothing.
LEMMA RateTypes ==
    ASSUME NEW a \in Nat
    PROVE  /\ DepositRate(a) \in Nat /\ DepositRate(a) \in {0, BalancingFee}
           /\ WithdrawalRate(a) \in Nat
BY TrancheSharesAssumption DEF DepositRate, WithdrawalRate

\* A limit that a number keeps is kept by those beyond it.
LEMMA BothSides ==
    ASSUME NEW p \in Nat, NEW q \in Nat, p <= q, NEW limit \in Nat
    PROVE  /\ 100 * q < 10000 - limit => 100 * p < 10000 - limit
           /\ 100 * p > limit => 100 * q > limit
BY SMT

\* Less in a tranche moves the ratio of the junior one in one direction.
LEMMA RatioMoves ==
    ASSUME NEW x \in Nat, NEW y \in Nat, x <= y
    PROVE  /\ IsJunior /\ TooLittleJunior(y) => TooLittleJunior(x)
           /\ ~IsJunior /\ TooMuchJunior(y) => TooMuchJunior(x)
<1>1. OtherAssets \in Nat \ {0} /\ BalancingDeltaThreshold \in Nat
  BY TrancheSharesAssumption, SMT
<1>2. /\ 100 * x \in Nat /\ 100 * y \in Nat /\ 100 * OtherAssets \in Nat
      /\ x + OtherAssets \in Nat \ {0} /\ y + OtherAssets \in Nat \ {0}
  BY <1>1, SMT
<1> DEFINE jx == (100 * x) \div (x + OtherAssets)
           jy == (100 * y) \div (y + OtherAssets)
           sx == (100 * OtherAssets) \div (x + OtherAssets)
           sy == (100 * OtherAssets) \div (y + OtherAssets)
<1>3. jx \in Nat /\ jy \in Nat /\ sx \in Nat /\ sy \in Nat
  BY <1>2, Down
<1>4. jx <= jy /\ sy <= sx
  BY <1>1, ShareOfSum
<1>5. IsJunior => DynamicReserveRatio(x) = jx /\ DynamicReserveRatio(y) = jy
  BY DEF DynamicReserveRatio
<1>6. ~IsJunior => DynamicReserveRatio(x) = sx /\ DynamicReserveRatio(y) = sy
  BY DEF DynamicReserveRatio
<1> HIDE DEF jx, jy, sx, sy
<1>7. ASSUME IsJunior, TooLittleJunior(y) PROVE TooLittleJunior(x)
  BY <1>1, <1>3, <1>4, <1>5, <1>7, BothSides DEF TooLittleJunior
<1>8. ASSUME ~IsJunior, TooMuchJunior(y) PROVE TooMuchJunior(x)
  BY <1>1, <1>3, <1>4, <1>6, <1>8, BothSides DEF TooMuchJunior
<1> QED
  BY <1>7, <1>8

\* Who takes out less is charged at no higher a rate.
LEMMA RateOfLess ==
    ASSUME assets \in Nat, NEW net \in Nat, NEW g \in Nat, net <= g, g <= assets,
           WithdrawalRate(net) # 0
    PROVE  WithdrawalRate(g) = WithdrawalRate(net)
<1> DEFINE x == assets - g
           y == assets - net
<1>1. x \in Nat /\ y \in Nat /\ x <= y
  BY SMT
<1>2. /\ IsJunior /\ TooLittleJunior(y) => TooLittleJunior(x)
      /\ ~IsJunior /\ TooMuchJunior(y) => TooMuchJunior(x)
  BY <1>1, RatioMoves
<1> QED
  BY <1>2 DEF WithdrawalRate

-----------------------------------------------------------------------------
(* What calls pay and cost. *)

\* What a deposit is charged is a part of it.
LEMMA DepositFeeTypes ==
    ASSUME NEW a \in Nat
    PROVE  /\ DepositFeesTotal(a) \in Nat /\ DepositFeesTotal(a) <= a
           /\ DepositFeesRaw(a) \in Nat
<1> DEFINE rate == DepositRate(a)
<1>1. rate \in Nat
  BY RateTypes
<1>2. /\ DepositFeesTotal(a) = IF feesOn THEN FeeOnTotal(a, rate) ELSE 0
      /\ DepositFeesRaw(a) = IF feesOn THEN FeeOnRaw(a, rate) ELSE 0
  BY DEF DepositFeesTotal, DepositFeesRaw
<1> HIDE DEF rate
<1>3. FeeOnRaw(a, rate) \in Nat /\ FeeOnTotal(a, rate) \in Nat /\ FeeOnTotal(a, rate) <= a
  BY <1>1, FeeTypes
<1>4. CASE feesOn
  BY <1>2, <1>3, <1>4
<1>5. CASE ~feesOn
  BY <1>2, <1>5, SMT
<1> QED
  BY <1>4, <1>5

\* What a withdrawal is charged is a natural number.
LEMMA WithdrawalFeeTypes ==
    ASSUME NEW a \in Nat, NEW health \in Nat
    PROVE  WithdrawalFeesRaw(a, health) \in Nat /\ WithdrawalFeesTotal(a, health) \in Nat
<1> DEFINE rate == WithdrawalRate(a)
<1>1. rate \in Nat
  BY RateTypes
<1> HIDE DEF rate
<1>2. /\ FeeOnRaw(a, rate) \in Nat /\ FeeOnRaw(a, health) \in Nat
      /\ FeeOnTotal(a, rate) \in Nat /\ FeeOnTotal(a, health) \in Nat
  BY <1>1, FeeTypes
<1>3. /\ WithdrawalFeesRaw(a, health) =
           IF feesOn THEN FeeOnRaw(a, rate) + FeeOnRaw(a, health) ELSE 0
      /\ WithdrawalFeesTotal(a, health) =
           IF feesOn THEN FeeOnTotal(a, rate) + FeeOnTotal(a, health) ELSE 0
  BY DEF WithdrawalFeesRaw, WithdrawalFeesTotal, rate
<1> QED
  BY <1>2, <1>3, SMT

\* An amount with a fee on top is charged, as a whole, no more than that fee,
\* at its rate or at none.
LEMMA FeeOnWhole ==
    ASSUME NEW n \in Nat, NEW rate \in Nat, NEW again, again = rate \/ again = 0
    PROVE  FeeOnTotal(n + FeeOnRaw(n, rate), again) <= FeeOnRaw(n, rate)
<1>1. FeeOnRaw(n, rate) \in Nat
  BY FeeTypes
<1>2. n + FeeOnRaw(n, rate) \in Nat
  BY <1>1, SMT
<1>3. FeeOnTotal(n + FeeOnRaw(n, rate), 0) = 0
  BY <1>2, NoFee
<1>4. CASE again = 0
  BY <1>1, <1>3, <1>4, SMT
<1>5. CASE again = rate
  BY <1>5, FeeOfSum
<1> QED
  BY <1>4, <1>5

\* Of what a mint asks for, the price of the shares stays in the tranche: the
\* fee on the whole is no more than the fee on top.
LEMMA MintPaysItsPrice ==
    ASSUME NEW n \in Nat
    PROVE  DepositFeesTotal(n + DepositFeesRaw(n)) <= DepositFeesRaw(n)
<1> DEFINE rate == DepositRate(n)
           whole == n + FeeOnRaw(n, rate)
           again == DepositRate(whole)
<1>1. CASE ~feesOn
  BY <1>1, SMT DEF DepositFeesTotal, DepositFeesRaw
<1>2. CASE feesOn
  <2>1. rate \in Nat /\ rate \in {0, BalancingFee}
    BY RateTypes
  <2>2. whole \in Nat
    <3>1. FeeOnRaw(n, rate) \in Nat
      BY <2>1, FeeTypes
    <3> HIDE DEF rate
    <3> QED
      BY <3>1, SMT
  <2>3. again \in {0, BalancingFee}
    BY <2>2, RateTypes
  <2>4. again = rate \/ again = 0
    <3>1. CASE rate = 0
      <4>1. FeeOnRaw(n, rate) = 0
        BY <3>1, NoFee
      <4>2. n + 0 = n
        BY SMT
      <4>3. whole = n
        BY <4>1, <4>2, Zenon
      <4> QED
        BY <4>3
    <3> QED
      BY <2>1, <2>3, <3>1
  <2>5. /\ DepositFeesRaw(n) = FeeOnRaw(n, rate)
        /\ DepositFeesTotal(n + DepositFeesRaw(n)) = FeeOnTotal(whole, again)
    BY <1>2 DEF DepositFeesRaw, DepositFeesTotal
  <2> HIDE DEF rate, again
  <2> QED
    BY <2>1, <2>4, <2>5, FeeOnWhole
<1> QED
  BY <1>1, <1>2

\* A redemption costs the tranche no more than what its shares are worth.
LEMMA RedeemCostsItsPrice ==
    ASSUME assets \in Nat, NEW g \in Nat, g <= assets, NEW health \in Nat,
           WithdrawalFeesTotal(g, health) <= g
    PROVE  LET net == g - WithdrawalFeesTotal(g, health)
           IN  net \in Nat /\ net + WithdrawalFeesRaw(net, health) <= g
<1> DEFINE net == g - WithdrawalFeesTotal(g, health)
           rate == WithdrawalRate(g)
           again == WithdrawalRate(net)
<1>1. WithdrawalFeesTotal(g, health) \in Nat /\ net \in Nat /\ net <= g
  <2>1. WithdrawalFeesTotal(g, health) \in Nat
    BY WithdrawalFeeTypes
  <2> QED
    BY <2>1, SMT
<1>2. CASE ~feesOn
  BY <1>1, <1>2, SMT DEF WithdrawalFeesTotal, WithdrawalFeesRaw
<1>3. CASE feesOn
  <2>1. WithdrawalFeesTotal(g, health) = FeeOnTotal(g, rate) + FeeOnTotal(g, health)
    BY <1>3 DEF WithdrawalFeesTotal
  <2>2. WithdrawalFeesRaw(net, health) = FeeOnRaw(net, again) + FeeOnRaw(net, health)
    BY <1>3 DEF WithdrawalFeesRaw
  <2>3. rate \in Nat /\ again \in Nat
    BY <1>1, RateTypes
  <2>4. again = 0 \/ again = rate
    BY <1>1, RateOfLess
  <2> HIDE DEF rate, again
  <2>5. FeeOnTotal(g, rate) \in Nat /\ FeeOnTotal(g, health) \in Nat
    BY <2>3, FeeTypes
  <2>6. net + FeeOnTotal(g, rate) <= g /\ net + FeeOnTotal(g, health) <= g
    BY <1>1, <2>1, <2>5, SMT
  <2> HIDE DEF net
  <2>7. FeeOnRaw(net, health) <= FeeOnTotal(g, health) /\ FeeOnRaw(net, health) \in Nat
    BY <1>1, <2>6, FeeOfRest, FeeTypes
  <2>8. FeeOnRaw(net, again) <= FeeOnTotal(g, rate) /\ FeeOnRaw(net, again) \in Nat
    <3>1. CASE again = 0
      BY <1>1, <2>5, <3>1, NoFee, SMT
    <3>2. CASE again = rate
      BY <1>1, <2>3, <2>6, <3>2, FeeOfRest, FeeTypes
    <3> QED
      BY <2>4, <3>1, <3>2
  <2> QED
    BY <1>1, <2>1, <2>2, <2>5, <2>7, <2>8, SMT DEF net
<1> QED
  BY <1>2, <1>3

-----------------------------------------------------------------------------
(* Conversions. *)

\* What a share is worth does not fall if what comes in is worth the new shares.
LEMMA MoreIn ==
    ASSUME NEW a \in Nat, NEW s \in Nat, NEW in \in Nat, NEW new \in Nat,
           new * (a + 1) <= in * (s + 1)
    PROVE  (a + in + 1) * (s + 1) >= (a + 1) * (s + new + 1)
<1>1. /\ (a + in + 1) * (s + 1) = (a + 1) * (s + 1) + in * (s + 1)
      /\ (a + 1) * (s + new + 1) = (a + 1) * (s + 1) + new * (a + 1)
  BY SMT
<1>2. (a + 1) * (s + 1) \in Nat /\ in * (s + 1) \in Nat /\ new * (a + 1) \in Nat
  BY SMT
<1> QED
  BY <1>1, <1>2, SMT

\* ... nor if the shares that are burnt are worth what goes out.
LEMMA LessOut ==
    ASSUME NEW a \in Nat, NEW s \in Nat, NEW out \in Nat, NEW burnt \in Nat,
           out * (s + 1) <= burnt * (a + 1)
    PROVE  (a - out + 1) * (s + 1) >= (a + 1) * (s - burnt + 1)
<1>1. /\ (a - out + 1) * (s + 1) = (a + 1) * (s + 1) - out * (s + 1)
      /\ (a + 1) * (s - burnt + 1) = (a + 1) * (s + 1) - burnt * (a + 1)
  BY SMT
<1>2. (a + 1) * (s + 1) \in Nat /\ out * (s + 1) \in Nat /\ burnt * (a + 1) \in Nat
  BY SMT
<1> QED
  BY <1>1, <1>2, SMT

\* The tranche has a number of assets and of shares, and of reserved assets.
Counted == assets \in Nat /\ totalSupply \in Nat /\ totalReserved \in Nat

\* Conversions are rounded in the direction of their names.
LEMMA Conversions ==
    ASSUME Counted, NEW n \in Nat
    PROVE  /\ SharesDown(n) \in Nat /\ SharesDown(n) * (assets + 1) <= n * (totalSupply + 1)
           /\ SharesUp(n) \in Nat /\ n * (totalSupply + 1) <= SharesUp(n) * (assets + 1)
           /\ AssetsDown(n) \in Nat /\ AssetsDown(n) * (totalSupply + 1) <= n * (assets + 1)
           /\ AssetsUp(n) \in Nat /\ n * (assets + 1) <= AssetsUp(n) * (totalSupply + 1)
<1>1. assets + 1 \in Nat \ {0} /\ totalSupply + 1 \in Nat \ {0}
  BY SMT DEF Counted
<1>2. n * (totalSupply + 1) \in Nat /\ n * (assets + 1) \in Nat
  BY <1>1, SMT
<1>3. /\ SharesDown(n) \in Nat /\ SharesDown(n) * (assets + 1) <= n * (totalSupply + 1)
      /\ AssetsDown(n) \in Nat /\ AssetsDown(n) * (totalSupply + 1) <= n * (assets + 1)
  BY <1>1, <1>2, Down DEF SharesDown, AssetsDown
<1>4. /\ SharesUp(n) \in Nat /\ n * (totalSupply + 1) <= SharesUp(n) * (assets + 1)
      /\ AssetsUp(n) \in Nat /\ n * (assets + 1) <= AssetsUp(n) * (totalSupply + 1)
  BY <1>1, <1>2, Up DEF SharesUp, AssetsUp
<1> QED
  BY <1>3, <1>4

\* More shares are worth no less.
LEMMA AssetsGrow ==
    ASSUME Counted, NEW m \in Nat, NEW n \in Nat, m <= n
    PROVE  AssetsDown(m) <= AssetsDown(n)
<1>1. assets + 1 \in Nat \ {0} /\ totalSupply + 1 \in Nat \ {0}
  BY SMT DEF Counted
<1>2. m * (assets + 1) \in Nat /\ n * (assets + 1) \in Nat /\ m * (assets + 1) <= n * (assets + 1)
  BY <1>1, ProductMonotone
<1>3. AssetsDown(m) \in Nat /\ AssetsDown(m) * (totalSupply + 1) <= m * (assets + 1)
  BY Conversions
<1>4. AssetsDown(m) * (totalSupply + 1) \in Nat
  BY <1>1, <1>3, SMT
<1>5. AssetsDown(m) * (totalSupply + 1) <= n * (assets + 1)
  BY <1>2, <1>3, <1>4, SMT
<1>6. AssetsDown(m) <= (n * (assets + 1)) \div (totalSupply + 1)
  BY <1>1, <1>2, <1>3, <1>5, DownAtLeast
<1> QED
  BY <1>6 DEF AssetsDown

-----------------------------------------------------------------------------
(* Limits. *)

\* Free assets leave what the reserved ones need.
LEMMA FreeTypes ==
    ASSUME Counted
    PROVE  /\ FreeAssets \in Nat /\ FreeAssets <= assets
           /\ FreeAssets > 0 => totalReserved * Precision * 100 < (assets - FreeAssets + 1) * WithdrawThreshold
<1> DEFINE r == totalReserved * Precision * 100
           kept == r \div WithdrawThreshold
<1>1. Precision \in Nat /\ WithdrawThreshold \in Nat \ {0}
  BY VeTrancheAssumption, TrancheSharesAssumption, SMT
<1>2. r \in Nat
  BY <1>1, SMT DEF Counted
<1> HIDE DEF r
<1>3. kept \in Nat /\ r < (kept + 1) * WithdrawThreshold
  BY <1>1, <1>2, Down
<1>4. FreeAssets = IF assets > kept THEN assets - kept ELSE 0
  BY DEF FreeAssets, r
<1> HIDE DEF kept
<1>5. CASE assets > kept
  <2>1. assets - FreeAssets + 1 = kept + 1
    BY <1>3, <1>4, <1>5, SMT DEF Counted
  <2>2. FreeAssets \in Nat /\ FreeAssets <= assets
    BY <1>3, <1>4, <1>5, SMT DEF Counted
  <2> QED
    BY <1>3, <2>1, <2>2 DEF r
<1>6. CASE ~(assets > kept)
  BY <1>3, <1>4, <1>6, SMT DEF Counted
<1> QED
  BY <1>5, <1>6

\* What maxRedeem allows is owned, and is worth no more than the free assets.
LEMMA WithinLimit ==
    ASSUME Counted, NEW h, balanceOf[h] \in Nat, NEW s \in Nat, s <= MaxRedeem(h)
    PROVE  s <= balanceOf[h] /\ AssetsDown(s) <= FreeAssets
<1> DEFINE b == balanceOf[h]
           f == FreeAssets
<1>1. assets + 1 \in Nat \ {0} /\ totalSupply + 1 \in Nat \ {0}
  BY SMT DEF Counted
<1>2. f \in Nat /\ b \in Nat
  BY FreeTypes
<1>3. /\ AssetsDown(b) \in Nat /\ AssetsDown(b) * (totalSupply + 1) <= b * (assets + 1)
      /\ AssetsDown(s) \in Nat
  BY <1>2, Conversions
<1>4. MaxRedeem(h) = IF AssetsDown(b) < f THEN b ELSE SharesDown(f)
  BY DEF MaxRedeem
<1> HIDE DEF b, f
<1>5. CASE AssetsDown(b) < f
  <2>1. s <= b
    BY <1>4, <1>5
  <2>2. AssetsDown(s) <= AssetsDown(b)
    BY <1>2, <2>1, AssetsGrow
  <2> QED
    BY <1>2, <1>3, <1>5, <2>1, <2>2, SMT DEF b, f
<1>6. CASE ~(AssetsDown(b) < f)
  <2>1. s <= SharesDown(f) /\ SharesDown(f) \in Nat
    BY <1>2, <1>4, <1>6, Conversions
  <2>2. f * (totalSupply + 1) \in Nat /\ f * (totalSupply + 1) <= AssetsDown(b) * (totalSupply + 1)
    BY <1>1, <1>2, <1>3, <1>6, ProductMonotone, SMT
  <2>3. f * (totalSupply + 1) <= b * (assets + 1)
    <3>1. AssetsDown(b) * (totalSupply + 1) \in Nat /\ b * (assets + 1) \in Nat
      BY <1>1, <1>2, <1>3, SMT
    <3> QED
      BY <1>3, <2>2, <3>1, SMT
  <2>4. SharesDown(f) <= b
    BY <1>1, <1>2, <2>2, <2>3, DownAtMost DEF SharesDown
  <2>5. s * (assets + 1) \in Nat /\ s * (assets + 1) <= f * (totalSupply + 1)
    <3>1. s * (assets + 1) \in Nat /\ SharesDown(f) * (assets + 1) \in Nat
          /\ s * (assets + 1) <= SharesDown(f) * (assets + 1)
      BY <1>1, <2>1, ProductMonotone
    <3>2. SharesDown(f) * (assets + 1) <= f * (totalSupply + 1)
      BY <1>2, Conversions
    <3> QED
      BY <2>2, <3>1, <3>2, SMT
  <2>6. AssetsDown(s) <= f
    BY <1>1, <1>2, <2>5, DownAtMost DEF AssetsDown
  <2> QED
    BY <1>2, <2>1, <2>4, <2>6, SMT DEF b, f
<1> QED
  BY <1>5, <1>6

-----------------------------------------------------------------------------
(* What shares are worth. *)

\* The assets and the shares that come in, and the price of the shares.
LEMMA PutInKeeps ==
    ASSUME Counted, NEW lp, NEW a \in Nat, NEW s \in Nat, PutIn(lp, a, s),
           s * (assets + 1) <= (a - DepositFeesTotal(a)) * (totalSupply + 1)
    PROVE  ValueKept
<1> DEFINE fee == DepositFeesTotal(a)
           in == a - fee
<1>1. fee \in Nat /\ fee <= a
  BY DepositFeeTypes
<1> HIDE DEF fee
<1>2. in \in Nat /\ assets' = assets + in
  BY <1>1, SMT DEF PutIn, fee, Counted
<1>3. s * (assets + 1) <= in * (totalSupply + 1) /\ totalSupply' = totalSupply + s
  BY DEF PutIn, fee
<1> HIDE DEF in
<1>4. (assets + in + 1) * (totalSupply + 1) >= (assets + 1) * (totalSupply + s + 1)
  BY <1>2, <1>3, MoreIn DEF Counted
<1> QED
  BY <1>2, <1>3, <1>4 DEF ValueKept

\* The assets that go out, with the fee, and the price of the shares.
LEMMA TakeOutKeeps ==
    ASSUME Counted, NEW h, NEW a \in Nat, NEW s \in Nat, NEW health \in Nat,
           TakeOut(h, a, s, health),
           (a + WithdrawalFeesRaw(a, health)) * (totalSupply + 1) <= s * (assets + 1)
    PROVE  ValueKept
<1> DEFINE fee == WithdrawalFeesRaw(a, health)
           out == a + fee
<1>1. fee \in Nat
  BY WithdrawalFeeTypes
<1> HIDE DEF fee
<1>2. out \in Nat /\ assets' = assets - out
  BY <1>1, SMT DEF TakeOut, fee, Counted
<1>3. out * (totalSupply + 1) <= s * (assets + 1) /\ totalSupply' = totalSupply - s
  BY DEF TakeOut, fee
<1> HIDE DEF out
<1>4. (assets - out + 1) * (totalSupply + 1) >= (assets + 1) * (totalSupply - s + 1)
  BY <1>2, <1>3, LessOut DEF Counted
<1> QED
  BY <1>2, <1>3, <1>4 DEF ValueKept

LEMMA DepositKeeps ==
    ASSUME Counted, NEW lp, NEW n \in Nat, Deposit(lp, n)
    PROVE  ValueKept
<1> DEFINE in == n - DepositFeesTotal(n)
<1>1. in \in Nat
  <2>1. DepositFeesTotal(n) \in Nat /\ DepositFeesTotal(n) <= n
    BY DepositFeeTypes
  <2> QED
    BY <2>1, SMT
<1>2. SharesDown(in) \in Nat /\ SharesDown(in) * (assets + 1) <= in * (totalSupply + 1)
  BY <1>1, Conversions
<1>3. PutIn(lp, n, SharesDown(in))
  BY DEF Deposit, PreviewDeposit
<1> QED
  BY <1>2, <1>3, PutInKeeps

LEMMA MintKeeps ==
    ASSUME Counted, NEW lp, NEW n \in Nat, Mint(lp, n)
    PROVE  ValueKept
<1> DEFINE up == AssetsUp(n)
           a == up + DepositFeesRaw(up)
           in == a - DepositFeesTotal(a)
<1>1. up \in Nat /\ n * (assets + 1) <= up * (totalSupply + 1)
  BY Conversions
<1>3. PutIn(lp, a, n)
  BY DEF Mint, PreviewMint
<1> HIDE DEF up
<1>4. DepositFeesRaw(up) \in Nat /\ DepositFeesTotal(a) <= DepositFeesRaw(up)
  BY <1>1, DepositFeeTypes, MintPaysItsPrice
<1>5. a \in Nat
  BY <1>1, <1>4, SMT
<1>6. DepositFeesTotal(a) \in Nat
  BY <1>5, DepositFeeTypes
<1>7. up <= in /\ in \in Nat
  BY <1>1, <1>4, <1>6, SMT
<1> HIDE DEF a
<1>8. n * (assets + 1) <= in * (totalSupply + 1)
  <2>1. totalSupply + 1 \in Nat /\ n * (assets + 1) \in Nat
    BY SMT DEF Counted
  <2>2. /\ up * (totalSupply + 1) \in Nat /\ in * (totalSupply + 1) \in Nat
        /\ up * (totalSupply + 1) <= in * (totalSupply + 1)
    BY <1>1, <1>7, <2>1, ProductMonotone
  <2> HIDE DEF in
  <2> QED
    BY <1>1, <2>1, <2>2, SMT
<1> QED
  BY <1>3, <1>5, <1>8, PutInKeeps

LEMMA WithdrawKeeps ==
    ASSUME Counted, NEW lp, NEW n \in Nat, NEW health \in Nat, Withdraw(lp, n, health)
    PROVE  ValueKept
<1> DEFINE out == n + WithdrawalFeesRaw(n, health)
<1>1. out \in Nat
  <2>1. WithdrawalFeesRaw(n, health) \in Nat
    BY WithdrawalFeeTypes
  <2> QED
    BY <2>1, SMT
<1>2. SharesUp(out) \in Nat /\ out * (totalSupply + 1) <= SharesUp(out) * (assets + 1)
  BY <1>1, Conversions
<1>3. TakeOut(lp, n, SharesUp(out), health)
  BY DEF Withdraw, PreviewWithdraw
<1> QED
  BY <1>2, <1>3, TakeOutKeeps

\* Redemptions, those of the liquidity providers and that of the unlock fees.
LEMMA RedeemKeeps ==
    ASSUME Counted, NEW h, balanceOf[h] \in Nat, NEW s \in Nat, s <= MaxRedeem(h),
           NEW health \in Nat, TakeOut(h, PreviewRedeem(s, health), s, health)
    PROVE  ValueKept
<1> DEFINE g == AssetsDown(s)
           net == g - WithdrawalFeesTotal(g, health)
           out == net + WithdrawalFeesRaw(net, health)
<1>1. g \in Nat /\ g * (totalSupply + 1) <= s * (assets + 1)
  BY Conversions
<1>2. g <= assets
  <2>1. g <= FreeAssets /\ FreeAssets <= assets /\ FreeAssets \in Nat
    BY WithinLimit, FreeTypes
  <2> HIDE DEF g
  <2> QED
    BY <1>1, <2>1, SMT DEF Counted
<1>3. TakeOut(h, net, s, health)
  BY DEF PreviewRedeem
<1> HIDE DEF g
<1>4. WithdrawalFeesTotal(g, health) \in Nat
  BY <1>1, WithdrawalFeeTypes
<1>5. net >= 0
  BY <1>3 DEF TakeOut, CanTakeOut
<1>6. WithdrawalFeesTotal(g, health) <= g
  BY <1>1, <1>4, <1>5, SMT
<1>7. net \in Nat /\ out <= g
  BY <1>1, <1>2, <1>6, RedeemCostsItsPrice DEF Counted
<1> HIDE DEF net
<1>8. WithdrawalFeesRaw(net, health) \in Nat
  BY <1>7, WithdrawalFeeTypes
<1>9. out \in Nat
  BY <1>7, <1>8, SMT
<1>10. out * (totalSupply + 1) <= s * (assets + 1)
  <2>1. totalSupply + 1 \in Nat /\ s * (assets + 1) \in Nat
    BY SMT DEF Counted
  <2> HIDE DEF out
  <2>2. /\ out * (totalSupply + 1) \in Nat /\ g * (totalSupply + 1) \in Nat
        /\ out * (totalSupply + 1) <= g * (totalSupply + 1)
    BY <1>1, <1>7, <1>9, <2>1, ProductMonotone
  <2> QED
    BY <1>1, <2>1, <2>2, SMT
<1> QED
  BY <1>3, <1>7, <1>10, TakeOutKeeps

\* Assets that come in for no shares.
LEMMA GiftKeeps ==
    ASSUME Counted, NEW in \in Nat, assets' = assets + in, totalSupply' = totalSupply
    PROVE  ValueKept
<1>1. 0 * (assets + 1) <= in * (totalSupply + 1)
  BY SMT DEF Counted
<1>2. (assets + in + 1) * (totalSupply + 1) >= (assets + 1) * (totalSupply + 0 + 1)
  BY <1>1, MoreIn DEF Counted
<1>3. totalSupply + 0 + 1 = totalSupply + 1
  BY SMT DEF Counted
<1> QED
  BY <1>2, <1>3 DEF ValueKept

\* Steps that leave assets and shares.
LEMMA NothingKeeps ==
    ASSUME Counted, assets' = assets, totalSupply' = totalSupply
    PROVE  ValueKept
<1>1. assets' = assets + 0 /\ 0 \in Nat
  BY SMT DEF Counted
<1> QED
  BY <1>1, GiftKeeps

\* With numbers of assets and shares, what maxRedeem says can be redeemed but
\* for the last unit (RedeemWithinLimitSucceeds).
THEOREM LimitCanBeRedeemed ==
    Counted /\ (\A h \in Holders : balanceOf[h] \in Nat) => RedeemWithinLimitSucceeds
<1> SUFFICES ASSUME Counted, \A h \in Holders : balanceOf[h] \in Nat,
                    NEW h \in Holders, NEW health \in CollateralFees,
                    NEW s \in 0 .. MaxRedeem(h),
                    AssetsDown(s) # FreeAssets,
                    WithdrawalFeesTotal(AssetsDown(s), health) <= AssetsDown(s)
             PROVE  CanRedeem(h, s, health)
  BY DEF RedeemWithinLimitSucceeds
<1> DEFINE g == AssetsDown(s)
           net == g - WithdrawalFeesTotal(g, health)
           raw == WithdrawalFeesRaw(net, health)
           left == assets - net - raw
           r == totalReserved * Precision * 100
<1>1. health \in Nat /\ WithdrawThreshold \in Nat \ {0} /\ Precision \in Nat
  BY VeTrancheAssumption, TrancheSharesAssumption, SMT
<1>2. s \in Nat /\ s <= MaxRedeem(h)
  BY SMT
<1>3. s <= balanceOf[h] /\ g <= FreeAssets
  BY <1>2, WithinLimit
<1>4. g \in Nat
  BY <1>2, Conversions
<1>5. /\ FreeAssets \in Nat /\ FreeAssets <= assets
      /\ FreeAssets > 0 => r < (assets - FreeAssets + 1) * WithdrawThreshold
  BY FreeTypes
<1>6. g < FreeAssets /\ g <= assets
  BY <1>3, <1>4, <1>5, SMT DEF Counted
<1>7. net \in Nat /\ net + raw <= g
  BY <1>1, <1>4, <1>6, RedeemCostsItsPrice DEF Counted
<1>8. PreviewRedeem(s, health) = net
  BY DEF PreviewRedeem
<1> HIDE DEF g, net
<1>9. raw \in Nat
  BY <1>1, <1>7, WithdrawalFeeTypes
<1> HIDE DEF raw
<1>10. left \in Nat \ {0} /\ assets - FreeAssets + 1 \in Nat /\ assets - FreeAssets + 1 <= left
  BY <1>4, <1>5, <1>6, <1>7, <1>9, SMT DEF Counted
<1>11. r \in Nat
  BY <1>1, SMT DEF Counted
<1> HIDE DEF left, r
<1>12. r < WithdrawThreshold * left
  <2>1. FreeAssets > 0
    BY <1>4, <1>5, <1>6, SMT
  <2>2. /\ (assets - FreeAssets + 1) * WithdrawThreshold \in Nat
        /\ left * WithdrawThreshold \in Nat
        /\ (assets - FreeAssets + 1) * WithdrawThreshold <= left * WithdrawThreshold
    BY <1>1, <1>10, ProductMonotone
  <2>3. left * WithdrawThreshold = WithdrawThreshold * left
    BY <1>1, <1>10, SMT
  <2> QED
    BY <1>5, <1>11, <2>1, <2>2, <2>3, SMT
<1>13. r \div left < WithdrawThreshold
  BY <1>1, <1>10, <1>11, <1>12, DownBelow
<1>14. CanTakeOut(h, net, s, health)
  BY <1>3, <1>7, <1>10, <1>13, SMT DEF CanTakeOut, raw, left, r
<1> QED
  BY <1>2, <1>8, <1>14 DEF CanRedeem

-----------------------------------------------------------------------------
(* Types of what the calls compute. *)

LockBook == [Ids -> LocksOf(Lps) \cup {NoLock}]

\* The parts of TypeOK that need no sum over the holders or over the locks, and
\* that the next token ids are free.
VeTyped ==
    /\ locks \in LockBook /\ \A id \in Ids : id >= tokenIds => locks[id] = NoLock
    /\ tokenIds \in 0 .. MaxLocks /\ distributions \in 0 .. MaxDistributions
    /\ perPoint \in Nat /\ usdc \in Nat /\ totalLockPoints \in Int
    /\ excess \in Nat

TrancheTyped ==
    /\ assets \in Nat /\ totalReserved \in Nat /\ feesOn \in BOOLEAN
    /\ balanceOf \in [Holders -> Nat]

Typed == VeTyped /\ TrancheTyped

LEMMA TypedInit == Init => Typed
<1> SUFFICES ASSUME Init PROVE Typed
  OBVIOUS
<1>1. locks \in LockBook /\ \A id \in Ids : locks[id] = NoLock
  BY DEF Init, VeInit, LockBook
<1>2. balanceOf \in [Holders -> Nat]
  BY SMT DEF Init
<1>3. 0 \in 0 .. MaxLocks /\ 0 \in 0 .. MaxDistributions
  BY VeTrancheAssumption, SMT
<1>4. VeTyped
  BY <1>1, <1>3, SMT DEF Init, VeInit, VeTyped
<1> QED
  <2>1. assets \in Nat /\ totalReserved \in Nat /\ feesOn \in BOOLEAN
    <3>1. assets \in Nat /\ totalReserved \in Nat
      BY SMT DEF Init
    <3>2. feesOn = FALSE
      BY DEF Init
    <3> QED
      BY <3>1, <3>2
  <2> QED
    BY <1>2, <1>4, <2>1, Zenon DEF TrancheTyped, Typed

LEMMA UnitType == Precision * Precision * Precision * Precision \in Nat \ {0}
<1>1. \A m, n \in Nat \ {0} : m * n \in Nat \ {0}
  BY SMT
<1> QED
  BY <1>1, VeTrancheAssumption

LEMMA VeUnchanged == VeTyped /\ UNCHANGED veVars => VeTyped'
BY DEF veVars, VeTyped, LockBook

\* A lock that is replaced, or the next one.
LEMMA LockReplaced ==
    ASSUME VeTyped, NEW id \in Ids, NEW v \in LocksOf(Lps) \cup {NoLock},
           locks' = [locks EXCEPT ![id] = v],
           \/ IsLocked(id) /\ tokenIds' = tokenIds
           \/ id = tokenIds /\ tokenIds' = tokenIds + 1
    PROVE  /\ locks' \in LockBook /\ \A i \in Ids : i >= tokenIds' => locks'[i] = NoLock
           /\ tokenIds' \in 0 .. MaxLocks
<1>1. locks' \in LockBook
  BY Zenon DEF VeTyped, LockBook
<1>2. /\ MaxLocks \in Nat /\ id \in Nat /\ id < MaxLocks
      /\ tokenIds \in Nat /\ tokenIds <= MaxLocks
  BY VeTrancheAssumption, SMT DEF Ids, VeTyped
<1>3. CASE IsLocked(id) /\ tokenIds' = tokenIds
  <2>1. ~(id >= tokenIds)
    BY <1>3, Zenon DEF VeTyped, IsLocked
  <2>2. \A i \in Ids : i >= tokenIds => locks'[i] = NoLock
    BY <2>1, Zenon DEF VeTyped, LockBook
  <2> QED
    BY <1>1, <1>3, <2>2, Zenon DEF VeTyped
<1>4. CASE id = tokenIds /\ tokenIds' = tokenIds + 1
  <2>1. ASSUME NEW i \in Ids, i >= tokenIds'
        PROVE  locks'[i] = NoLock
    <3>1. i >= tokenIds /\ i # id
      <4>1. i \in Nat
        BY VeTrancheAssumption, SMT DEF Ids
      <4> QED
        BY <1>2, <1>4, <2>1, <4>1, SMT
    <3> QED
      BY <3>1, Zenon DEF VeTyped, LockBook
  <2>2. tokenIds' \in 0 .. MaxLocks
    BY <1>2, <1>4, SMT
  <2> QED
    BY <1>1, <2>1, <2>2
<1> QED
  BY <1>3, <1>4

\* What a lock has earned is a number.
LEMMA OwedType ==
    ASSUME VeTyped, NEW id \in Ids, IsLocked(id)
    PROVE  locks[id] \in LocksOf(Lps) /\ Points(id) \in Nat /\ Owed(id) \in Int
<1> DEFINE earned == perPoint - locks[id].last
           unit == Precision * Precision * Precision * Precision
<1>1. locks[id] \in LocksOf(Lps)
  BY DEF VeTyped, LockBook, IsLocked
<1>2. locks[id].shares \in Nat /\ locks[id].multiplier \in Nat /\ locks[id].last \in Nat
  BY <1>1 DEF LocksOf
<1>3. Points(id) \in Nat
  BY <1>2, SMT DEF Points
<1>4. earned \in Int
  BY <1>2, SMT DEF VeTyped
<1>5. unit \in Nat \ {0}
  BY UnitType
<1> HIDE DEF earned, unit
<1>6. earned * Points(id) \in Int
  BY <1>3, <1>4, SMT
<1>7. (earned * Points(id)) \div unit \in Int
  BY <1>5, <1>6, SMT
<1> QED
  BY <1>1, <1>3, <1>7 DEF Owed, earned, unit

LEMMA PutInTypes ==
    ASSUME Typed, NEW lp \in Lps, NEW a \in Nat, NEW s \in Nat, PutIn(lp, a, s)
    PROVE  Typed'
<1> DEFINE fee == DepositFeesTotal(a)
<1>1. fee \in Nat /\ fee <= a
  BY DepositFeeTypes
<1>2. assets' = assets + a - fee
  BY DEF PutIn
<1> HIDE DEF fee
<1>3. assets' \in Nat
  BY <1>1, <1>2, SMT DEF Typed, TrancheTyped
<1>4. balanceOf' \in [Holders -> Nat]
  BY SMT DEF PutIn, Typed, TrancheTyped, Holders
<1>5. TrancheTyped'
  BY <1>3, <1>4 DEF PutIn, Typed, TrancheTyped
<1>6. VeTyped'
  BY VeUnchanged DEF PutIn, Typed
<1> QED
  BY <1>5, <1>6 DEF Typed

LEMMA TakeOutTypes ==
    ASSUME Typed, NEW h \in Holders, NEW a \in Int, NEW s \in Nat, NEW health \in Nat,
           TakeOut(h, a, s, health)
    PROVE  TrancheTyped'
<1> DEFINE fee == WithdrawalFeesRaw(a, health)
<1>1. a \in Nat /\ s <= balanceOf[h] /\ assets - a - fee > 0 /\ assets' = assets - a - fee
  <2>1. a >= 0 /\ s <= balanceOf[h] /\ assets - a - fee > 0 /\ assets' = assets - a - fee
    BY DEF TakeOut, CanTakeOut
  <2> HIDE DEF fee
  <2> QED
    BY <2>1, SMT
<1>2. fee \in Nat
  BY <1>1, WithdrawalFeeTypes
<1> HIDE DEF fee
<1>3. assets' \in Nat
  BY <1>1, <1>2, SMT DEF Typed, TrancheTyped
<1>4. balanceOf' \in [Holders -> Nat]
  <2>1. balanceOf' = [balanceOf EXCEPT ![h] = @ - s]
    BY DEF TakeOut
  <2> QED
    BY <1>1, <2>1, SMT DEF Typed, TrancheTyped
<1> QED
  BY <1>3, <1>4 DEF TakeOut, Typed, TrancheTyped

\* Shares that leave a lock: none, or its own.
LEMMA ReleaseTypes ==
    ASSUME Typed, NEW id \in Ids, IsLocked(id), NEW fee \in Nat, Release(id, fee)
    PROVE  VeTyped'
<1>1. VeTyped
  BY DEF Typed
<1>2. Points(id) \in Nat /\ Owed(id) \in Int
  BY <1>1, OwedType
<1>3. totalLockPoints' \in Int /\ usdc' \in Nat
  BY <1>1, <1>2, SMT DEF Release, VeTyped
<1>4. NoLock \in LocksOf(Lps) \cup {NoLock}
  OBVIOUS
<1>5. /\ locks' \in LockBook /\ \A i \in Ids : i >= tokenIds' => locks'[i] = NoLock
      /\ tokenIds' \in 0 .. MaxLocks
  BY <1>1, <1>4, LockReplaced DEF Release
<1> QED
  BY <1>1, <1>3, <1>5 DEF Release, VeTyped

\* The fee is a part of the shares.
LEMMA UnlockFeeTypes ==
    ASSUME Typed, NEW id \in Ids, IsLocked(id), NEW fee \in UnlockFees(id, feesOn)
    PROVE  fee \in Nat /\ fee <= locks[id].shares /\ locks[id].shares \in Nat
           /\ locks[id].owner \in Lps
<1> DEFINE n == locks[id].shares
           most == CeilDiv(n * EarlyWithdrawFee, FeeBase)
<1>1. locks[id] \in LocksOf(Lps)
  BY DEF Typed, VeTyped, TrancheTyped, LockBook, IsLocked
<1>2. n \in Nat /\ locks[id].owner \in Lps
  BY <1>1 DEF LocksOf
<1>3. fee \in {0} \/ fee \in 1 .. most
  BY DEF UnlockFees
<1> HIDE DEF n
<1>4. /\ EarlyWithdrawFee \in Nat /\ FeeBase \in Nat \ {0} /\ EarlyWithdrawFee <= FeeBase
      /\ n * EarlyWithdrawFee \in Nat /\ n * EarlyWithdrawFee <= n * FeeBase
  <2>1. EarlyWithdrawFee \in Nat /\ FeeBase \in Nat \ {0} /\ EarlyWithdrawFee <= FeeBase
    BY VeTrancheAssumption, SMT
  <2>2. /\ EarlyWithdrawFee * n \in Nat /\ FeeBase * n \in Nat
        /\ EarlyWithdrawFee * n <= FeeBase * n
    BY <1>2, <2>1, ProductMonotone
  <2>3. EarlyWithdrawFee * n = n * EarlyWithdrawFee /\ FeeBase * n = n * FeeBase
    BY <1>2, <2>1, SMT
  <2> QED
    BY <2>1, <2>2, <2>3
<1>5. most \in Nat /\ most <= n
  BY <1>2, <1>4, Up, UpAtMost
<1> HIDE DEF most
<1>6. fee \in Nat /\ fee <= n
  BY <1>2, <1>3, <1>5, SMT
<1> QED
  BY <1>2, <1>6 DEF n

LEMMA ReturnedTypes ==
    ASSUME Typed, NEW id \in Ids, locks[id].owner \in Lps, locks[id].shares \in Nat,
           NEW fee \in Nat, fee <= locks[id].shares, Returned(id, fee)
    PROVE  TrancheTyped'
<1> DEFINE o == locks[id].owner
           n == locks[id].shares
<1>1. balanceOf' = [balanceOf EXCEPT ![o] = @ + n - fee, ![Manager] = @ + fee]
  BY DEF Returned
<1>2. o \in Holders /\ Manager \in Holders /\ o # Manager /\ n \in Nat /\ fee <= n
  BY TrancheSharesAssumption DEF Holders
<1> HIDE DEF o, n
<1>3. balanceOf[o] + n - fee \in Nat /\ balanceOf[Manager] + fee \in Nat
  BY <1>2, SMT DEF Typed, TrancheTyped
<1>4. balanceOf' \in [Holders -> Nat]
  BY <1>1, <1>2, <1>3, SMT DEF Typed, TrancheTyped
<1> QED
  BY <1>4 DEF Returned, Typed, TrancheTyped

\* What a distribution credits beyond its USDC is a number.
LEMMA CreditedType ==
    ASSUME NEW rewards \in Nat, totalLockPoints \in Int, WholePoints > 0
    PROVE  CreditedBeyond(rewards) \in Nat
<1> DEFINE w == WholePoints
           rest == totalLockPoints % Precision
<1>1. Precision \in Nat \ {0}
  BY VeTrancheAssumption
<1>2. w \in Int /\ rest \in Nat /\ w > 0
  BY <1>1, Remainder, SMT DEF WholePoints
<1> HIDE DEF w, rest
<1>3. rewards * rest \in Nat
  BY <1>2, SMT
<1>4. Precision * w \in Nat \ {0}
  <2>1. w \in Nat \ {0}
    BY <1>2, SMT
  <2> QED
    BY <1>1, <2>1, SMT
<1>5. CeilDiv(rewards * rest, Precision * w) \in Nat
  BY <1>3, <1>4, Up
<1> QED
  BY <1>5 DEF CreditedBeyond, w, rest

\* A distribution over whole points raises the accumulator.
LEMMA DistributeTypes ==
    ASSUME Typed, NEW rewards \in Nat, DistributeRewards(rewards)
    PROVE  VeTyped'
<1> DEFINE w == WholePoints
           n == rewards * Precision * Precision * Precision
<1>1. w > 0 /\ perPoint' = perPoint + n \div w
  BY DEF DistributeRewards
<1>2. Precision \in Nat \ {0}
  BY VeTrancheAssumption
<1>3. w \in Int
  BY <1>2, SMT DEF WholePoints, Typed, VeTyped
<1>4. n \in Nat
  BY <1>2, SMT
<1> HIDE DEF w, n
<1>5. w \in Nat \ {0}
  BY <1>1, <1>3, SMT
<1>6. n \div w \in Nat
  BY <1>4, <1>5, Down
<1>7. perPoint' \in Nat /\ usdc' \in Nat
  BY <1>1, <1>6, SMT DEF DistributeRewards, Typed, VeTyped
<1>8. distributions' \in 0 .. MaxDistributions
  BY VeTrancheAssumption, SMT DEF DistributeRewards, Typed, VeTyped
<1>9. UNCHANGED <<locks, tokenIds, totalLockPoints>>
  BY DEF DistributeRewards
<1>10. excess' \in Nat
  <2>1. WholePoints > 0 /\ excess' = excess + CreditedBeyond(rewards)
    BY DEF DistributeRewards
  <2>2. excess \in Nat /\ totalLockPoints \in Int
    BY DEF Typed, VeTyped
  <2>3. CreditedBeyond(rewards) \in Nat
    BY <2>1, <2>2, CreditedType
  <2> QED
    BY <2>1, <2>2, <2>3, SMT
<1> QED
  BY <1>7, <1>8, <1>9, <1>10 DEF Typed, VeTyped, LockBook

LEMMA LockTypes ==
    ASSUME Typed, NEW owner \in Lps, NEW s \in Nat \ {0}, NEW multiplier \in Nat,
           Lock(owner, s, multiplier)
    PROVE  VeTyped'
<1> DEFINE v == [owner |-> owner, shares |-> s, multiplier |-> multiplier,
                 last |-> Start, over |-> FALSE]
<1>1. VeTyped
  BY DEF Typed
<1>2. totalLockPoints' \in Int
  <2>1. s * multiplier \in Nat
    BY SMT
  <2> QED
    BY <1>1, <2>1, SMT DEF Lock, VeTyped
<1>3. v \in LocksOf(Lps) \cup {NoLock}
  BY <1>1 DEF LocksOf, Start, VeTyped
<1>4. tokenIds \in Ids /\ tokenIds' = tokenIds + 1 /\ locks' = [locks EXCEPT ![tokenIds] = v]
  BY DEF Lock
<1> HIDE DEF v
<1>5. /\ locks' \in LockBook /\ \A i \in Ids : i >= tokenIds' => locks'[i] = NoLock
      /\ tokenIds' \in 0 .. MaxLocks
  BY <1>1, <1>3, <1>4, LockReplaced
<1> QED
  BY <1>1, <1>2, <1>5 DEF Lock, VeTyped

\* A claim and the end of a lock time change one field of a lock.
LEMMA FieldTypes ==
    ASSUME Typed, NEW id \in Ids, IsLocked(id), LockTimeEnds(id) \/ ClaimRewards(id)
    PROVE  VeTyped'
<1>1. VeTyped /\ perPoint \in Nat
  BY DEF Typed, VeTyped
<1>2. locks[id] \in LocksOf(Lps) /\ Owed(id) \in Int
  BY <1>1, OwedType
<1>3. PICK v \in LocksOf(Lps) : locks' = [locks EXCEPT ![id] = v]
  <2>1. /\ [locks[id] EXCEPT !.over = TRUE] \in LocksOf(Lps)
        /\ [locks[id] EXCEPT !.last = perPoint] \in LocksOf(Lps)
    BY <1>1, <1>2 DEF LocksOf
  <2>2. \/ locks' = [locks EXCEPT ![id] = [locks[id] EXCEPT !.over = TRUE]]
        \/ locks' = [locks EXCEPT ![id] = [locks[id] EXCEPT !.last = perPoint]]
    BY DEF LockTimeEnds, ClaimRewards
  <2> QED
    BY <2>1, <2>2, Zenon
<1>4. UNCHANGED <<tokenIds, perPoint, totalLockPoints, distributions, excess>> /\ usdc' \in Nat
  BY <1>1, <1>2, SMT DEF LockTimeEnds, ClaimRewards, VeTyped
<1>5. /\ locks' \in LockBook /\ \A i \in Ids : i >= tokenIds' => locks'[i] = NoLock
      /\ tokenIds' \in 0 .. MaxLocks
  BY <1>1, <1>3, <1>4, LockReplaced
<1> QED
  BY <1>1, <1>4, <1>5 DEF VeTyped

-----------------------------------------------------------------------------
(* Sums over the locks and over the holders. *)

SharesAt(l) == [id \in Ids |-> l[id].shares]

\* The lock points of a lock, none without one.
PointsOf(lock) == IF lock # NoLock THEN lock.shares * lock.multiplier ELSE 0
PointsAt(l) == [id \in Ids |-> PointsOf(l[id])]

LEMMA FiniteDomains == IsFiniteSet(Ids) /\ IsFiniteSet(Holders)
<1>1. IsFiniteSet(Ids)
  BY VeTrancheAssumption, FS_Interval, SMT DEF Ids
<1>2. IsFiniteSet(Lps)
  BY TrancheSharesAssumption, SMT
<1>3. IsFiniteSet({Manager})
  BY FS_Singleton
<1> QED
  BY <1>1, <1>2, <1>3, FS_Union DEF Holders

\* Shares and points of a lock.
LEMMA LockNumbers ==
    ASSUME NEW lock \in LocksOf(Lps) \cup {NoLock}
    PROVE  lock.shares \in Nat /\ PointsOf(lock) \in Nat
<1>1. CASE lock = NoLock
  BY <1>1 DEF NoLock, PointsOf
<1>2. CASE lock # NoLock
  <2>1. lock.shares \in Nat /\ lock.multiplier \in Nat
    BY <1>2 DEF LocksOf
  <2>2. lock.shares * lock.multiplier \in Nat
    BY <2>1, SMT
  <2> QED
    BY <1>2, <2>1, <2>2 DEF PointsOf
<1> QED
  BY <1>1, <1>2

LEMMA LockSumTypes ==
    ASSUME NEW l \in LockBook
    PROVE  /\ SharesAt(l) \in [Ids -> Nat] /\ PointsAt(l) \in [Ids -> Nat]
           /\ SumFunction(SharesAt(l)) \in Nat /\ SumFunction(PointsAt(l)) \in Nat
<1>1. \A id \in Ids : l[id].shares \in Nat /\ PointsOf(l[id]) \in Nat
  BY LockNumbers DEF LockBook
<1>2. SharesAt(l) \in [Ids -> Nat] /\ PointsAt(l) \in [Ids -> Nat]
  BY <1>1 DEF SharesAt, PointsAt
<1> QED
  BY <1>2, SumType, FiniteDomains

\* The sums after one lock is replaced.
SumsChange(l, k, id) ==
    /\ SumFunction(SharesAt(k)) = SumFunction(SharesAt(l)) - l[id].shares + k[id].shares
    /\ SumFunction(PointsAt(k)) = SumFunction(PointsAt(l)) - PointsOf(l[id]) + PointsOf(k[id])

LEMMA OneLock ==
    ASSUME NEW l \in LockBook, NEW k \in LockBook, NEW id \in Ids,
           \A i \in Ids \ {id} : k[i] = l[i]
    PROVE  SumsChange(l, k, id)
<1>1. /\ SharesAt(l) \in [Ids -> Nat] /\ PointsAt(l) \in [Ids -> Nat]
      /\ SharesAt(k) \in [Ids -> Nat] /\ PointsAt(k) \in [Ids -> Nat]
  BY LockSumTypes
<1>2. \A i \in Ids \ {id} : SharesAt(k)[i] = SharesAt(l)[i] /\ PointsAt(k)[i] = PointsAt(l)[i]
  BY Zenon DEF SharesAt, PointsAt
<1>3. /\ SharesAt(k)[id] = k[id].shares /\ SharesAt(l)[id] = l[id].shares
      /\ PointsAt(k)[id] = PointsOf(k[id]) /\ PointsAt(l)[id] = PointsOf(l[id])
  BY DEF SharesAt, PointsAt
<1>4. SumFunction(SharesAt(k)) = SumFunction(SharesAt(l)) - SharesAt(l)[id] + SharesAt(k)[id]
  BY <1>1, <1>2, SumChanges, FiniteDomains
<1>5. SumFunction(PointsAt(k)) = SumFunction(PointsAt(l)) - PointsAt(l)[id] + PointsAt(k)[id]
  BY <1>1, <1>2, SumChanges, FiniteDomains
<1> QED
  BY <1>3, <1>4, <1>5, Zenon DEF SumsChange

\* The balances after shares come to a holder, leave one, or go from one to
\* another.
LEMMA OneBalance ==
    ASSUME NEW b \in [Holders -> Nat], NEW h \in Holders, NEW n \in Nat
    PROVE  SumFunction([b EXCEPT ![h] = n]) = SumFunction(b) - b[h] + n
<1> DEFINE c == [b EXCEPT ![h] = n]
<1>1. c \in [Holders -> Nat] /\ c[h] = n /\ \A x \in Holders \ {h} : c[x] = b[x]
  OBVIOUS
<1> HIDE DEF c
<1>2. SumFunction(c) = SumFunction(b) - b[h] + c[h]
  BY <1>1, SumChanges, FiniteDomains
<1> QED
  BY <1>1, <1>2 DEF c

SumMoves(b, c, h, k) == SumFunction(c) = SumFunction(b) - b[h] - b[k] + c[h] + c[k]

LEMMA TwoBalances ==
    ASSUME NEW b \in [Holders -> Nat], NEW c \in [Holders -> Nat],
           NEW h \in Holders, NEW k \in Holders, h # k,
           \A x \in Holders \ {h, k} : c[x] = b[x]
    PROVE  SumMoves(b, c, h, k)
<1> DEFINE d == [b EXCEPT ![h] = c[h]]
<1>1. /\ d \in [Holders -> Nat] /\ d[k] = b[k] /\ d[h] = c[h]
      /\ \A x \in Holders \ {k} : c[x] = d[x]
  OBVIOUS
<1>2. SumFunction(d) = SumFunction(b) - b[h] + c[h]
  <2>1. c[h] \in Nat
    OBVIOUS
  <2> QED
    BY <2>1, OneBalance
<1> HIDE DEF d
<1>3. SumFunction(c) = SumFunction(d) - d[k] + c[k]
  BY <1>1, SumChanges, FiniteDomains
<1>4. /\ SumFunction(b) \in Nat /\ SumFunction(c) \in Nat /\ SumFunction(d) \in Nat
      /\ b[h] \in Nat /\ b[k] \in Nat /\ c[h] \in Nat /\ c[k] \in Nat
  BY <1>1, SumType, FiniteDomains
<1> QED
  BY <1>1, <1>2, <1>3, <1>4, SMT DEF SumMoves

-----------------------------------------------------------------------------
(* The totals stay exact. *)

LocksCounted ==
    /\ trancheShares = SumFunction(SharesAt(locks))
    /\ totalLockPoints = SumFunction(PointsAt(locks))

HoldersCounted == totalSupply = trancheShares + SumFunction(balanceOf)

\* SharesExact, with the sums named.
LEMMA ExactMeans == SharesExact <=> LocksCounted /\ HoldersCounted
<1>1. [id \in Ids |-> locks[id].shares] = SharesAt(locks)
  BY DEF SharesAt
<1>2. [id \in Ids |-> IF IsLocked(id) THEN Points(id) ELSE 0] = PointsAt(locks)
  BY DEF PointsAt, PointsOf, IsLocked, Points
<1> QED
  BY <1>1, <1>2, Zenon DEF SharesExact, LocksExact, LocksCounted, HoldersCounted

LEMMA CountedInit == Init => LocksCounted /\ HoldersCounted
<1> SUFFICES ASSUME Init PROVE LocksCounted /\ HoldersCounted
  OBVIOUS
<1>1. /\ locks = [id \in Ids |-> NoLock] /\ balanceOf = [h \in Holders |-> 0]
      /\ trancheShares = 0 /\ totalLockPoints = 0 /\ totalSupply = 0
  BY DEF Init, VeInit
<1>2. locks \in LockBook /\ balanceOf \in [Holders -> Nat]
  BY TypedInit DEF Typed, VeTyped, TrancheTyped
<1>3. SharesAt(locks) \in [Ids -> Nat] /\ PointsAt(locks) \in [Ids -> Nat]
  BY <1>2, LockSumTypes
<1>4. \A id \in Ids : SharesAt(locks)[id] = 0 /\ PointsAt(locks)[id] = 0
  BY <1>1 DEF SharesAt, PointsAt, PointsOf, NoLock
<1>5. \A h \in Holders : balanceOf[h] = 0
  BY <1>1
<1>6. SumFunction(SharesAt(locks)) = 0 /\ SumFunction(PointsAt(locks)) = 0
  BY <1>3, <1>4, SumOfNothing, FiniteDomains
<1>7. SumFunction(balanceOf) = 0
  BY <1>2, <1>5, SumOfNothing, FiniteDomains
<1> QED
  BY <1>1, <1>6, <1>7, SMT DEF LocksCounted, HoldersCounted

LEMMA OneLockCounted ==
    ASSUME locks \in LockBook, locks' \in LockBook, LocksCounted, NEW id \in Ids,
           \A i \in Ids \ {id} : locks'[i] = locks[i],
           trancheShares' = trancheShares - locks[id].shares + locks'[id].shares,
           totalLockPoints' = totalLockPoints - PointsOf(locks[id]) + PointsOf(locks'[id])
    PROVE  LocksCounted'
<1>1. SumsChange(locks, locks', id)
  BY OneLock
<1> QED
  BY <1>1 DEF SumsChange, LocksCounted

\* A new lock.
LEMMA LockCounts ==
    ASSUME VeTyped, LocksCounted, NEW owner \in Lps, NEW s \in Nat \ {0},
           NEW multiplier \in Nat, Lock(owner, s, multiplier), locks' \in LockBook
    PROVE  LocksCounted' /\ trancheShares' = trancheShares + s
<1> DEFINE v == [owner |-> owner, shares |-> s, multiplier |-> multiplier,
                 last |-> Start, over |-> FALSE]
<1>1. /\ tokenIds \in Ids /\ locks' = [locks EXCEPT ![tokenIds] = v]
      /\ trancheShares' = trancheShares + s
      /\ totalLockPoints' = totalLockPoints + s * multiplier
  BY DEF Lock
<1>2. locks[tokenIds] = NoLock /\ locks \in LockBook
  <2>1. tokenIds >= tokenIds
    BY SMT DEF VeTyped
  <2> QED
    BY <1>1, <2>1 DEF VeTyped
<1>3. locks'[tokenIds] = v /\ \A i \in Ids \ {tokenIds} : locks'[i] = locks[i]
  BY <1>1, <1>2, Zenon DEF LockBook
<1>4. v.shares = s /\ v.multiplier = multiplier /\ v # NoLock
  BY DEF NoLock
<1> HIDE DEF v
<1>5. NoLock.shares = 0 /\ PointsOf(NoLock) = 0 /\ PointsOf(v) = s * multiplier
  BY <1>4 DEF PointsOf, NoLock
<1>6. trancheShares \in Int /\ totalLockPoints \in Int /\ s * multiplier \in Int
  <2>1. SumFunction(SharesAt(locks)) \in Nat
    BY <1>2, LockSumTypes
  <2> QED
    BY <2>1, SMT DEF LocksCounted, VeTyped
<1>7. /\ trancheShares' = trancheShares - locks[tokenIds].shares + locks'[tokenIds].shares
      /\ totalLockPoints' = totalLockPoints - PointsOf(locks[tokenIds]) + PointsOf(locks'[tokenIds])
  BY <1>1, <1>2, <1>3, <1>4, <1>5, <1>6, SMT
<1> QED
  BY <1>1, <1>2, <1>3, <1>7, OneLockCounted

\* A lock that is released.
LEMMA ReleaseCounts ==
    ASSUME VeTyped, LocksCounted, NEW id \in Ids, IsLocked(id), NEW fee,
           Release(id, fee), locks' \in LockBook
    PROVE  LocksCounted' /\ trancheShares' = trancheShares - locks[id].shares
<1>1. /\ locks' = [locks EXCEPT ![id] = NoLock]
      /\ trancheShares' = trancheShares - locks[id].shares
      /\ totalLockPoints' = totalLockPoints - Points(id)
  BY DEF Release
<1>2. locks \in LockBook /\ locks[id] \in LocksOf(Lps)
  BY OwedType DEF VeTyped
<1>3. locks'[id] = NoLock /\ \A i \in Ids \ {id} : locks'[i] = locks[i]
  BY <1>1, <1>2, Zenon DEF LockBook
<1>4. PointsOf(locks[id]) = Points(id) /\ NoLock.shares = 0 /\ PointsOf(NoLock) = 0
  BY DEF PointsOf, Points, IsLocked, NoLock
<1>5. trancheShares \in Int /\ totalLockPoints \in Int /\ Points(id) \in Int
      /\ locks[id].shares \in Int
  <2>1. SumFunction(SharesAt(locks)) \in Nat
    BY <1>2, LockSumTypes
  <2>2. Points(id) \in Nat
    BY OwedType
  <2>3. locks[id].shares \in Nat
    BY <1>2, LockNumbers
  <2> QED
    BY <2>1, <2>2, <2>3, SMT DEF LocksCounted, VeTyped
<1>6. /\ trancheShares' = trancheShares - locks[id].shares + locks'[id].shares
      /\ totalLockPoints' = totalLockPoints - PointsOf(locks[id]) + PointsOf(locks'[id])
  BY <1>1, <1>3, <1>4, <1>5, SMT
<1> QED
  BY <1>1, <1>2, <1>3, <1>6, OneLockCounted

\* A claim and the end of a lock time leave shares and points.
LEMMA FieldCounts ==
    ASSUME VeTyped, LocksCounted, NEW id \in Ids, LockTimeEnds(id) \/ ClaimRewards(id),
           locks' \in LockBook
    PROVE  LocksCounted' /\ trancheShares' = trancheShares
<1>1. IsLocked(id) /\ UNCHANGED <<trancheShares, totalLockPoints>>
  BY DEF LockTimeEnds, ClaimRewards
<1>2. locks \in LockBook /\ locks[id] \in LocksOf(Lps)
  BY <1>1, OwedType DEF VeTyped
<1>3. \A i \in Ids \ {id} : locks'[i] = locks[i]
  BY <1>2, Zenon DEF LockTimeEnds, ClaimRewards, LockBook
<1>4. /\ locks'[id].shares = locks[id].shares /\ locks'[id].multiplier = locks[id].multiplier
      /\ locks'[id] # NoLock
  <2>1. \/ locks'[id] = [locks[id] EXCEPT !.over = TRUE]
        \/ locks'[id] = [locks[id] EXCEPT !.last = perPoint]
    BY <1>2, Zenon DEF LockTimeEnds, ClaimRewards, LockBook
  <2>2. locks'[id] \in LocksOf(Lps)
    <3>1. /\ [locks[id] EXCEPT !.over = TRUE] \in LocksOf(Lps)
          /\ [locks[id] EXCEPT !.last = perPoint] \in LocksOf(Lps)
      BY <1>2 DEF LocksOf, VeTyped
    <3> QED
      BY <2>1, <3>1, Zenon
  <2> QED
    BY <1>2, <2>1, <2>2 DEF LocksOf, NoLock
<1>5. PointsOf(locks'[id]) = PointsOf(locks[id])
  BY <1>1, <1>4 DEF PointsOf, IsLocked
<1>6. /\ trancheShares \in Int /\ totalLockPoints \in Int
      /\ locks[id].shares \in Int /\ PointsOf(locks[id]) \in Int
  <2>1. SumFunction(SharesAt(locks)) \in Nat /\ SumFunction(PointsAt(locks)) \in Nat
    BY <1>2, LockSumTypes
  <2>2. locks[id].shares \in Nat /\ PointsOf(locks[id]) \in Nat
    BY <1>2, LockNumbers
  <2> QED
    BY <2>1, <2>2, SMT DEF LocksCounted
<1>7. /\ trancheShares' = trancheShares - locks[id].shares + locks'[id].shares
      /\ totalLockPoints' = totalLockPoints - PointsOf(locks[id]) + PointsOf(locks'[id])
  BY <1>1, <1>4, <1>5, <1>6, SMT
<1> QED
  BY <1>1, <1>2, <1>3, <1>7, OneLockCounted

-----------------------------------------------------------------------------
(* Steps. *)

LEMMA MaxRedeemTypes ==
    ASSUME Counted, NEW h, balanceOf[h] \in Nat
    PROVE  MaxRedeem(h) \in Nat
<1>1. FreeAssets \in Nat
  BY FreeTypes
<1>2. SharesDown(FreeAssets) \in Nat
  BY <1>1, Conversions
<1> QED
  BY <1>2 DEF MaxRedeem

LEMMA PreviewRedeemTypes ==
    ASSUME Counted, NEW s \in Nat, NEW health \in Nat
    PROVE  PreviewRedeem(s, health) \in Int
<1> DEFINE g == AssetsDown(s)
           fee == WithdrawalFeesTotal(g, health)
<1>1. g \in Nat
  BY Conversions
<1> HIDE DEF g
<1>2. fee \in Nat
  BY <1>1, WithdrawalFeeTypes
<1> HIDE DEF fee
<1>3. g - fee \in Int
  BY <1>1, <1>2, SMT
<1> QED
  BY <1>3 DEF PreviewRedeem, g, fee

LEMMA ProviderTypes ==
    ASSUME Typed, Counted, NEW lp \in Lps, ProviderCalls(lp)
    PROVE  Typed'
<1> PICK n \in Amounts :
      \/ Deposit(lp, n)
      \/ Mint(lp, n)
      \/ \E health \in CollateralFees : Withdraw(lp, n, health) \/ Redeem(lp, n, health)
      \/ \E to \in Holders : Transfer(lp, to, n)
      \/ \E multiplier \in Multipliers : n \in Shares /\ LockShares(lp, n, multiplier)
  BY DEF ProviderCalls
<1>1. n \in Nat /\ lp \in Holders /\ balanceOf[lp] \in Nat
  BY TrancheSharesAssumption DEF Holders, Typed, TrancheTyped
<1>2. CASE Deposit(lp, n)
  <2>1. n - DepositFeesTotal(n) \in Nat
    <3>1. DepositFeesTotal(n) \in Nat /\ DepositFeesTotal(n) <= n
      BY <1>1, DepositFeeTypes
    <3> QED
      BY <1>1, <3>1, SMT
  <2>2. PreviewDeposit(n) \in Nat
    BY <2>1, Conversions DEF PreviewDeposit
  <2> QED
    BY <1>1, <1>2, <2>2, PutInTypes DEF Deposit
<1>3. CASE Mint(lp, n)
  <2>1. AssetsUp(n) \in Nat
    BY <1>1, Conversions
  <2>2. DepositFeesRaw(AssetsUp(n)) \in Nat
    BY <2>1, DepositFeeTypes
  <2>3. PreviewMint(n) \in Nat
    BY <2>1, <2>2, SMT DEF PreviewMint
  <2> QED
    BY <1>1, <1>3, <2>3, PutInTypes DEF Mint
<1>4. ASSUME NEW health \in CollateralFees, Withdraw(lp, n, health)
      PROVE  Typed'
  <2>1. health \in Nat
    BY TrancheSharesAssumption
  <2>2. WithdrawalFeesRaw(n, health) \in Nat
    BY <1>1, <2>1, WithdrawalFeeTypes
  <2>3. n + WithdrawalFeesRaw(n, health) \in Nat
    BY <1>1, <2>2, SMT
  <2>4. PreviewWithdraw(n, health) \in Nat
    BY <2>3, Conversions DEF PreviewWithdraw
  <2>5. n \in Int
    BY <1>1, SMT
  <2>6. TrancheTyped'
    BY <1>1, <1>4, <2>1, <2>4, <2>5, TakeOutTypes DEF Withdraw
  <2> QED
    BY <1>4, <2>6 DEF Withdraw, veVars, Typed, VeTyped
<1>5. ASSUME NEW health \in CollateralFees, Redeem(lp, n, health)
      PROVE  Typed'
  <2>1. health \in Nat
    BY TrancheSharesAssumption
  <2>2. PreviewRedeem(n, health) \in Int
    BY <1>1, <2>1, PreviewRedeemTypes
  <2>3. TrancheTyped'
    BY <1>1, <1>5, <2>1, <2>2, TakeOutTypes DEF Redeem
  <2> QED
    BY <1>5, <2>3 DEF Redeem, veVars, Typed, VeTyped
<1>6. ASSUME NEW to \in Holders, Transfer(lp, to, n)
      PROVE  Typed'
  <2>1. n <= balanceOf[lp] /\ lp # to
    BY <1>6 DEF Transfer
  <2>2. balanceOf[lp] - n \in Nat /\ balanceOf[to] + n \in Nat
    BY <1>1, <2>1, SMT DEF Typed, TrancheTyped
  <2>3. balanceOf' \in [Holders -> Nat]
    BY <1>1, <1>6, <2>1, <2>2, SMT DEF Transfer, Typed, TrancheTyped
  <2> QED
    BY <1>6, <2>3 DEF Transfer, veVars, Typed, VeTyped, TrancheTyped
<1>7. ASSUME NEW multiplier \in Multipliers, n \in Shares, LockShares(lp, n, multiplier)
      PROVE  Typed'
  <2>1. n \in Nat \ {0} /\ multiplier \in Nat
    BY <1>7, VeTrancheAssumption
  <2>2. VeTyped'
    BY <1>7, <2>1, LockTypes DEF LockShares
  <2>3. balanceOf' \in [Holders -> Nat]
    BY <1>1, <1>7, SMT DEF LockShares, Typed, TrancheTyped
  <2> QED
    BY <1>7, <2>2, <2>3 DEF LockShares, Typed, TrancheTyped
<1> QED
  BY <1>2, <1>3, <1>4, <1>5, <1>6, <1>7

LEMMA LockCallTypes ==
    ASSUME Typed, NEW id \in Ids, LockCalls(id)
    PROVE  Typed'
<1>1. ASSUME IsLocked(id), NEW fee \in UnlockFees(id, feesOn), UnlockShares(id, fee)
      PROVE  Typed'
  <2>1. /\ fee \in Nat /\ fee <= locks[id].shares /\ locks[id].shares \in Nat
        /\ locks[id].owner \in Lps
    BY <1>1, UnlockFeeTypes
  <2>2. VeTyped'
    BY <1>1, <2>1, ReleaseTypes DEF UnlockShares, Unlock
  <2>3. TrancheTyped'
    BY <1>1, <2>1, ReturnedTypes DEF UnlockShares
  <2> QED
    BY <2>2, <2>3 DEF Typed, TrancheTyped
<1>2. CASE ForceUnlockShares(id)
  <2>1. IsLocked(id) /\ Release(id, 0) /\ Returned(id, 0)
    BY <1>2 DEF ForceUnlockShares, ForceUnlock
  <2>2. locks[id] \in LocksOf(Lps)
    BY <2>1 DEF Typed, VeTyped, TrancheTyped, LockBook, IsLocked
  <2>3. locks[id].shares \in Nat /\ locks[id].owner \in Lps
    BY <2>2 DEF LocksOf
  <2>4. 0 \in Nat /\ 0 <= locks[id].shares
    BY <2>3, SMT
  <2>5. VeTyped'
    BY <2>1, <2>4, ReleaseTypes
  <2>6. TrancheTyped'
    BY <2>1, <2>3, <2>4, ReturnedTypes
  <2> QED
    BY <2>5, <2>6 DEF Typed, TrancheTyped
<1>3. ASSUME LockTimeEnds(id) \/ ClaimRewards(id), UNCHANGED trancheVars
      PROVE  Typed'
  <2>1. IsLocked(id)
    BY <1>3 DEF LockTimeEnds, ClaimRewards
  <2>2. VeTyped'
    BY <1>3, <2>1, FieldTypes
  <2> QED
    BY <1>3, <2>2 DEF trancheVars, Typed, TrancheTyped
<1> QED
  BY <1>1, <1>2, <1>3 DEF LockCalls

LEMMA ManagerTypes ==
    ASSUME Typed, NEW amount \in Moved, ManagerCalls(amount)
    PROVE  Typed'
<1>1. amount \in Nat
  BY TrancheSharesAssumption
<1>2. CASE ReserveBalance(amount)
  <2>1. totalReserved' \in Nat
    BY <1>1, <1>2, SMT DEF ReserveBalance, Typed, TrancheTyped
  <2> QED
    BY <1>2, <2>1 DEF ReserveBalance, veVars, Typed, VeTyped, TrancheTyped
<1>3. CASE ReleaseBalance(amount)
  <2>1. totalReserved' \in Nat
    BY <1>1, <1>3, SMT DEF ReleaseBalance, Typed, TrancheTyped
  <2> QED
    BY <1>3, <2>1 DEF ReleaseBalance, veVars, Typed, VeTyped, TrancheTyped
<1>4. CASE WithdrawAsVaultManager(amount)
  <2>1. assets' \in Nat
    BY <1>1, <1>4, SMT DEF WithdrawAsVaultManager, Typed, TrancheTyped
  <2> QED
    BY <1>4, <2>1 DEF WithdrawAsVaultManager, veVars, Typed, VeTyped, TrancheTyped
<1>5. CASE TrancheRewards(amount)
  <2>1. assets' \in Nat
    BY <1>1, <1>5, SMT DEF TrancheRewards, Typed, TrancheTyped
  <2> QED
    BY <1>5, <2>1 DEF TrancheRewards, veVars, Typed, VeTyped, TrancheTyped
<1>6. CASE DistributeRewards(amount) /\ UNCHANGED trancheVars
  <2>1. VeTyped'
    BY <1>1, <1>6, DistributeTypes
  <2> QED
    BY <1>6, <2>1 DEF trancheVars, Typed, TrancheTyped
<1> QED
  BY <1>2, <1>3, <1>4, <1>5, <1>6 DEF ManagerCalls

LEMMA FeeShareTypes ==
    ASSUME Typed, Counted, NEW health \in CollateralFees, DistributeCollectedFeeShares(health)
    PROVE  Typed'
<1> DEFINE s == MaxRedeem(Manager)
           a == PreviewRedeem(s, health)
<1>1. /\ TakeOut(Manager, a, s, health)
      /\ IF a > 0 /\ WholePoints > 0 THEN DistributeRewards(a) ELSE UNCHANGED veVars
  BY DEF DistributeCollectedFeeShares
<1>2. Manager \in Holders /\ balanceOf[Manager] \in Nat /\ health \in Nat
  BY TrancheSharesAssumption DEF Holders, Typed, TrancheTyped
<1>3. s \in Nat
  BY <1>2, MaxRedeemTypes
<1> HIDE DEF s
<1>4. a \in Int
  BY <1>2, <1>3, PreviewRedeemTypes
<1> HIDE DEF a
<1>5. TrancheTyped'
  BY <1>1, <1>2, <1>3, <1>4, TakeOutTypes
<1>6. CASE a > 0 /\ WholePoints > 0
  <2>1. a \in Nat
    BY <1>4, <1>6, SMT
  <2>2. VeTyped'
    BY <1>1, <1>6, <2>1, DistributeTypes
  <2> QED
    BY <1>5, <2>2 DEF Typed, TrancheTyped
<1>7. CASE ~(a > 0 /\ WholePoints > 0)
  BY <1>1, <1>5, <1>7 DEF veVars, Typed, VeTyped
<1> QED
  BY <1>6, <1>7

LEMMA TypedStep ==
    ASSUME Typed, totalSupply \in Nat, [Next]_vars
    PROVE  Typed'
<1>1. Counted
  BY DEF Typed, TrancheTyped, Counted
<1>2. ASSUME NEW lp \in Lps, ProviderCalls(lp) PROVE Typed'
  BY <1>1, <1>2, ProviderTypes
<1>3. ASSUME NEW id \in Ids, LockCalls(id) PROVE Typed'
  BY <1>3, LockCallTypes
<1>4. ASSUME NEW amount \in Moved, ManagerCalls(amount) PROVE Typed'
  BY <1>4, ManagerTypes
<1>5. ASSUME NEW health \in CollateralFees, DistributeCollectedFeeShares(health) PROVE Typed'
  BY <1>1, <1>5, FeeShareTypes
<1>6. ASSUME NEW on \in BOOLEAN, SetFeesOn(on) PROVE Typed'
  BY <1>6 DEF SetFeesOn, veVars, Typed, VeTyped, TrancheTyped
<1>7. CASE UNCHANGED vars
  BY <1>7 DEF vars, veVars, trancheVars, Typed, VeTyped, TrancheTyped
<1> QED
  BY <1>2, <1>3, <1>4, <1>5, <1>6, <1>7 DEF Next

\* Every call but a payout to traders leaves a share worth what it was or more.
LEMMA ValueStep ==
    ASSUME Typed, totalSupply \in Nat, [Next]_vars
    PROVE  ValueKept \/ PaysTraders
<1>1. Counted
  BY DEF Typed, TrancheTyped, Counted
<1>2. ASSUME NEW lp \in Lps, ProviderCalls(lp) PROVE ValueKept
  <2> PICK n \in Amounts :
        \/ Deposit(lp, n)
        \/ Mint(lp, n)
        \/ \E health \in CollateralFees : Withdraw(lp, n, health) \/ Redeem(lp, n, health)
        \/ \E to \in Holders : Transfer(lp, to, n)
        \/ \E multiplier \in Multipliers : n \in Shares /\ LockShares(lp, n, multiplier)
    BY <1>2 DEF ProviderCalls
  <2>1. n \in Nat /\ CollateralFees \subseteq Nat /\ balanceOf[lp] \in Nat
    BY TrancheSharesAssumption DEF Typed, TrancheTyped, Holders
  <2>2. CASE Deposit(lp, n)
    BY <1>1, <2>1, <2>2, DepositKeeps
  <2>3. CASE Mint(lp, n)
    BY <1>1, <2>1, <2>3, MintKeeps
  <2>4. ASSUME NEW health \in CollateralFees, Withdraw(lp, n, health) PROVE ValueKept
    BY <1>1, <2>1, <2>4, WithdrawKeeps
  <2>5. ASSUME NEW health \in CollateralFees, Redeem(lp, n, health) PROVE ValueKept
    BY <1>1, <2>1, <2>5, RedeemKeeps DEF Redeem
  <2>6. ASSUME NEW to \in Holders, Transfer(lp, to, n) PROVE ValueKept
    BY <1>1, <2>6, NothingKeeps DEF Transfer
  <2>7. ASSUME NEW multiplier \in Multipliers, LockShares(lp, n, multiplier) PROVE ValueKept
    BY <1>1, <2>7, NothingKeeps DEF LockShares
  <2> QED
    BY <2>2, <2>3, <2>4, <2>5, <2>6, <2>7
<1>3. ASSUME NEW id \in Ids, LockCalls(id) PROVE ValueKept
  BY <1>1, <1>3, NothingKeeps
     DEF LockCalls, UnlockShares, ForceUnlockShares, Returned, trancheVars
<1>4. ASSUME NEW amount \in Moved, ManagerCalls(amount) PROVE ValueKept \/ PaysTraders
  <2>1. CASE ReserveBalance(amount)
    BY <1>1, <2>1, NothingKeeps DEF ReserveBalance
  <2>2. CASE ReleaseBalance(amount)
    BY <1>1, <2>2, NothingKeeps DEF ReleaseBalance
  <2>3. CASE WithdrawAsVaultManager(amount)
    BY <2>3 DEF PaysTraders
  <2>4. CASE TrancheRewards(amount)
    BY <1>1, <2>4, GiftKeeps, TrancheSharesAssumption DEF TrancheRewards
  <2>5. CASE DistributeRewards(amount) /\ UNCHANGED trancheVars
    BY <1>1, <2>5, NothingKeeps DEF trancheVars
  <2> QED
    BY <1>4, <2>1, <2>2, <2>3, <2>4, <2>5 DEF ManagerCalls
<1>5. ASSUME NEW health \in CollateralFees, DistributeCollectedFeeShares(health) PROVE ValueKept
  <2>1. balanceOf[Manager] \in Nat /\ health \in Nat
    BY TrancheSharesAssumption DEF Typed, TrancheTyped, Holders
  <2>2. MaxRedeem(Manager) \in Nat
    BY <1>1, <2>1, MaxRedeemTypes
  <2>3. MaxRedeem(Manager) <= MaxRedeem(Manager)
    BY <2>2, SMT
  <2>4. TakeOut(Manager, PreviewRedeem(MaxRedeem(Manager), health), MaxRedeem(Manager), health)
    BY <1>5 DEF DistributeCollectedFeeShares
  <2> QED
    BY <1>1, <2>1, <2>2, <2>3, <2>4, RedeemKeeps
<1>6. ASSUME NEW on \in BOOLEAN, SetFeesOn(on) PROVE ValueKept
  BY <1>1, <1>6, NothingKeeps DEF SetFeesOn
<1>7. CASE UNCHANGED vars
  BY <1>1, <1>7, NothingKeeps DEF vars, trancheVars
<1> QED
  BY <1>2, <1>3, <1>4, <1>5, <1>6, <1>7 DEF Next

-----------------------------------------------------------------------------
(* Steps and totals. *)

\* Nothing of the locks and of the balances moves.
LEMMA CountsUnchanged ==
    ASSUME LocksCounted, HoldersCounted,
           UNCHANGED <<locks, trancheShares, totalLockPoints>>,
           UNCHANGED <<balanceOf, totalSupply>>
    PROVE  LocksCounted' /\ HoldersCounted'
BY DEF LocksCounted, HoldersCounted

LEMMA VeVarsKept ==
    UNCHANGED veVars => UNCHANGED <<locks, trancheShares, totalLockPoints>>
BY DEF veVars

\* The shares of the tranche that the locks have, and the sum of the balances,
\* are natural numbers.
LEMMA CountTypes ==
    ASSUME Typed, LocksCounted, HoldersCounted
    PROVE  /\ trancheShares \in Nat /\ totalLockPoints \in Nat /\ totalSupply \in Nat
           /\ SumFunction(balanceOf) \in Nat /\ balanceOf \in [Holders -> Nat]
<1>1. SumFunction(SharesAt(locks)) \in Nat /\ SumFunction(PointsAt(locks)) \in Nat
  BY LockSumTypes DEF Typed, VeTyped
<1>2. balanceOf \in [Holders -> Nat]
  BY DEF Typed, TrancheTyped
<1>3. SumFunction(balanceOf) \in Nat
  BY <1>2, SumType, FiniteDomains
<1> QED
  BY <1>1, <1>2, <1>3, SMT DEF LocksCounted, HoldersCounted

LEMMA PutInCounts ==
    ASSUME Typed, LocksCounted, HoldersCounted, NEW lp \in Lps, NEW a, NEW s \in Nat,
           PutIn(lp, a, s)
    PROVE  LocksCounted' /\ HoldersCounted'
<1>1. /\ trancheShares \in Nat /\ SumFunction(balanceOf) \in Nat
      /\ balanceOf \in [Holders -> Nat]
  BY CountTypes
<1>2. lp \in Holders /\ balanceOf[lp] \in Nat
  BY <1>1 DEF Holders
<1>3. /\ balanceOf' = [balanceOf EXCEPT ![lp] = balanceOf[lp] + s]
      /\ totalSupply' = totalSupply + s
      /\ UNCHANGED <<locks, trancheShares, totalLockPoints>>
  BY VeVarsKept DEF PutIn
<1>4. SumFunction(balanceOf') = SumFunction(balanceOf) - balanceOf[lp] + (balanceOf[lp] + s)
  <2>1. balanceOf[lp] + s \in Nat
    BY <1>2, SMT
  <2> QED
    BY <1>1, <1>2, <1>3, <2>1, OneBalance
<1>5. HoldersCounted'
  BY <1>1, <1>2, <1>3, <1>4, SMT DEF HoldersCounted
<1> QED
  BY <1>3, <1>5 DEF LocksCounted

LEMMA TakeOutCounts ==
    ASSUME Typed, LocksCounted, HoldersCounted, NEW h \in Holders, NEW a, NEW s \in Nat,
           NEW health, TakeOut(h, a, s, health),
           UNCHANGED <<locks, trancheShares, totalLockPoints>>
    PROVE  LocksCounted' /\ HoldersCounted'
<1>1. /\ trancheShares \in Nat /\ SumFunction(balanceOf) \in Nat
      /\ balanceOf \in [Holders -> Nat] /\ balanceOf[h] \in Nat
  BY CountTypes
<1>2. /\ balanceOf' = [balanceOf EXCEPT ![h] = balanceOf[h] - s] /\ s <= balanceOf[h]
      /\ totalSupply' = totalSupply - s
  BY DEF TakeOut, CanTakeOut
<1>3. SumFunction(balanceOf') = SumFunction(balanceOf) - balanceOf[h] + (balanceOf[h] - s)
  <2>1. balanceOf[h] - s \in Nat
    BY <1>1, <1>2, SMT
  <2> QED
    BY <1>1, <1>2, <2>1, OneBalance
<1>4. HoldersCounted'
  BY <1>1, <1>2, <1>3, SMT DEF HoldersCounted
<1> QED
  BY <1>4 DEF LocksCounted

LEMMA ProviderCounts ==
    ASSUME Typed, LocksCounted, HoldersCounted, NEW lp \in Lps, ProviderCalls(lp), Typed'
    PROVE  LocksCounted' /\ HoldersCounted'
<1> PICK n \in Amounts :
      \/ Deposit(lp, n)
      \/ Mint(lp, n)
      \/ \E health \in CollateralFees : Withdraw(lp, n, health) \/ Redeem(lp, n, health)
      \/ \E to \in Holders : Transfer(lp, to, n)
      \/ \E multiplier \in Multipliers : n \in Shares /\ LockShares(lp, n, multiplier)
  BY DEF ProviderCalls
<1>1. /\ trancheShares \in Nat /\ totalSupply \in Nat /\ SumFunction(balanceOf) \in Nat
      /\ balanceOf \in [Holders -> Nat] /\ Counted
  BY CountTypes DEF Counted, Typed, TrancheTyped
<1>2. n \in Nat /\ lp \in Holders /\ balanceOf[lp] \in Nat
  BY <1>1, TrancheSharesAssumption DEF Holders
<1>3. CASE Deposit(lp, n)
  <2>1. n - DepositFeesTotal(n) \in Nat
    <3>1. DepositFeesTotal(n) \in Nat /\ DepositFeesTotal(n) <= n
      BY <1>2, DepositFeeTypes
    <3> QED
      BY <1>2, <3>1, SMT
  <2>2. PreviewDeposit(n) \in Nat
    BY <1>1, <2>1, Conversions DEF PreviewDeposit
  <2> QED
    BY <1>3, <2>2, PutInCounts DEF Deposit
<1>4. CASE Mint(lp, n)
  BY <1>2, <1>4, PutInCounts DEF Mint
<1>5. ASSUME NEW health \in CollateralFees, Withdraw(lp, n, health)
      PROVE  LocksCounted' /\ HoldersCounted'
  <2>1. health \in Nat
    BY TrancheSharesAssumption
  <2>2. WithdrawalFeesRaw(n, health) \in Nat
    BY <1>2, <2>1, WithdrawalFeeTypes
  <2>3. n + WithdrawalFeesRaw(n, health) \in Nat
    BY <1>2, <2>2, SMT
  <2>4. PreviewWithdraw(n, health) \in Nat
    BY <1>1, <2>3, Conversions DEF PreviewWithdraw
  <2>5. UNCHANGED <<locks, trancheShares, totalLockPoints>>
    BY <1>5, VeVarsKept DEF Withdraw
  <2> QED
    BY <1>2, <1>5, <2>4, <2>5, TakeOutCounts DEF Withdraw
<1>6. ASSUME NEW health \in CollateralFees, Redeem(lp, n, health)
      PROVE  LocksCounted' /\ HoldersCounted'
  <2>1. UNCHANGED <<locks, trancheShares, totalLockPoints>>
    BY <1>6, VeVarsKept DEF Redeem
  <2> QED
    BY <1>2, <1>6, <2>1, TakeOutCounts DEF Redeem
<1>7. ASSUME NEW to \in Holders, Transfer(lp, to, n)
      PROVE  LocksCounted' /\ HoldersCounted'
  <2> DEFINE less == balanceOf[lp] - n
             more == balanceOf[to] + n
  <2>1. /\ n <= balanceOf[lp] /\ lp # to
        /\ balanceOf' = [balanceOf EXCEPT ![lp] = less, ![to] = more]
        /\ totalSupply' = totalSupply /\ UNCHANGED <<locks, trancheShares, totalLockPoints>>
    BY <1>1, <1>7, VeVarsKept DEF Transfer
  <2>2. balanceOf[to] \in Nat
    BY <1>1
  <2>3. less \in Nat /\ more \in Nat /\ less + more = balanceOf[lp] + balanceOf[to]
    BY <1>2, <2>1, <2>2, SMT
  <2> HIDE DEF less, more
  <2>4. SumFunction(balanceOf')
          = SumFunction(balanceOf) - balanceOf[lp] - balanceOf[to] + less + more
    <3>1. /\ balanceOf' \in [Holders -> Nat]
          /\ balanceOf'[lp] = less /\ balanceOf'[to] = more
          /\ \A x \in Holders \ {lp, to} : balanceOf'[x] = balanceOf[x]
      BY <1>1, <1>2, <2>1, <2>3
    <3>2. SumMoves(balanceOf, balanceOf', lp, to)
      BY <1>1, <1>2, <2>1, <3>1, TwoBalances
    <3> QED
      BY <3>1, <3>2 DEF SumMoves
  <2>5. HoldersCounted'
    BY <1>1, <1>2, <2>1, <2>2, <2>3, <2>4, SMT DEF HoldersCounted
  <2> QED
    BY <2>1, <2>5 DEF LocksCounted
<1>8. ASSUME NEW multiplier \in Multipliers, n \in Shares, LockShares(lp, n, multiplier)
      PROVE  LocksCounted' /\ HoldersCounted'
  <2>1. n \in Nat \ {0} /\ multiplier \in Nat
    BY <1>8, VeTrancheAssumption
  <2>2. locks' \in LockBook
    BY DEF Typed, VeTyped, LockBook
  <2>3. LocksCounted' /\ trancheShares' = trancheShares + n
    BY <1>8, <2>1, <2>2, LockCounts DEF LockShares, Typed
  <2>4. /\ n <= balanceOf[lp] /\ balanceOf' = [balanceOf EXCEPT ![lp] = balanceOf[lp] - n]
        /\ totalSupply' = totalSupply
    BY <1>8 DEF LockShares
  <2>5. SumFunction(balanceOf') = SumFunction(balanceOf) - balanceOf[lp] + (balanceOf[lp] - n)
    <3>1. balanceOf[lp] - n \in Nat
      BY <1>2, <2>4, SMT
    <3> QED
      BY <1>1, <1>2, <2>4, <3>1, OneBalance
  <2>6. HoldersCounted'
    BY <1>1, <1>2, <2>3, <2>4, <2>5, SMT DEF HoldersCounted
  <2> QED
    BY <2>3, <2>6
<1> QED
  BY <1>3, <1>4, <1>5, <1>6, <1>7, <1>8

LEMMA ReturnedCounts ==
    ASSUME Typed, LocksCounted, HoldersCounted, NEW id \in Ids, IsLocked(id),
           NEW fee \in Nat, fee <= locks[id].shares,
           Release(id, fee), Returned(id, fee), Typed'
    PROVE  LocksCounted' /\ HoldersCounted'
<1> DEFINE o == locks[id].owner
           n == locks[id].shares
<1>1. VeTyped /\ locks' \in LockBook
  BY DEF Typed, VeTyped, LockBook
<1>2. locks[id] \in LocksOf(Lps)
  BY <1>1, OwedType
<1>3. o \in Lps /\ n \in Nat
  BY <1>2 DEF LocksOf
<1>4. LocksCounted' /\ trancheShares' = trancheShares - n
  BY <1>1, ReleaseCounts
<1>5. balanceOf' = [balanceOf EXCEPT ![o] = @ + n - fee, ![Manager] = @ + fee]
      /\ totalSupply' = totalSupply /\ fee <= n
  BY DEF Returned
<1> HIDE DEF o, n
<1>6. /\ trancheShares \in Nat /\ totalSupply \in Nat /\ SumFunction(balanceOf) \in Nat
      /\ balanceOf \in [Holders -> Nat]
  BY CountTypes
<1>7. /\ o \in Holders /\ Manager \in Holders /\ o # Manager
      /\ balanceOf[o] \in Nat /\ balanceOf[Manager] \in Nat
  BY <1>3, <1>6, TrancheSharesAssumption DEF Holders
<1> DEFINE most == balanceOf[o] + n - fee
           more == balanceOf[Manager] + fee
<1>8. balanceOf' = [balanceOf EXCEPT ![o] = most, ![Manager] = more]
  BY <1>5, <1>6, <1>7
<1>9. /\ most \in Nat /\ more \in Nat
      /\ most + more = balanceOf[o] + balanceOf[Manager] + n
  BY <1>3, <1>5, <1>7, SMT
<1> HIDE DEF most, more
<1>10. SumFunction(balanceOf')
         = SumFunction(balanceOf) - balanceOf[o] - balanceOf[Manager] + most + more
  <2>1. /\ balanceOf' \in [Holders -> Nat]
        /\ balanceOf'[o] = most /\ balanceOf'[Manager] = more
        /\ \A x \in Holders \ {o, Manager} : balanceOf'[x] = balanceOf[x]
    BY <1>6, <1>7, <1>8, <1>9
  <2>2. SumMoves(balanceOf, balanceOf', o, Manager)
    BY <1>6, <1>7, <2>1, TwoBalances
  <2> QED
    BY <2>1, <2>2 DEF SumMoves
<1>11. HoldersCounted'
  <2> DEFINE before == SumFunction(balanceOf)
             after  == SumFunction(balanceOf')
             b == balanceOf[o]
             e == balanceOf[Manager]
  <2>1. /\ totalSupply = trancheShares + before /\ after = before - b - e + most + more
        /\ most + more = b + e + n
    BY <1>9, <1>10 DEF HoldersCounted
  <2>2. /\ totalSupply \in Nat /\ trancheShares \in Nat /\ before \in Nat /\ n \in Nat
        /\ b \in Nat /\ e \in Nat /\ most \in Nat /\ more \in Nat
    BY <1>3, <1>6, <1>7, <1>9
  <2> HIDE DEF before, after, b, e
  <2>3. after = before + n
    BY <2>1, <2>2, Z3
  <2>4. totalSupply = (trancheShares - n) + after
    BY <2>1, <2>2, <2>3, Z3
  <2> QED
    BY <1>4, <1>5, <2>4 DEF HoldersCounted, after
<1> QED
  BY <1>4, <1>11

LEMMA LockCallCounts ==
    ASSUME Typed, LocksCounted, HoldersCounted, NEW id \in Ids, LockCalls(id), Typed'
    PROVE  LocksCounted' /\ HoldersCounted'
<1>1. ASSUME IsLocked(id), NEW fee \in UnlockFees(id, feesOn), UnlockShares(id, fee)
      PROVE  LocksCounted' /\ HoldersCounted'
  <2>1. fee \in Nat /\ fee <= locks[id].shares
    BY <1>1, UnlockFeeTypes
  <2> QED
    BY <1>1, <2>1, ReturnedCounts DEF UnlockShares, Unlock
<1>2. CASE ForceUnlockShares(id)
  <2>1. IsLocked(id) /\ Release(id, 0) /\ Returned(id, 0)
    BY <1>2 DEF ForceUnlockShares, ForceUnlock
  <2>2. locks[id] \in LocksOf(Lps)
    BY <2>1, OwedType DEF Typed
  <2>3. locks[id].shares \in Nat
    BY <2>2 DEF LocksOf
  <2>4. 0 \in Nat /\ 0 <= locks[id].shares
    BY <2>3, SMT
  <2> QED
    BY <2>1, <2>4, ReturnedCounts
<1>3. ASSUME LockTimeEnds(id) \/ ClaimRewards(id), UNCHANGED trancheVars
      PROVE  LocksCounted' /\ HoldersCounted'
  <2>1. VeTyped /\ locks' \in LockBook
    BY DEF Typed, VeTyped, LockBook
  <2>2. LocksCounted' /\ trancheShares' = trancheShares
    BY <1>3, <2>1, FieldCounts
  <2> QED
    BY <1>3, <2>2 DEF trancheVars, HoldersCounted
<1> QED
  BY <1>1, <1>2, <1>3 DEF LockCalls

LEMMA CountedStep ==
    ASSUME Typed, LocksCounted, HoldersCounted, [Next]_vars, Typed'
    PROVE  LocksCounted' /\ HoldersCounted'
<1>1. ASSUME NEW lp \in Lps, ProviderCalls(lp) PROVE LocksCounted' /\ HoldersCounted'
  BY <1>1, ProviderCounts
<1>2. ASSUME NEW id \in Ids, LockCalls(id) PROVE LocksCounted' /\ HoldersCounted'
  BY <1>2, LockCallCounts
<1>3. ASSUME NEW amount \in Moved, ManagerCalls(amount) PROVE LocksCounted' /\ HoldersCounted'
  <2>1. /\ UNCHANGED <<locks, trancheShares, totalLockPoints>>
        /\ UNCHANGED <<balanceOf, totalSupply>>
    BY <1>3 DEF ManagerCalls, ReserveBalance, ReleaseBalance, WithdrawAsVaultManager,
                TrancheRewards, DistributeRewards, veVars, trancheVars
  <2> QED
    BY <2>1, CountsUnchanged
<1>4. ASSUME NEW health \in CollateralFees, DistributeCollectedFeeShares(health)
      PROVE  LocksCounted' /\ HoldersCounted'
  <2>1. UNCHANGED <<locks, trancheShares, totalLockPoints>>
    BY <1>4 DEF DistributeCollectedFeeShares, DistributeRewards, veVars
  <2>2. Manager \in Holders /\ balanceOf[Manager] \in Nat /\ Counted
    BY CountTypes DEF Holders, Counted, Typed, TrancheTyped
  <2>3. MaxRedeem(Manager) \in Nat
    BY <2>2, MaxRedeemTypes
  <2>4. TakeOut(Manager, PreviewRedeem(MaxRedeem(Manager), health), MaxRedeem(Manager), health)
    BY <1>4 DEF DistributeCollectedFeeShares
  <2> QED
    BY <2>1, <2>2, <2>3, <2>4, TakeOutCounts
<1>5. ASSUME NEW on \in BOOLEAN, SetFeesOn(on) PROVE LocksCounted' /\ HoldersCounted'
  BY <1>5, VeVarsKept, CountsUnchanged DEF SetFeesOn
<1>6. CASE UNCHANGED vars
  BY <1>6, CountsUnchanged DEF vars, veVars, trancheVars
<1> QED
  BY <1>1, <1>2, <1>3, <1>4, <1>5, <1>6 DEF Next

-----------------------------------------------------------------------------
(* The specification. *)

\* The inductive invariant: the types need the totals, since the supply is a
\* natural number only as a sum of natural numbers, and the totals need the
\* types and that the next token ids are free.
SharesIInv ==
    /\ Typed /\ LocksCounted /\ HoldersCounted
    /\ steps \in 0 .. MaxSteps

LEMMA SharesInvStep == SharesIInv /\ [Next]_vars => SharesIInv'
<1> SUFFICES ASSUME SharesIInv, [Next]_vars PROVE SharesIInv'
  OBVIOUS
<1>1. Typed /\ LocksCounted /\ HoldersCounted /\ steps \in 0 .. MaxSteps
  BY DEF SharesIInv
<1>2. totalSupply \in Nat
  BY <1>1, CountTypes
<1>3. Typed'
  BY <1>1, <1>2, TypedStep
<1>4. LocksCounted' /\ HoldersCounted'
  BY <1>1, <1>3, CountedStep
<1>5. steps' \in 0 .. MaxSteps
  <2>1. \/ steps < MaxSteps /\ steps' = steps + 1
        \/ steps' = steps
    BY DEF Next, vars
  <2> QED
    BY <1>1, <2>1, TrancheSharesAssumption, SMT
<1> QED
  BY <1>3, <1>4, <1>5 DEF SharesIInv

THEOREM SharesIInvAlways == Spec => []SharesIInv
<1>1. Init => SharesIInv
  <2>1. Init => steps \in 0 .. MaxSteps
    BY TrancheSharesAssumption, SMT DEF Init
  <2> QED
    BY <2>1, TypedInit, CountedInit DEF SharesIInv
<1> QED
  BY <1>1, SharesInvStep, PTL DEF Spec

\* Assets, reserves, balances, locks and all totals keep their types (TypeOK).
THEOREM SharesTypeCorrect == Spec => []TypeOK
<1>1. SharesIInv => TypeOK
  <2> SUFFICES ASSUME SharesIInv PROVE TypeOK
    OBVIOUS
  <2>1. trancheShares \in Nat /\ totalLockPoints \in Nat /\ totalSupply \in Nat
    BY CountTypes DEF SharesIInv
  <2>2. VeTypeOK(Lps)
    BY <2>1, Zenon DEF SharesIInv, Typed, VeTyped, LockBook, VeTypeOK
  <2> QED
    BY <2>1, <2>2, Zenon DEF SharesIInv, Typed, TrancheTyped, TypeOK
<1> QED
  BY <1>1, SharesIInvAlways, PTL

\* The shares of the holders and of the locks are all there are, and the locks
\* have their points (SharesExact).
THEOREM SharesAlwaysExact == Spec => []SharesExact
<1>1. SharesIInv => SharesExact
  BY ExactMeans DEF SharesIInv
<1> QED
  BY <1>1, SharesIInvAlways, PTL

\* Nobody takes from the other holders: what a share is worth falls by payouts
\* to traders only (ShareValueNeverFalls).
THEOREM ValueOfShares == Spec => ShareValueNeverFalls
<1>1. SharesIInv /\ [Next]_vars => [ValueKept \/ PaysTraders]_vars
  BY ValueStep, CountTypes DEF SharesIInv
<1> QED
  BY <1>1, SharesIInvAlways, PTL DEF Spec, ShareValueNeverFalls

\* What maxRedeem says can be redeemed, at any time (RedeemWithinLimitSucceeds).
THEOREM LimitsHold == Spec => []RedeemWithinLimitSucceeds
<1>1. SharesIInv => RedeemWithinLimitSucceeds
  <2> SUFFICES ASSUME SharesIInv PROVE RedeemWithinLimitSucceeds
    OBVIOUS
  <2>1. Counted /\ \A h \in Holders : balanceOf[h] \in Nat
    BY CountTypes DEF SharesIInv, Counted, Typed, TrancheTyped
  <2> QED
    BY <2>1, LimitCanBeRedeemed
<1> QED
  BY <1>1, SharesIInvAlways, PTL

-----------------------------------------------------------------------------
(* Rewards.  A distribution raises the accumulator by an amount rounded    *)
(* down and each claim is rounded down, but it is raised by the rewards    *)
(* over the whole points, while locks earn on their fractions: what all    *)
(* locks have earned, before rounding, is never more than the contract's   *)
(* USDC and the excess that the distributions credited beyond theirs.      *)

Unit == Precision * Precision * Precision * Precision

\* What a lock has earned when the accumulator is acc, times Unit.
EarnedOf(lock, acc) == IF lock # NoLock THEN (acc - lock.last) * PointsOf(lock) ELSE 0
EarnedAt(l, acc) == [id \in Ids |-> EarnedOf(l[id], acc)]

\* No lock starts ahead of the accumulator.
StartedIn(l, acc) == \A id \in Ids : l[id] # NoLock => l[id].last <= acc

EarnedBacked == SumFunction(EarnedAt(locks, perPoint)) <= (usdc + excess) * Unit

RewardsIInv == StartedIn(locks, perPoint) /\ EarnedBacked

LEMMA EarnedTypes ==
    ASSUME NEW l \in LockBook, NEW acc \in Nat, StartedIn(l, acc)
    PROVE  /\ \A id \in Ids : EarnedOf(l[id], acc) \in Nat
           /\ EarnedAt(l, acc) \in [Ids -> Nat]
           /\ SumFunction(EarnedAt(l, acc)) \in Nat
<1>1. ASSUME NEW id \in Ids PROVE EarnedOf(l[id], acc) \in Nat
  <2>1. CASE l[id] = NoLock
    BY <2>1 DEF EarnedOf
  <2>2. CASE l[id] # NoLock
    <3>1. l[id] \in LocksOf(Lps) \cup {NoLock}
      BY DEF LockBook
    <3>2. PointsOf(l[id]) \in Nat /\ l[id].last \in Nat /\ l[id].last <= acc
      BY <2>2, <3>1, LockNumbers DEF LocksOf, StartedIn
    <3>3. acc - l[id].last \in Nat
      BY <3>2, SMT
    <3>4. (acc - l[id].last) * PointsOf(l[id]) \in Nat
      BY <3>2, <3>3, SMT
    <3> QED
      BY <2>2, <3>4 DEF EarnedOf
  <2> QED
    BY <2>1, <2>2
<1>2. EarnedAt(l, acc) \in [Ids -> Nat]
  BY <1>1 DEF EarnedAt
<1> QED
  BY <1>1, <1>2, SumType, FiniteDomains

\* What a claim pays is what the lock has earned, rounded down.
LEMMA OwedOfEarned ==
    ASSUME VeTyped, StartedIn(locks, perPoint), NEW id \in Ids, IsLocked(id)
    PROVE  /\ Owed(id) \in Nat /\ EarnedOf(locks[id], perPoint) \in Nat
           /\ Owed(id) * Unit <= EarnedOf(locks[id], perPoint)
<1> DEFINE e == EarnedOf(locks[id], perPoint)
<1>1. e \in Nat
  BY EarnedTypes DEF VeTyped
<1>2. Unit \in Nat \ {0}
  BY UnitType DEF Unit
<1>3. Owed(id) = e \div Unit
  BY DEF Owed, Unit, EarnedOf, PointsOf, Points, IsLocked
<1> HIDE DEF e
<1>4. e \div Unit \in Nat /\ (e \div Unit) * Unit <= e
  BY <1>1, <1>2, Down
<1> QED
  BY <1>1, <1>3, <1>4 DEF e

\* One lock changes and the contract pays no more than what that lock loses.
LEMMA OneLockBacked ==
    ASSUME locks \in LockBook, locks' \in LockBook, perPoint \in Nat, usdc \in Nat,
           excess \in Nat,
           StartedIn(locks, perPoint), StartedIn(locks', perPoint), EarnedBacked,
           NEW id \in Ids, \A i \in Ids \ {id} : locks'[i] = locks[i],
           NEW paid \in Nat, usdc' = usdc - paid, perPoint' = perPoint, excess' = excess,
           EarnedOf(locks'[id], perPoint) + paid * Unit <= EarnedOf(locks[id], perPoint)
    PROVE  EarnedBacked'
<1> DEFINE before == EarnedAt(locks, perPoint)
           after == EarnedAt(locks', perPoint)
           money == usdc + excess
<1>1. /\ before \in [Ids -> Nat] /\ after \in [Ids -> Nat]
      /\ SumFunction(before) \in Nat /\ SumFunction(after) \in Nat
      /\ EarnedOf(locks[id], perPoint) \in Nat /\ EarnedOf(locks'[id], perPoint) \in Nat
  BY EarnedTypes
<1>2. /\ before[id] = EarnedOf(locks[id], perPoint)
      /\ after[id] = EarnedOf(locks'[id], perPoint)
      /\ \A i \in Ids \ {id} : after[i] = before[i]
  BY DEF EarnedAt
<1>3. /\ SumFunction(before) <= money * Unit
      /\ EarnedBacked' <=> SumFunction(after) <= (usdc' + excess') * Unit
  BY DEF EarnedBacked, Unit
<1> HIDE DEF before, after
<1>4. SumFunction(after) = SumFunction(before) - before[id] + after[id]
  BY <1>1, <1>2, SumChanges, FiniteDomains
<1>5. Unit \in Nat \ {0}
  BY UnitType DEF Unit
<1>6. money \in Nat /\ usdc' + excess' = money - paid
  BY SMT
<1> HIDE DEF money
<1>7. /\ (money - paid) * Unit = money * Unit - paid * Unit
      /\ money * Unit \in Nat /\ paid * Unit \in Nat
  BY <1>5, <1>6, SMT
<1>8. SumFunction(after) <= money * Unit - paid * Unit
  BY <1>1, <1>2, <1>3, <1>4, <1>7, SMT
<1> QED
  BY <1>3, <1>6, <1>7, <1>8

\* Rewards r over w whole points of p each, where the fractions of all locks make
\* up m besides: an accumulator raised by d credits no more than e beyond r.
LEMMA SharedByPoints ==
    ASSUME NEW r \in Nat, NEW p \in Nat \ {0}, NEW w \in Nat \ {0}, NEW m \in Nat,
           NEW d \in Nat, NEW e \in Nat,
           d * w <= r * p * p * p, r * m <= e * (p * w)
    PROVE  d * (w * p + m) <= (r + e) * (p * p * p * p)
<1> DEFINE c == p * p * p
           n == w * p + m
           credited == d * n
           most == (r + e) * (p * c)
<1>1. c \in Nat /\ n \in Nat /\ r * p * p * p = r * c /\ p * p * p * p = p * c
  BY SMT
<1> HIDE DEF c
<1>2. credited \in Nat /\ most \in Nat
  BY <1>1, SMT
<1>3. (d * w) * n <= (r * c) * n
  <2>1. d * w \in Nat /\ r * c \in Nat /\ d * w <= r * c
    BY <1>1, SMT
  <2> HIDE DEF n
  <2> QED
    BY <1>1, <2>1, ProductMonotone
<1>4. c * (r * m) <= c * (e * (p * w))
  <2>1. r * m \in Nat /\ e * (p * w) \in Nat
    BY SMT
  <2>2. (r * m) * c <= (e * (p * w)) * c
    BY <1>1, <2>1, ProductMonotone
  <2> QED
    BY <1>1, <2>1, <2>2, SMT
<1>5. /\ credited * w = (d * w) * n
      /\ (r * c) * n = (r * (p * c)) * w + c * (r * m)
      /\ most * w = (r * (p * c)) * w + c * (e * (p * w))
  BY <1>1, SMT
<1>6. /\ (d * w) * n \in Nat /\ (r * c) * n \in Nat /\ (r * (p * c)) * w \in Nat
      /\ c * (r * m) \in Nat /\ c * (e * (p * w)) \in Nat
  BY <1>1, SMT
<1>7. credited * w <= most * w
  BY <1>3, <1>4, <1>5, <1>6, SMT
<1> HIDE DEF credited, most
<1>8. credited * w < (most + 1) * w
  <2>1. (most + 1) * w = most * w + w /\ most * w \in Nat /\ credited * w \in Nat
    BY <1>2, SMT
  <2> QED
    BY <1>7, <2>1, SMT
<1>9. credited < most + 1
  <2>1. most + 1 \in Nat
    BY <1>2, SMT
  <2> QED
    BY <1>2, <1>8, <2>1, CancelFactor
<1>10. credited <= most
  BY <1>2, <1>9, SMT
<1> QED
  BY <1>1, <1>10 DEF credited, most, n

\* The accumulator rises by no more than what the points of all locks share and
\* what the distribution credits beyond it.
LEMMA DistributionShared ==
    ASSUME NEW rewards \in Nat, NEW points \in Nat, points \div Precision > 0,
           NEW d, d = (rewards * Precision * Precision * Precision) \div (points \div Precision),
           NEW e, e = CeilDiv(rewards * (points % Precision), Precision * (points \div Precision))
    PROVE  d \in Nat /\ e \in Nat /\ d * points <= (rewards + e) * Unit
<1> DEFINE w == points \div Precision
           m == points % Precision
           n == rewards * Precision * Precision * Precision
<1>1. Precision \in Nat \ {0}
  BY VeTrancheAssumption
<1>2. m \in Nat /\ points = w * Precision + m
  BY <1>1, Remainder
<1>3. w \in Nat \ {0}
  <2>1. w \in Nat
    BY <1>1, Down
  <2> QED
    BY <2>1, SMT
<1>4. n \in Nat
  BY <1>1, SMT
<1>5. d = n \div w /\ e = CeilDiv(rewards * m, Precision * w)
  OBVIOUS
<1> HIDE DEF w, m
<1>6. d \in Nat /\ d * w <= n
  <2> HIDE DEF n
  <2> QED
    BY <1>3, <1>4, <1>5, Down
<1>7. e \in Nat /\ rewards * m <= e * (Precision * w)
  <2>1. rewards * m \in Nat /\ Precision * w \in Nat \ {0}
    BY <1>1, <1>2, <1>3, SMT
  <2> QED
    BY <1>5, <2>1, Up
<1>8. d * (w * Precision + m) <= (rewards + e) * (Precision * Precision * Precision * Precision)
  BY <1>1, <1>2, <1>3, <1>6, <1>7, SharedByPoints
<1> QED
  BY <1>2, <1>6, <1>7, <1>8 DEF Unit

LEMMA DistributionBacked ==
    ASSUME VeTyped, LocksCounted, RewardsIInv, NEW rewards \in Nat, DistributeRewards(rewards)
    PROVE  RewardsIInv'
<1> DEFINE d == (rewards * Precision * Precision * Precision) \div WholePoints
           e == CreditedBeyond(rewards)
           before == EarnedAt(locks, perPoint)
           after == EarnedAt(locks, perPoint + d)
<1>1. /\ locks' = locks /\ totalLockPoints' = totalLockPoints /\ usdc' = usdc + rewards
      /\ perPoint' = perPoint + d /\ excess' = excess + e /\ WholePoints > 0
  BY DEF DistributeRewards
<1>2. /\ locks \in LockBook /\ perPoint \in Nat /\ usdc \in Nat /\ excess \in Nat
      /\ StartedIn(locks, perPoint) /\ SumFunction(before) <= (usdc + excess) * Unit
  BY DEF VeTyped, RewardsIInv, EarnedBacked
<1>3. PointsAt(locks) \in [Ids -> Nat] /\ SumFunction(PointsAt(locks)) \in Nat
  BY <1>2, LockSumTypes
<1>4. totalLockPoints = SumFunction(PointsAt(locks)) /\ totalLockPoints \in Nat
  BY <1>3 DEF LocksCounted
<1>5. d \in Nat /\ e \in Nat /\ d * totalLockPoints <= (rewards + e) * Unit
  <2>1. totalLockPoints \div Precision > 0
    BY <1>1 DEF WholePoints
  <2> QED
    BY <1>4, <2>1, DistributionShared DEF WholePoints, CreditedBeyond
<1> HIDE DEF d, e
<1>6. perPoint + d \in Nat /\ StartedIn(locks, perPoint + d)
  <2>1. ASSUME NEW id \in Ids, locks[id] # NoLock PROVE locks[id].last <= perPoint + d
    <3>1. locks[id] \in LocksOf(Lps)
      BY <1>2, <2>1 DEF LockBook
    <3>2. locks[id].last \in Nat /\ locks[id].last <= perPoint
      BY <1>2, <2>1, <3>1 DEF LocksOf, StartedIn
    <3> QED
      BY <1>2, <1>5, <3>2, SMT
  <2> QED
    BY <1>2, <1>5, <2>1, SMT DEF StartedIn
<1>7. /\ before \in [Ids -> Nat] /\ after \in [Ids -> Nat]
      /\ SumFunction(before) \in Nat /\ SumFunction(after) \in Nat
  BY <1>2, <1>6, EarnedTypes
<1>8. ASSUME NEW id \in Ids PROVE after[id] = before[id] + d * PointsAt(locks)[id]
  <2> DEFINE p == PointsOf(locks[id])
  <2>1. /\ after[id] = EarnedOf(locks[id], perPoint + d)
        /\ before[id] = EarnedOf(locks[id], perPoint) /\ PointsAt(locks)[id] = p
    BY DEF EarnedAt, PointsAt
  <2>2. CASE locks[id] = NoLock
    <3>1. p = 0
      BY <2>2 DEF PointsOf
    <3>2. 0 = 0 + d * 0
      BY <1>5, SMT
    <3> QED
      BY <2>1, <2>2, <3>1, <3>2 DEF EarnedOf
  <2>3. CASE locks[id] # NoLock
    <3>1. locks[id] \in LocksOf(Lps)
      BY <1>2, <2>3 DEF LockBook
    <3>2. locks[id].last \in Nat /\ p \in Nat
      BY <3>1, LockNumbers DEF LocksOf
    <3> HIDE DEF p
    <3>3. ((perPoint + d) - locks[id].last) * p = (perPoint - locks[id].last) * p + d * p
      BY <1>2, <1>5, <3>2, SMT
    <3>4. /\ EarnedOf(locks[id], perPoint + d) = ((perPoint + d) - locks[id].last) * p
          /\ EarnedOf(locks[id], perPoint) = (perPoint - locks[id].last) * p
      BY <2>3, Zenon DEF EarnedOf, p
    <3> HIDE DEF before, after
    <3> QED
      BY <2>1, <3>3, <3>4, Zenon
  <2> QED
    BY <2>2, <2>3
<1>9. EarnedBacked' <=> SumFunction(after) <= ((usdc + rewards) + (excess + e)) * Unit
  BY <1>1, Zenon DEF EarnedBacked, Unit
<1> HIDE DEF before, after
<1>10. SumFunction(after) = SumFunction(before) + d * totalLockPoints
  <2>1. d \in Nat
    BY <1>5
  <2> QED
    BY <1>3, <1>4, <1>7, <1>8, <2>1, SumGrows, FiniteDomains
<1>11. SumFunction(after) <= ((usdc + rewards) + (excess + e)) * Unit
  <2>1. Unit \in Nat
    BY UnitType DEF Unit
  <2>2. /\ ((usdc + rewards) + (excess + e)) * Unit
              = (usdc + excess) * Unit + (rewards + e) * Unit
        /\ (usdc + excess) * Unit \in Nat /\ (rewards + e) * Unit \in Nat
        /\ d * totalLockPoints \in Nat
    BY <1>2, <1>4, <1>5, <2>1, SMT
  <2> QED
    BY <1>2, <1>5, <1>7, <1>10, <2>2, SMT
<1>12. StartedIn(locks, perPoint)'
  BY <1>1, <1>6 DEF StartedIn
<1> QED
  BY <1>9, <1>11, <1>12 DEF RewardsIInv

\* A lock starts to earn at the accumulator: it has earned nothing.
LEMMA NewLockBacked ==
    ASSUME VeTyped, VeTyped', RewardsIInv, NEW owner \in Lps, NEW s \in Nat \ {0},
           NEW multiplier \in Nat, Lock(owner, s, multiplier)
    PROVE  RewardsIInv'
<1> DEFINE v == [owner |-> owner, shares |-> s, multiplier |-> multiplier,
                 last |-> Start, over |-> FALSE]
<1>1. /\ locks \in LockBook /\ locks' \in LockBook /\ perPoint \in Nat /\ usdc \in Nat
      /\ excess \in Nat /\ StartedIn(locks, perPoint) /\ EarnedBacked
  BY DEF VeTyped, RewardsIInv, LockBook
<1>2. /\ tokenIds \in Ids /\ locks' = [locks EXCEPT ![tokenIds] = v]
      /\ perPoint' = perPoint /\ usdc' = usdc /\ excess' = excess
  BY DEF Lock
<1>3. locks[tokenIds] = NoLock
  <2>1. tokenIds >= tokenIds
    BY SMT DEF VeTyped
  <2> QED
    BY <1>2, <2>1 DEF VeTyped
<1>4. locks'[tokenIds] = v /\ \A i \in Ids \ {tokenIds} : locks'[i] = locks[i]
  BY <1>1, <1>2, Zenon DEF LockBook
<1>5. v.last = perPoint /\ v # NoLock /\ PointsOf(v) = s * multiplier
  <2>1. v.last = perPoint /\ v # NoLock /\ v.shares = s /\ v.multiplier = multiplier
    BY DEF NoLock, Start
  <2> QED
    BY <2>1 DEF PointsOf
<1> HIDE DEF v
<1>6. s * multiplier \in Int
  BY SMT
<1>7. EarnedOf(v, perPoint) = 0 /\ EarnedOf(NoLock, perPoint) = 0
  <2>1. (perPoint - perPoint) * (s * multiplier) = 0
    BY <1>1, <1>6, SMT
  <2> QED
    BY <1>5, <2>1, Zenon DEF EarnedOf
<1>8. StartedIn(locks', perPoint)
  <2>1. perPoint <= perPoint
    BY <1>1, SMT
  <2> QED
    BY <1>1, <1>4, <1>5, <2>1, Zenon DEF StartedIn
<1>9. EarnedBacked'
  <2>1. 0 \in Nat /\ usdc' = usdc - 0
    BY <1>1, <1>2, SMT
  <2>2. EarnedOf(locks'[tokenIds], perPoint) + 0 * Unit <= EarnedOf(locks[tokenIds], perPoint)
    <3>1. Unit \in Nat
      BY UnitType DEF Unit
    <3>2. 0 + 0 * Unit <= 0
      BY <3>1, SMT
    <3> QED
      BY <1>3, <1>4, <1>7, <3>2, Zenon
  <2> QED
    BY <1>1, <1>2, <1>4, <1>8, <2>1, <2>2, OneLockBacked
<1>10. StartedIn(locks, perPoint)'
  BY <1>2, <1>8 DEF StartedIn
<1> QED
  BY <1>9, <1>10 DEF RewardsIInv

\* A lock that is released or claims is paid what it has earned, rounded down,
\* and has then earned nothing.
LEMMA PaidLockBacked ==
    ASSUME VeTyped, VeTyped', RewardsIInv, NEW id \in Ids, IsLocked(id),
           NEW v \in LocksOf(Lps) \cup {NoLock}, locks' = [locks EXCEPT ![id] = v],
           v # NoLock => v.last = perPoint,
           usdc' = usdc - Owed(id), perPoint' = perPoint, excess' = excess
    PROVE  EarnedBacked' /\ StartedIn(locks', perPoint)
<1>1. /\ locks \in LockBook /\ locks' \in LockBook /\ perPoint \in Nat /\ usdc \in Nat
      /\ excess \in Nat /\ StartedIn(locks, perPoint) /\ EarnedBacked
  BY DEF VeTyped, RewardsIInv, LockBook
<1>2. locks'[id] = v /\ \A i \in Ids \ {id} : locks'[i] = locks[i]
  BY <1>1, Zenon DEF LockBook
<1>3. StartedIn(locks', perPoint)
  <2>1. perPoint <= perPoint
    BY <1>1, SMT
  <2> QED
    BY <1>1, <1>2, <2>1, Zenon DEF StartedIn
<1>4. /\ Owed(id) \in Nat /\ EarnedOf(locks[id], perPoint) \in Nat
      /\ Owed(id) * Unit <= EarnedOf(locks[id], perPoint)
  BY <1>1, OwedOfEarned
<1>5. EarnedOf(v, perPoint) = 0
  <2>1. PointsOf(v) \in Nat
    BY LockNumbers
  <2>2. (perPoint - perPoint) * PointsOf(v) = 0
    BY <1>1, <2>1, SMT
  <2> QED
    BY <2>2, Zenon DEF EarnedOf
<1>6. EarnedOf(locks'[id], perPoint) + Owed(id) * Unit <= EarnedOf(locks[id], perPoint)
  <2>1. Owed(id) * Unit \in Nat
    BY <1>4, UnitType, SMT DEF Unit
  <2>2. 0 + Owed(id) * Unit = Owed(id) * Unit
    BY <2>1, SMT
  <2> QED
    BY <1>2, <1>4, <1>5, <2>2, Zenon
<1>7. EarnedBacked'
  BY <1>1, <1>2, <1>3, <1>4, <1>6, OneLockBacked
<1> QED
  BY <1>3, <1>7

LEMMA ReleaseBacked ==
    ASSUME VeTyped, VeTyped', RewardsIInv, NEW id \in Ids, IsLocked(id), NEW fee,
           Release(id, fee)
    PROVE  RewardsIInv'
<1>1. /\ locks' = [locks EXCEPT ![id] = NoLock] /\ perPoint' = perPoint
      /\ usdc' = usdc - Owed(id) /\ excess' = excess
  BY DEF Release
<1>2. NoLock \in LocksOf(Lps) \cup {NoLock}
  OBVIOUS
<1>3. EarnedBacked' /\ StartedIn(locks', perPoint)
  BY <1>1, <1>2, PaidLockBacked
<1>4. StartedIn(locks, perPoint)'
  BY <1>1, <1>3 DEF StartedIn
<1> QED
  BY <1>3, <1>4 DEF RewardsIInv

LEMMA FieldBacked ==
    ASSUME VeTyped, VeTyped', RewardsIInv, NEW id \in Ids,
           LockTimeEnds(id) \/ ClaimRewards(id)
    PROVE  RewardsIInv'
<1>1. IsLocked(id) /\ perPoint' = perPoint /\ excess' = excess
  BY DEF LockTimeEnds, ClaimRewards
<1>2. /\ locks \in LockBook /\ locks' \in LockBook /\ perPoint \in Nat /\ usdc \in Nat
      /\ excess \in Nat /\ StartedIn(locks, perPoint) /\ EarnedBacked
  BY DEF VeTyped, RewardsIInv, LockBook
<1>3. locks[id] \in LocksOf(Lps)
  BY <1>1, OwedType
<1>4. /\ [locks[id] EXCEPT !.over = TRUE] \in LocksOf(Lps)
      /\ [locks[id] EXCEPT !.last = perPoint] \in LocksOf(Lps)
  BY <1>2, <1>3 DEF LocksOf
<1>5. \/ locks' = [locks EXCEPT ![id] = [locks[id] EXCEPT !.over = TRUE]] /\ usdc' = usdc
      \/ /\ locks' = [locks EXCEPT ![id] = [locks[id] EXCEPT !.last = perPoint]]
         /\ usdc' = usdc - Owed(id)
  BY DEF LockTimeEnds, ClaimRewards
<1>6. \A i \in Ids \ {id} : locks'[i] = locks[i]
  BY <1>2, <1>5, Zenon DEF LockBook
<1>7. PointsOf(locks'[id]) = PointsOf(locks[id]) /\ locks'[id] # NoLock
  <2>1. \/ locks'[id] = [locks[id] EXCEPT !.over = TRUE]
        \/ locks'[id] = [locks[id] EXCEPT !.last = perPoint]
    BY <1>2, <1>5, Zenon DEF LockBook
  <2>2. locks'[id] \in LocksOf(Lps)
    BY <1>4, <2>1, Zenon
  <2>3. /\ locks'[id].shares = locks[id].shares /\ locks'[id].multiplier = locks[id].multiplier
        /\ locks'[id] # NoLock
    BY <1>3, <2>1, <2>2 DEF LocksOf, NoLock
  <2> QED
    BY <1>1, <2>3 DEF PointsOf, IsLocked
<1>8. EarnedBacked' /\ StartedIn(locks', perPoint)
  <2>1. CASE locks' = [locks EXCEPT ![id] = [locks[id] EXCEPT !.over = TRUE]] /\ usdc' = usdc
    <3>1. locks'[id] = [locks[id] EXCEPT !.over = TRUE]
      BY <1>2, <2>1, Zenon DEF LockBook
    <3>2. locks'[id].last = locks[id].last
      BY <1>3, <3>1 DEF LocksOf
    <3>3. StartedIn(locks', perPoint)
      BY <1>1, <1>2, <1>6, <3>2, Zenon DEF StartedIn, IsLocked
    <3>4. EarnedOf(locks'[id], perPoint) = EarnedOf(locks[id], perPoint)
      BY <1>1, <1>7, <3>2, Zenon DEF EarnedOf, IsLocked
    <3>5. 0 \in Nat /\ usdc' = usdc - 0
      BY <1>2, <2>1, SMT
    <3>6. EarnedOf(locks'[id], perPoint) + 0 * Unit <= EarnedOf(locks[id], perPoint)
      <4>1. EarnedOf(locks[id], perPoint) \in Nat /\ Unit \in Nat
        BY <1>1, <1>2, OwedOfEarned, UnitType DEF Unit
      <4> QED
        BY <3>4, <4>1, SMT
    <3>7. EarnedBacked'
      BY <1>1, <1>2, <1>6, <3>3, <3>5, <3>6, OneLockBacked
    <3> QED
      BY <3>3, <3>7
  <2>2. CASE /\ locks' = [locks EXCEPT ![id] = [locks[id] EXCEPT !.last = perPoint]]
             /\ usdc' = usdc - Owed(id)
    <3> DEFINE v == [locks[id] EXCEPT !.last = perPoint]
    <3>1. v \in LocksOf(Lps) \cup {NoLock} /\ v.last = perPoint
      BY <1>3, <1>4 DEF LocksOf
    <3>2. locks' = [locks EXCEPT ![id] = v]
      BY <2>2
    <3> HIDE DEF v
    <3> QED
      BY <1>1, <2>2, <3>1, <3>2, PaidLockBacked
  <2> QED
    BY <1>5, <2>1, <2>2
<1>9. StartedIn(locks, perPoint)'
  BY <1>1, <1>8 DEF StartedIn
<1> QED
  BY <1>8, <1>9 DEF RewardsIInv

\* What a transaction may do to the locks, the points and the USDC.
LockSteps ==
    \/ UNCHANGED veVars
    \/ \E owner \in Lps, s \in Shares, multiplier \in Multipliers : Lock(owner, s, multiplier)
    \/ \E id \in Ids : IsLocked(id) /\ \E fee \in Nat : Release(id, fee)
    \/ \E id \in Ids : LockTimeEnds(id) \/ ClaimRewards(id)
    \/ \E rewards \in Nat : DistributeRewards(rewards)

LEMMA NextOfLocks == SharesIInv /\ [Next]_vars => LockSteps
<1> SUFFICES ASSUME SharesIInv, [Next]_vars PROVE LockSteps
  OBVIOUS
<1>1. Typed /\ Counted
  BY CountTypes DEF SharesIInv, Counted, Typed, TrancheTyped
<1>2. ASSUME NEW lp \in Lps, ProviderCalls(lp) PROVE LockSteps
  BY <1>2 DEF ProviderCalls, Deposit, Mint, PutIn, Withdraw, Redeem, Transfer, LockShares,
              LockSteps
<1>3. ASSUME NEW id \in Ids, LockCalls(id) PROVE LockSteps
  <2>1. ASSUME IsLocked(id), NEW fee \in UnlockFees(id, feesOn), UnlockShares(id, fee)
        PROVE  LockSteps
    <3>1. fee \in Nat
      BY <1>1, <2>1, UnlockFeeTypes
    <3> QED
      BY <2>1, <3>1 DEF UnlockShares, Unlock, LockSteps
  <2>2. CASE ForceUnlockShares(id)
    BY <2>2 DEF ForceUnlockShares, ForceUnlock, LockSteps
  <2>3. CASE LockTimeEnds(id) \/ ClaimRewards(id)
    BY <2>3 DEF LockSteps
  <2> QED
    BY <1>3, <2>1, <2>2, <2>3 DEF LockCalls
<1>4. ASSUME NEW amount \in Moved, ManagerCalls(amount) PROVE LockSteps
  <2>1. amount \in Nat
    BY TrancheSharesAssumption
  <2> QED
    BY <1>4, <2>1 DEF ManagerCalls, ReserveBalance, ReleaseBalance, WithdrawAsVaultManager,
                      TrancheRewards, LockSteps
<1>5. ASSUME NEW health \in CollateralFees, DistributeCollectedFeeShares(health)
      PROVE  LockSteps
  <2> DEFINE a == PreviewRedeem(MaxRedeem(Manager), health)
  <2>1. a \in Int
    <3>1. Manager \in Holders /\ balanceOf[Manager] \in Nat /\ health \in Nat
      BY <1>1, TrancheSharesAssumption DEF Holders, Typed, TrancheTyped
    <3>2. MaxRedeem(Manager) \in Nat
      BY <1>1, <3>1, MaxRedeemTypes
    <3> QED
      BY <1>1, <3>1, <3>2, PreviewRedeemTypes
  <2>2. IF a > 0 /\ WholePoints > 0 THEN DistributeRewards(a) ELSE UNCHANGED veVars
    BY <1>5 DEF DistributeCollectedFeeShares
  <2> HIDE DEF a
  <2>3. a > 0 => a \in Nat
    BY <2>1, SMT
  <2> QED
    BY <2>2, <2>3 DEF LockSteps
<1>6. ASSUME NEW on \in BOOLEAN, SetFeesOn(on) PROVE LockSteps
  BY <1>6 DEF SetFeesOn, LockSteps
<1>7. CASE UNCHANGED vars
  BY <1>7 DEF vars, LockSteps
<1> QED
  BY <1>2, <1>3, <1>4, <1>5, <1>6, <1>7 DEF Next

LEMMA RewardsInvStep == SharesIInv /\ RewardsIInv /\ [Next]_vars /\ SharesIInv' => RewardsIInv'
<1> SUFFICES ASSUME SharesIInv, RewardsIInv, [Next]_vars, SharesIInv' PROVE RewardsIInv'
  OBVIOUS
<1>1. VeTyped /\ VeTyped' /\ LocksCounted
  BY DEF SharesIInv, Typed
<1>2. LockSteps
  BY NextOfLocks
<1>3. CASE UNCHANGED veVars
  BY <1>3 DEF veVars, RewardsIInv, EarnedBacked, Unit, StartedIn
<1>4. ASSUME NEW owner \in Lps, NEW s \in Shares, NEW multiplier \in Multipliers,
             Lock(owner, s, multiplier)
      PROVE  RewardsIInv'
  <2>1. s \in Nat \ {0} /\ multiplier \in Nat
    BY VeTrancheAssumption
  <2> QED
    BY <1>1, <1>4, <2>1, NewLockBacked
<1>5. ASSUME NEW id \in Ids, IsLocked(id), NEW fee \in Nat, Release(id, fee)
      PROVE  RewardsIInv'
  BY <1>1, <1>5, ReleaseBacked
<1>6. ASSUME NEW id \in Ids, LockTimeEnds(id) \/ ClaimRewards(id)
      PROVE  RewardsIInv'
  BY <1>1, <1>6, FieldBacked
<1>7. ASSUME NEW rewards \in Nat, DistributeRewards(rewards)
      PROVE  RewardsIInv'
  BY <1>1, <1>7, DistributionBacked
<1> QED
  BY <1>2, <1>3, <1>4, <1>5, <1>6, <1>7 DEF LockSteps

LEMMA RewardsInit == Init => RewardsIInv
<1> SUFFICES ASSUME Init PROVE RewardsIInv
  OBVIOUS
<1>1. /\ locks = [id \in Ids |-> NoLock] /\ perPoint = 0 /\ usdc = 0 /\ excess = 0
  BY DEF Init, VeInit
<1>2. locks \in LockBook /\ 0 \in Nat
  BY TypedInit DEF Typed, VeTyped
<1>3. StartedIn(locks, 0)
  BY <1>1, Zenon DEF StartedIn
<1>4. EarnedAt(locks, 0) \in [Ids -> Nat] /\ \A id \in Ids : EarnedAt(locks, 0)[id] = 0
  BY <1>1, <1>2, <1>3, EarnedTypes DEF EarnedAt, EarnedOf
<1>5. SumFunction(EarnedAt(locks, 0)) = 0
  BY <1>4, SumOfNothing, FiniteDomains
<1>6. EarnedBacked
  <2>1. 0 <= (0 + 0) * Unit
    BY UnitType, SMT DEF Unit
  <2> QED
    BY <1>1, <1>5, <2>1 DEF EarnedBacked
<1> QED
  BY <1>1, <1>3, <1>6 DEF RewardsIInv

\* The contract always has the USDC of all that the locks have earned together, but
\* for what distributions credited beyond it (RewardsBacked).
THEOREM RewardsAlwaysBacked == Spec => []RewardsBacked
<1>1. SharesIInv /\ RewardsIInv => RewardsBacked
  <2> SUFFICES ASSUME SharesIInv, RewardsIInv PROVE RewardsBacked
    OBVIOUS
  <2> DEFINE earned == EarnedAt(locks, perPoint)
             owed == [id \in Ids |-> IF IsLocked(id) THEN Owed(id) ELSE 0]
  <2> DEFINE money == usdc + excess
  <2>1. /\ VeTyped /\ locks \in LockBook /\ perPoint \in Nat /\ money \in Nat
        /\ StartedIn(locks, perPoint) /\ SumFunction(earned) <= money * Unit
    BY SMT DEF SharesIInv, Typed, VeTyped, RewardsIInv, EarnedBacked
  <2>2. Unit \in Nat \ {0}
    BY UnitType DEF Unit
  <2>3. earned \in [Ids -> Nat] /\ SumFunction(earned) \in Nat
    BY <2>1, EarnedTypes
  <2>4. ASSUME NEW id \in Ids PROVE owed[id] \in Nat /\ owed[id] * Unit <= earned[id]
    <3>1. earned[id] = EarnedOf(locks[id], perPoint)
      BY DEF EarnedAt
    <3>2. CASE IsLocked(id)
      BY <2>1, <3>1, <3>2, OwedOfEarned
    <3>3. CASE ~IsLocked(id)
      <4>1. owed[id] = 0 /\ earned[id] = 0 /\ 0 * Unit = 0 /\ 0 <= 0 /\ 0 \in Nat
        BY <2>2, <3>1, <3>3, SMT DEF EarnedOf, IsLocked
      <4> QED
        BY <4>1, Zenon
    <3> QED
      BY <3>2, <3>3
  <2>5. owed \in [Ids -> Nat]
    BY <2>4
  <2>6. RewardsBacked <=> SumFunction(owed) <= money
    BY DEF RewardsBacked
  <2> HIDE DEF earned, owed, money
  <2>7. SumFunction(owed) \in Nat /\ SumFunction(owed) * Unit <= SumFunction(earned)
    BY <2>2, <2>3, <2>4, <2>5, SumType, SumOfParts, FiniteDomains
  <2>8. SumFunction(owed) * Unit <= money * Unit
    <3>1. SumFunction(owed) * Unit \in Nat /\ money * Unit \in Nat
      BY <2>1, <2>2, <2>7, SMT
    <3> QED
      BY <2>1, <2>3, <2>7, <3>1, SMT
  <2>9. SumFunction(owed) * Unit < (money + 1) * Unit
    <3>1. (money + 1) * Unit = money * Unit + Unit /\ money * Unit \in Nat
      BY <2>1, <2>2, SMT
    <3>2. SumFunction(owed) * Unit \in Nat
      BY <2>2, <2>7, SMT
    <3> QED
      BY <2>2, <2>8, <3>1, <3>2, SMT
  <2>10. SumFunction(owed) < money + 1
    <3>1. money + 1 \in Nat
      BY <2>1, SMT
    <3> QED
      BY <2>2, <2>7, <2>9, <3>1, CancelFactor
  <2> QED
    BY <2>1, <2>6, <2>7, <2>10, SMT
<1>2. SharesIInv /\ RewardsIInv /\ [Next]_vars /\ SharesIInv' => RewardsIInv'
  BY RewardsInvStep
<1> QED
  BY <1>1, <1>2, RewardsInit, SharesIInvAlways, PTL DEF Spec
=============================================================================
