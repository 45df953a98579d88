---------------------------- MODULE Vault_proofs ----------------------------
(* Proofs about Vault, for every value of its constants. *)
EXTENDS Vault, TLAPS

-----------------------------------------------------------------------------
(* Integer division. *)

\* Products of naturals are naturals, and keep the order.
LEMMA ProductMonotone ==
    ASSUME NEW a \in Nat, NEW b \in Nat, NEW c \in Nat, a <= b
    PROVE  a * c \in Nat /\ a * c <= b * c
BY SMT

\* A common factor that is not 0 can be taken out of an inequality.
LEMMA CancelFactor ==
    ASSUME NEW a \in Nat, NEW b \in Nat, NEW c \in Nat \ {0}, a * c <= b * c
    PROVE  a <= b
<1>1. SUFFICES ASSUME b + 1 <= a PROVE FALSE
  BY SMT
<1>2. (b + 1) * c <= a * c
  BY <1>1, ProductMonotone
<1>3. (b + 1) * c = b * c + c
  BY SMT
<1> QED
  BY <1>2, <1>3, SMT

\* What is left out by rounding down is never negative.
LEMMA RoundsDown ==
    ASSUME NEW x \in Nat, NEW n \in Nat \ {0}
    PROVE  x \div n \in Nat /\ (x \div n) * n <= x
BY SMT

\* A part rounded down from a whole is at most the whole.
LEMMA PartOfWhole ==
    ASSUME NEW x \in Nat, NEW n \in Nat \ {0}, NEW y \in Nat, x <= y * n
    PROVE  x \div n \in 0 .. y
<1>1. x \div n \in Nat /\ (x \div n) * n <= x
  BY RoundsDown
<1>2. (x \div n) * n <= y * n
  BY <1>1, SMT
<1> QED
  BY <1>1, <1>2, CancelFactor

\* A share in proportion to a part of a whole, rounded down twice on the way,
\* is at most that part as long as what is shared is at most the whole.
LEMMA ShareFits ==
    ASSUME NEW part \in Nat, NEW whole \in Nat \ {0}, part <= whole,
           NEW scale \in Nat \ {0}, NEW amount \in Nat, amount <= whole
    PROVE  (amount * ((part * scale) \div whole)) \div scale \in 0 .. AtMost(amount, part)
<1> DEFINE ratio == (part * scale) \div whole
           share == (amount * ratio) \div scale
<1>1. part * scale \in Nat /\ part * scale <= whole * scale
  BY ProductMonotone
<1>2. part * scale <= scale * whole
  BY <1>1, SMT
<1>3. ratio \in 0 .. scale
  BY <1>1, <1>2, PartOfWhole
<1>4. ratio \in Nat /\ ratio * whole <= part * scale
  BY <1>1, RoundsDown
<1> HIDE DEF ratio
<1>5. amount * ratio \in Nat /\ amount * ratio <= amount * scale
  <2>1. ratio * amount \in Nat /\ ratio * amount <= scale * amount
    BY <1>3, ProductMonotone
  <2> QED
    BY <2>1, <1>3, SMT
<1>6. share \in 0 .. amount
  BY <1>5, PartOfWhole
<1>7. amount * ratio <= part * scale
  <2>1. amount * ratio <= whole * ratio
    BY <1>4, ProductMonotone
  <2>2. whole * ratio = ratio * whole
    BY <1>4, SMT
  <2> QED
    BY <2>1, <2>2, <1>1, <1>4, <1>5, SMT
<1>8. share \in 0 .. part
  BY <1>5, <1>7, PartOfWhole
<1> HIDE DEF share
<1>9. share \in 0 .. AtMost(amount, part)
  BY <1>6, <1>8 DEF AtMost
<1> QED
  BY <1>9 DEF share, ratio

\* Rounding down keeps what divides without a remainder.
LEMMA RoundsDownTo ==
    ASSUME NEW x \in Nat, NEW n \in Nat \ {0}, NEW y \in Nat, y * n <= x
    PROVE  y <= x \div n
<1> DEFINE q == x \div n
<1>1. q \in Nat /\ x < (q + 1) * n
  BY SMT
<1> HIDE DEF q
<1>2. SUFFICES ASSUME q + 1 <= y PROVE FALSE
  BY <1>1, SMT DEF q
<1>3. (q + 1) * n <= y * n
  BY <1>1, <1>2, ProductMonotone
<1> QED
  BY <1>1, <1>3, SMT

-----------------------------------------------------------------------------
(* The ratios. *)

\* The ratio of the tranches is a percentage.
LEMMA CurrentRatioBounds ==
    ASSUME NEW v \in Ledger
    PROVE  CurrentTrancheRatio(v) \in 0 .. 100
<1>1. v.jr \in Nat /\ v.sr \in Nat
  BY DEF Ledger
<1>2. CASE v.jr + v.sr = 0
  BY <1>2, RatiosAssumption DEF CurrentTrancheRatio
<1>3. CASE v.jr + v.sr # 0
  <2>1. 100 * v.jr \in Nat /\ v.jr + v.sr \in Nat \ {0}
    BY <1>1, <1>3, SMT
  <2>2. 100 * v.jr <= 100 * (v.jr + v.sr)
    BY <1>1, SMT
  <2>3. (100 * v.jr) \div (v.jr + v.sr) \in 0 .. 100
    BY <2>1, <2>2, PartOfWhole
  <2> QED
    BY <2>3, <1>3 DEF CurrentTrancheRatio
<1> QED
  BY <1>2, <1>3

\* So is the ratio of what is not reserved, where it is defined.
LEMMA UnreservedRatioBounds ==
    ASSUME NEW v \in Ledger, UnreservedDefined(v)
    PROVE  UnreservedTrancheRatio(v) \in 0 .. 100
<1> DEFINE junior == v.jr - v.jrReserved
           senior == v.sr - v.srReserved
<1>1. junior \in Nat /\ senior \in Nat /\ senior + junior \in Nat \ {0}
  BY SMT DEF Ledger, UnreservedDefined
<1> HIDE DEF junior, senior
<1>2. 100 * junior \in Nat /\ 100 * junior <= 100 * (senior + junior)
  BY <1>1, SMT
<1>3. (100 * junior) \div (senior + junior) \in 0 .. 100
  BY <1>1, <1>2, PartOfWhole
<1> QED
  BY <1>3 DEF UnreservedTrancheRatio, junior, senior

\* The junior tranche's part of a reserve is a percentage.
LEMMA ReserveRatioBounds ==
    ASSUME NEW v \in Ledger, NEW amount \in Nat, amount > 0 => UnreservedDefined(v)
    PROVE  ReserveRatio(v, amount) \in 0 .. 100
<1>1. CASE amount > 0 /\ Constrained(v, amount)
  BY <1>1, UnreservedRatioBounds DEF ReserveRatio
<1>2. CASE ~(amount > 0 /\ Constrained(v, amount))
  BY <1>2, CurrentRatioBounds, RatiosAssumption DEF ReserveRatio
<1> QED
  BY <1>1, <1>2

\* No share of the profit is scaled by a negative factor.
LEMMA ProfitMultiplierIsNat ==
    ASSUME NEW v \in Ledger
    PROVE  ProfitMultiplier(v) \in Nat
<1> DEFINE ratio == CurrentTrancheRatio(v)
<1>0. ratio \in 0 .. 100
  BY CurrentRatioBounds
<1> HIDE DEF ratio
<1> USE RatiosAssumption
<1>1. CASE ratio > TargetReserveRatio
  <2> DEFINE above == ratio - TargetReserveRatio
             width == BaseMultiplier - MinMultiplier
             room  == 100 - TargetReserveRatio
  <2>1. above \in Nat /\ width \in Nat /\ room \in Nat \ {0} /\ above <= room
    BY <1>0, <1>1, SMT
  <2> HIDE DEF above, width, room
  <2>2. above * width \in Nat /\ above * width <= room * width
    BY <2>1, ProductMonotone
  <2>3. above * width <= width * room
    BY <2>1, <2>2, SMT
  <2>4. (above * width) \div room \in 0 .. width
    BY <2>1, <2>2, <2>3, PartOfWhole
  <2>5. BaseMultiplier - (above * width) \div room \in Nat
    BY <2>1, <2>4, SMT DEF width
  <2> QED
    BY <1>1, <2>5, SMT DEF ProfitMultiplier, ratio, above, width, room
<1>2. CASE ratio < 100 - TargetReserveRatio /\ ~(ratio > TargetReserveRatio)
  <2> DEFINE below == TargetReserveRatio - ratio
  <2>1. below \in Nat
    BY <1>0, <1>2, SMT
  <2> HIDE DEF below
  <2>2. below * below * MultiplierCoeff * 100 \in Nat
    BY <2>1, SMT
  <2>3. (below * below * MultiplierCoeff * 100) \div MultiplierDenom \in Nat
    BY <2>2, RoundsDown
  <2>4. BaseMultiplier + (below * below * MultiplierCoeff * 100) \div MultiplierDenom \in Nat
    BY <2>3, SMT
  <2> QED
    BY <1>2, <2>4 DEF ProfitMultiplier, ratio, below
<1>3. CASE ~(ratio > TargetReserveRatio) /\ ~(ratio < 100 - TargetReserveRatio)
  BY <1>3 DEF ProfitMultiplier, ratio
<1> QED
  BY <1>1, <1>2, <1>3

-----------------------------------------------------------------------------
(* The shares of the tranches. *)

\* What the junior tranche releases of an amount that is reserved, it has
\* reserved, and so has the senior tranche the rest.
LEMMA ReleaseShares ==
    ASSUME NEW v \in Ledger, NEW amount \in Nat, 0 < v.jrReserved + v.srReserved,
           amount <= v.jrReserved + v.srReserved
    PROVE  /\ JuniorToRelease(v, amount) \in 0 .. v.jrReserved
           /\ SeniorToRelease(v, amount) \in 0 .. v.srReserved
<1> DEFINE whole  == v.jrReserved + v.srReserved
           scale  == Precision * 100
           junior == (amount * ((v.jrReserved * scale) \div whole)) \div scale
<1>1. v.jrReserved \in Nat /\ v.srReserved \in Nat
  BY DEF Ledger
<1>2. whole \in Nat \ {0} /\ v.jrReserved <= whole /\ amount <= whole
  BY <1>1, SMT
<1>3. scale \in Nat \ {0} /\ v.jrReserved * 100 * Precision = v.jrReserved * scale
  BY <1>1, RatiosAssumption, SMT
<1>4. junior \in 0 .. AtMost(amount, v.jrReserved)
  BY <1>1, <1>2, <1>3, ShareFits
<1>5. JuniorToRelease(v, amount) =
        IF amount - junior > v.srReserved
        THEN junior + ((amount - junior) - v.srReserved) ELSE junior
  BY <1>3 DEF JuniorToRelease, ReleaseRatio
<1> HIDE DEF junior
<1>6. junior \in 0 .. amount /\ junior \in 0 .. v.jrReserved
  BY <1>1, <1>4, SMT DEF AtMost
<1>7. CASE amount - junior > v.srReserved
  BY <1>1, <1>2, <1>5, <1>6, <1>7, SMT DEF SeniorToRelease
<1>8. CASE ~(amount - junior > v.srReserved)
  BY <1>1, <1>2, <1>5, <1>6, <1>8, SMT DEF SeniorToRelease
<1> QED
  BY <1>7, <1>8

\* The tranches divide what they lose between them.
LEMMA LossShares ==
    ASSUME NEW v \in Ledger, NEW amount \in Nat
    PROVE  /\ Shortfall(v, amount) \in Nat
           /\ SeniorLoss(v, amount) \in 0 .. Shortfall(v, amount)
           /\ JuniorLoss(v, amount) \in 0 .. Shortfall(v, amount)
<1> DEFINE short  == Shortfall(v, amount)
           senior == 100 - ReserveRatio(v, 0)
           scaled == BaseMultiplier * short * senior
<1>1. short \in Nat
  BY SMT DEF Ledger, Shortfall
<1> HIDE DEF short
<1>2. senior \in Nat
  <2>1. ReserveRatio(v, 0) \in 0 .. 100
    BY ReserveRatioBounds
  <2> QED
    BY <2>1, SMT
<1> HIDE DEF senior
<1>3. BaseMultiplier * short \in Nat
  BY <1>1, RatiosAssumption, SMT
<1>4. scaled \in Nat
  BY <1>2, <1>3, SMT
<1> HIDE DEF scaled
<1>5. scaled \div 10000 \in Nat
  BY <1>4, RoundsDown
<1>6. SeniorLoss(v, amount) = AtMost(scaled \div 10000, short)
  BY DEF SeniorLoss, scaled, senior, short
<1>7. SeniorLoss(v, amount) \in 0 .. short
  BY <1>1, <1>5, <1>6, SMT DEF AtMost
<1>8. JuniorLoss(v, amount) \in 0 .. short
  BY <1>1, <1>7, SMT DEF JuniorLoss, short
<1> QED
  BY <1>1, <1>7, <1>8 DEF short

\* The tranches divide the rewards between them.
LEMMA RewardShares ==
    ASSUME NEW v \in Ledger, NEW rewards \in Nat
    PROVE  JuniorRewards(v, rewards) \in 0 .. rewards
<1> DEFINE multiplier == ProfitMultiplier(v)
           ratio  == ReserveRatio(v, 0)
           scaled == multiplier * rewards * ratio
<1>1. multiplier \in Nat /\ ratio \in Nat
  BY ProfitMultiplierIsNat, ReserveRatioBounds
<1> HIDE DEF multiplier, ratio
<1>2. multiplier * rewards \in Nat
  BY <1>1, SMT
<1>3. scaled \in Nat
  BY <1>1, <1>2, SMT
<1> HIDE DEF scaled
<1>4. scaled \div 10000 \in Nat
  BY <1>3, RoundsDown
<1>5. JuniorRewards(v, rewards) = AtMost(scaled \div 10000, rewards)
  BY DEF JuniorRewards, scaled, multiplier, ratio
<1> QED
  BY <1>4, <1>5, SMT DEF AtMost

\* No more vests than there is.
LEMMA VestedBounds ==
    ASSUME NEW v \in Ledger, NEW t \in Nat
    PROVE  Vested(v, t) \in 0 .. v.totalRewards
<1> DEFINE scaled == v.totalRewards * t
<1>1. v.totalRewards \in Nat
  BY DEF Ledger
<1>2. scaled \in Nat
  BY <1>1, SMT
<1> HIDE DEF scaled
<1>3. scaled \div RewardPeriod \in Nat
  BY <1>2, RoundsDown, RatiosAssumption
<1>4. Vested(v, t) = AtMost(scaled \div RewardPeriod, v.totalRewards)
  BY DEF Vested, scaled
<1> QED
  BY <1>1, <1>3, <1>4, SMT DEF AtMost

\* A tranche whose utilization is below the threshold has what it reserved.
LEMMA BelowThresholdIsFunded ==
    ASSUME NEW assets \in Nat, NEW reserved \in Nat,
           UtilizationBelowThreshold(assets, reserved)
    PROVE  reserved <= assets
<1> DEFINE scale == Precision * 100
<1>1. assets \in Nat \ {0} /\ scale \in Nat \ {0}
  BY RatiosAssumption, SMT DEF UtilizationBelowThreshold
<1>2. SUFFICES ASSUME assets <= reserved, ~(reserved <= assets) PROVE FALSE
  BY SMT
<1>3. (reserved * scale) \div assets < WithdrawThreshold * Precision
  <2>1. reserved * Precision * 100 = reserved * scale
    BY RatiosAssumption, SMT
  <2> QED
    BY <2>1 DEF UtilizationBelowThreshold
<1>4. WithdrawThreshold * Precision <= scale
  <2>1. WithdrawThreshold * Precision <= 100 * Precision
    BY RatiosAssumption, ProductMonotone, SMT
  <2> QED
    BY <2>1, RatiosAssumption, SMT
<1> HIDE DEF scale
<1>5. assets * scale \in Nat /\ assets * scale <= reserved * scale
  BY <1>1, <1>2, ProductMonotone
<1>6. scale * assets <= reserved * scale /\ reserved * scale \in Nat
  BY <1>1, <1>5, SMT
<1>7. scale <= (reserved * scale) \div assets
  BY <1>1, <1>6, RoundsDownTo
<1>8. (reserved * scale) \div assets \in Nat
  BY <1>1, <1>6, RoundsDown
<1>9. WithdrawThreshold * Precision \in Nat
  BY RatiosAssumption, SMT
<1> QED
  BY <1>1, <1>3, <1>4, <1>7, <1>8, <1>9, SMT

-----------------------------------------------------------------------------
(* The ledger after each call.  Only what a payout does to the reserves is *)
(* left open.                                                              *)

\* A reserve leaves each tranche with what it has reserved.
LEMMA ReserveKeeps ==
    ASSUME NEW v \in Ledger, NEW amount \in Nat, CanReserve(v, amount)
    PROVE  /\ JuniorToReserve(v, amount) \in 0 .. amount
           /\ Reserve(v, amount) \in Ledger /\ Funded(Reserve(v, amount))
<1> DEFINE ratio  == ReserveRatio(v, amount)
           junior == (amount * ratio) \div 100
<1>1. ratio \in 0 .. 100
  BY ReserveRatioBounds, SMT DEF CanReserve
<1> HIDE DEF ratio
<1>2. amount * ratio \in Nat /\ amount * ratio <= amount * 100
  BY <1>1, SMT
<1>3. junior \in 0 .. amount
  BY <1>2, PartOfWhole
<1>4. JuniorToReserve(v, amount) = junior
  BY DEF JuniorToReserve, ratio
<1> HIDE DEF junior
<1>5. /\ v.jrReserved + junior \in Nat /\ v.srReserved + (amount - junior) \in Nat
      /\ v.jrReserved + junior <= v.jr /\ v.srReserved + (amount - junior) <= v.sr
  BY <1>3, <1>4, SMT DEF CanReserve, Ledger
<1>6. Reserve(v, amount) = [v EXCEPT !.jrReserved = v.jrReserved + junior,
                                     !.srReserved = v.srReserved + (amount - junior)]
  BY <1>4, Zenon DEF Reserve
<1>7. Reserve(v, amount) \in Ledger
  BY <1>5, <1>6, Zenon DEF Ledger
<1>8. Funded(Reserve(v, amount))
  BY <1>5, <1>6, Zenon DEF Ledger, Funded
<1> QED
  BY <1>3, <1>4, <1>7, <1>8

\* A release takes from each tranche no more than it has reserved.
LEMMA ReleaseKeeps ==
    ASSUME NEW v \in Ledger, NEW amount \in Nat, CanRelease(v, amount)
    PROVE  /\ JuniorToRelease(v, amount) \in 0 .. v.jrReserved
           /\ Release(v, amount) \in Ledger
           /\ Funded(v) => Funded(Release(v, amount))
<1> DEFINE junior == JuniorToRelease(v, amount)
           senior == SeniorToRelease(v, amount)
<1>1. v.jrReserved \in Nat /\ v.srReserved \in Nat
  BY DEF Ledger
<1>2. junior <= v.jrReserved /\ senior <= v.srReserved
  BY DEF CanRelease
<1>3. amount <= v.jrReserved + v.srReserved
  <2>1. junior \in Int
    <3> DEFINE share == (amount * ReleaseRatio(v)) \div (Precision * 100)
    <3>1. share \in Int
      <4>1. ReleaseRatio(v) \in Int
        BY <1>1, RatiosAssumption, SMT DEF ReleaseRatio, CanRelease
      <4> HIDE DEF share
      <4>2. amount * ReleaseRatio(v) \in Int /\ Precision * 100 \in Nat \ {0}
        BY <4>1, RatiosAssumption, SMT
      <4> QED
        BY <4>2, SMT DEF share
    <3> HIDE DEF share
    <3>2. junior = IF amount - share > v.srReserved
                   THEN share + ((amount - share) - v.srReserved) ELSE share
      BY DEF JuniorToRelease, share
    <3> HIDE DEF junior
    <3> QED
      BY <1>1, <3>1, <3>2, SMT
  <2>2. senior = amount - junior
    BY DEF SeniorToRelease
  <2> HIDE DEF junior, senior
  <2> QED
    BY <1>1, <1>2, <2>1, <2>2, SMT
<1>4. junior \in 0 .. v.jrReserved /\ senior \in 0 .. v.srReserved
  BY <1>3, ReleaseShares DEF CanRelease
<1>5. Release(v, amount) = [v EXCEPT !.jrReserved = v.jrReserved - junior,
                                     !.srReserved = v.srReserved - senior]
  BY Zenon DEF Release
<1> HIDE DEF junior, senior
<1>6. /\ v.jrReserved - junior \in Nat /\ v.srReserved - senior \in Nat
      /\ v.jrReserved - junior <= v.jrReserved /\ v.srReserved - senior <= v.srReserved
  BY <1>1, <1>4, SMT
<1>7. Release(v, amount) \in Ledger
  BY <1>5, <1>6, Zenon DEF Ledger
<1>8. Funded(v) => v.jrReserved - junior <= v.jr /\ v.srReserved - senior <= v.sr
  BY <1>6, SMT DEF Ledger, Funded
<1>9. Funded(v) => Funded(Release(v, amount))
  BY <1>5, <1>8, Zenon DEF Ledger, Funded
<1> QED
  BY <1>4, <1>7, <1>9 DEF junior

\* A payout asks of the tranches no more than they have, and leaves the
\* manager with the rewards.
LEMMA SendKeeps ==
    ASSUME NEW v \in Ledger, NEW amount \in Nat, CanSend(v, amount)
    PROVE  /\ Send(v, amount) \in Ledger
           /\ Send(v, amount).cash >= Send(v, amount).totalRewards
<1>1. /\ SeniorLoss(v, amount) \in Nat /\ JuniorLoss(v, amount) \in Nat
      /\ Shortfall(v, amount) \in Nat
  BY LossShares, SMT
<1>2. /\ v.jr - JuniorLoss(v, amount) \in Nat /\ v.sr - SeniorLoss(v, amount) \in Nat
  BY <1>1, SMT DEF CanSend, Ledger
<1>3. /\ v.cash + Shortfall(v, amount) - amount \in Nat
      /\ v.cash + Shortfall(v, amount) - amount >= v.totalRewards
  BY SMT DEF Ledger, Shortfall
<1>4. Send(v, amount) = [v EXCEPT !.jr = v.jr - JuniorLoss(v, amount),
                                  !.sr = v.sr - SeniorLoss(v, amount),
                                  !.cash = v.cash + Shortfall(v, amount) - amount]
  BY Zenon DEF Send
<1>5. Send(v, amount) \in Ledger
  BY <1>2, <1>3, <1>4, Zenon DEF Ledger
<1>6. Send(v, amount).cash >= Send(v, amount).totalRewards
  BY <1>3, <1>4, Zenon DEF Ledger
<1> QED
  BY <1>5, <1>6

\* What only adds to the manager's accounts leaves the reserves alone.
LEMMA AccountsKeep ==
    ASSUME NEW v \in Ledger, NEW amount \in Nat
    PROVE  /\ Receive(v, amount) \in Ledger
           /\ AllocateRewards(v, amount) \in Ledger
           /\ AllocatePnl(v, amount) \in Ledger
           /\ CanRebate(v, amount) => Rebate(v, amount) \in Ledger
           /\ Funded(v) => /\ Funded(Receive(v, amount))
                           /\ Funded(AllocateRewards(v, amount))
                           /\ Funded(AllocatePnl(v, amount))
                           /\ Funded(Rebate(v, amount))
BY SMT DEF Ledger, Funded, Receive, AllocateRewards, AllocatePnl, CanRebate, Rebate

\* A deposit adds to a tranche's assets.
LEMMA DepositKeeps ==
    ASSUME NEW v \in Ledger, NEW amount \in Nat, NEW fee \in 0 .. amount
    PROVE  /\ DepositJunior(v, amount, fee) \in Ledger
           /\ DepositSenior(v, amount, fee) \in Ledger
           /\ Funded(v) => /\ Funded(DepositJunior(v, amount, fee))
                           /\ Funded(DepositSenior(v, amount, fee))
<1>1. /\ v.jr + (amount - fee) \in Nat /\ v.sr + (amount - fee) \in Nat
      /\ v.cash + fee \in Nat /\ v.totalRewards + fee \in Nat
  BY SMT DEF Ledger
<1>2. /\ DepositJunior(v, amount, fee) \in Ledger
      /\ DepositSenior(v, amount, fee) \in Ledger
  BY <1>1, Zenon DEF Ledger, DepositJunior, DepositSenior
<1>3. Funded(v) => /\ v.jrReserved <= v.jr + (amount - fee)
                   /\ v.srReserved <= v.sr + (amount - fee)
  BY SMT DEF Ledger, Funded
<1>4. Funded(v) => /\ Funded(DepositJunior(v, amount, fee))
                   /\ Funded(DepositSenior(v, amount, fee))
  BY <1>3, Zenon DEF Ledger, Funded, DepositJunior, DepositSenior
<1> QED
  BY <1>2, <1>4

\* A withdrawal leaves its tranche with what the tranche has reserved.
LEMMA WithdrawJuniorKeeps ==
    ASSUME NEW v \in Ledger, NEW amount \in Nat, NEW fee \in Nat,
           CanWithdraw(v.jr, v.jrReserved, amount, fee)
    PROVE  /\ WithdrawJunior(v, amount, fee) \in Ledger
           /\ Funded(v) => Funded(WithdrawJunior(v, amount, fee))
<1>1. /\ v.jr - (amount + fee) \in Nat /\ v.jrReserved \in Nat
      /\ v.cash + fee \in Nat /\ v.totalRewards + fee \in Nat
  BY SMT DEF Ledger, CanWithdraw
<1>2. v.jrReserved <= v.jr - (amount + fee)
  BY <1>1, BelowThresholdIsFunded DEF CanWithdraw
<1>3. WithdrawJunior(v, amount, fee) \in Ledger
  BY <1>1, Zenon DEF Ledger, WithdrawJunior
<1>4. Funded(v) => Funded(WithdrawJunior(v, amount, fee))
  BY <1>2, Zenon DEF Ledger, Funded, WithdrawJunior
<1> QED
  BY <1>3, <1>4

\* As the junior tranche's withdrawals.
LEMMA WithdrawSeniorKeeps ==
    ASSUME NEW v \in Ledger, NEW amount \in Nat, NEW fee \in Nat,
           CanWithdraw(v.sr, v.srReserved, amount, fee)
    PROVE  /\ WithdrawSenior(v, amount, fee) \in Ledger
           /\ Funded(v) => Funded(WithdrawSenior(v, amount, fee))
<1>1. /\ v.sr - (amount + fee) \in Nat /\ v.srReserved \in Nat
      /\ v.cash + fee \in Nat /\ v.totalRewards + fee \in Nat
  BY SMT DEF Ledger, CanWithdraw
<1>2. v.srReserved <= v.sr - (amount + fee)
  BY <1>1, BelowThresholdIsFunded DEF CanWithdraw
<1>3. WithdrawSenior(v, amount, fee) \in Ledger
  BY <1>1, Zenon DEF Ledger, WithdrawSenior
<1>4. Funded(v) => Funded(WithdrawSenior(v, amount, fee))
  BY <1>2, Zenon DEF Ledger, Funded, WithdrawSenior
<1> QED
  BY <1>3, <1>4

\* A tranche's part of the rewards leaves the tranche, which the redemption of
\* the fee shares could have drawn on, with what it has reserved.
LEMMA PayJuniorKeeps ==
    ASSUME NEW v \in Ledger, NEW rewards \in Nat,
           NEW part \in [ve : Nat, redeemed : Nat, fee : Nat, lockers : BOOLEAN],
           CanPay(part, v.jr, v.jrReserved, v.cash, rewards)
    PROVE  /\ PayJunior(v, rewards, part) \in Ledger
           /\ Funded(v) => Funded(PayJunior(v, rewards, part))
<1> DEFINE paid     == [v EXCEPT !.jr = v.jr + (rewards - part.ve), !.cash = v.cash - rewards]
           redeemed == WithdrawJunior(paid, part.redeemed, part.fee)
<1>1. part.ve \in Nat /\ part.redeemed \in Nat /\ part.fee \in Nat
  OBVIOUS
<1>2. part.ve <= rewards /\ rewards <= v.cash
  BY DEF CanPay
<1>3. /\ v.jr + (rewards - part.ve) \in Nat /\ v.jr <= v.jr + (rewards - part.ve)
      /\ v.cash - rewards \in Nat
  BY <1>1, <1>2, SMT DEF Ledger
<1>4. paid \in Ledger
  BY <1>3, Zenon DEF Ledger
<1>5. paid.jr = v.jr + (rewards - part.ve) /\ paid.jrReserved = v.jrReserved
      /\ paid.sr = v.sr /\ paid.srReserved = v.srReserved
  BY Zenon DEF Ledger
<1>6. Funded(v) => Funded(paid)
  BY <1>3, <1>5, SMT DEF Funded, Ledger
<1>7. CanWithdraw(paid.jr, paid.jrReserved, part.redeemed, part.fee)
  BY <1>5, Zenon DEF CanPay
<1> HIDE DEF paid
<1>8. redeemed \in Ledger /\ (Funded(paid) => Funded(redeemed))
  BY <1>1, <1>4, <1>7, WithdrawJuniorKeeps
<1> HIDE DEF redeemed
<1>9. /\ Receive(redeemed, part.redeemed) \in Ledger
      /\ Funded(redeemed) => Funded(Receive(redeemed, part.redeemed))
  BY <1>1, <1>8, AccountsKeep
<1>10. PayJunior(v, rewards, part) =
         IF part.lockers THEN redeemed ELSE Receive(redeemed, part.redeemed)
  BY Zenon DEF PayJunior, redeemed, paid
<1> QED
  BY <1>6, <1>8, <1>9, <1>10, Zenon

\* As the junior tranche's part.
LEMMA PaySeniorKeeps ==
    ASSUME NEW v \in Ledger, NEW rewards \in Nat,
           NEW part \in [ve : Nat, redeemed : Nat, fee : Nat, lockers : BOOLEAN],
           CanPay(part, v.sr, v.srReserved, v.cash, rewards)
    PROVE  /\ PaySenior(v, rewards, part) \in Ledger
           /\ Funded(v) => Funded(PaySenior(v, rewards, part))
<1> DEFINE paid     == [v EXCEPT !.sr = v.sr + (rewards - part.ve), !.cash = v.cash - rewards]
           redeemed == WithdrawSenior(paid, part.redeemed, part.fee)
<1>1. part.ve \in Nat /\ part.redeemed \in Nat /\ part.fee \in Nat
  OBVIOUS
<1>2. part.ve <= rewards /\ rewards <= v.cash
  BY DEF CanPay
<1>3. /\ v.sr + (rewards - part.ve) \in Nat /\ v.sr <= v.sr + (rewards - part.ve)
      /\ v.cash - rewards \in Nat
  BY <1>1, <1>2, SMT DEF Ledger
<1>4. paid \in Ledger
  BY <1>3, Zenon DEF Ledger
<1>5. paid.sr = v.sr + (rewards - part.ve) /\ paid.srReserved = v.srReserved
      /\ paid.jr = v.jr /\ paid.jrReserved = v.jrReserved
  BY Zenon DEF Ledger
<1>6. Funded(v) => Funded(paid)
  BY <1>3, <1>5, SMT DEF Funded, Ledger
<1>7. CanWithdraw(paid.sr, paid.srReserved, part.redeemed, part.fee)
  BY <1>5, Zenon DEF CanPay
<1> HIDE DEF paid
<1>8. redeemed \in Ledger /\ (Funded(paid) => Funded(redeemed))
  BY <1>1, <1>4, <1>7, WithdrawSeniorKeeps
<1> HIDE DEF redeemed
<1>9. /\ Receive(redeemed, part.redeemed) \in Ledger
      /\ Funded(redeemed) => Funded(Receive(redeemed, part.redeemed))
  BY <1>1, <1>8, AccountsKeep
<1>10. PaySenior(v, rewards, part) =
         IF part.lockers THEN redeemed ELSE Receive(redeemed, part.redeemed)
  BY Zenon DEF PaySenior, redeemed, paid
<1> QED
  BY <1>6, <1>8, <1>9, <1>10, Zenon

\* Rewards distributed are rewards held, one tranche's part after the other's.
LEMMA DistributeKeeps ==
    ASSUME NEW v \in Ledger, NEW t \in Nat,
           NEW junior \in [ve : Nat, redeemed : Nat, fee : Nat, lockers : BOOLEAN],
           NEW senior \in [ve : Nat, redeemed : Nat, fee : Nat, lockers : BOOLEAN],
           CanPayJunior(v, t, junior), CanPaySenior(v, t, junior, senior)
    PROVE  /\ Distribute(v, t, junior, senior) \in Ledger
           /\ Funded(v) => Funded(Distribute(v, t, junior, senior))
<1> DEFINE rewards == Vested(v, t)
           share   == JuniorRewards(v, rewards)
           rest    == SeniorRewards(v, t)
           left    == [v EXCEPT !.totalRewards = v.totalRewards - rewards]
           half    == HalfDistributed(v, t, junior)
<1>1. rewards \in 0 .. v.totalRewards /\ v.totalRewards \in Nat
  BY VestedBounds DEF Ledger
<1>2. rewards \in Nat /\ v.totalRewards - rewards \in Nat
  BY <1>1, SMT
<1>3. share \in 0 .. rewards
  BY <1>2, RewardShares
<1>4. share \in Nat /\ rest \in Nat
  BY <1>2, <1>3, SMT DEF SeniorRewards
<1>5. left \in Ledger /\ (Funded(v) => Funded(left))
  BY <1>2, Zenon DEF Ledger, Funded
<1>6. /\ left.jr = v.jr /\ left.jrReserved = v.jrReserved /\ left.cash = v.cash
  BY Zenon DEF Ledger
<1>7. /\ CanPay(junior, v.jr, v.jrReserved, v.cash, share)
      /\ CanPay(senior, half.sr, half.srReserved, half.cash, rest)
  BY Zenon DEF CanPayJunior, CanPaySenior
<1>8. half = PayJunior(left, share, junior)
  BY Zenon DEF HalfDistributed
<1>9. Distribute(v, t, junior, senior) = PaySenior(half, rest, senior)
  BY Zenon DEF Distribute
<1> HIDE DEF rewards, share, rest, left, half
<1>10. half \in Ledger /\ (Funded(left) => Funded(half))
  BY <1>4, <1>5, <1>6, <1>7, <1>8, PayJuniorKeeps
<1>11. /\ PaySenior(half, rest, senior) \in Ledger
       /\ Funded(half) => Funded(PaySenior(half, rest, senior))
  BY <1>4, <1>7, <1>10, PaySeniorKeeps
<1> QED
  BY <1>5, <1>9, <1>10, <1>11

\* Traders' losses distributed are in the manager, and go to the tranches.
LEMMA DistributePnlKeeps ==
    ASSUME NEW v \in Ledger, CanDistributePnl(v)
    PROVE  DistributePnl(v) \in Ledger /\ (Funded(v) => Funded(DistributePnl(v)))
<1> DEFINE junior == JuniorRewards(v, v.pnlRewards)
<1>1. v.pnlRewards \in Nat
  BY DEF Ledger
<1>2. junior \in 0 .. v.pnlRewards
  BY <1>1, RewardShares
<1>3. DistributePnl(v) = [v EXCEPT !.jr = v.jr + junior,
                                   !.sr = v.sr + (v.pnlRewards - junior),
                                   !.cash = v.cash - v.pnlRewards]
  BY Zenon DEF DistributePnl
<1> HIDE DEF junior
<1>4. /\ v.jr + junior \in Nat /\ v.sr + (v.pnlRewards - junior) \in Nat
      /\ v.cash - v.pnlRewards \in Nat
  BY <1>1, <1>2, SMT DEF Ledger, CanDistributePnl
<1>5. DistributePnl(v) \in Ledger
  BY <1>3, <1>4, Zenon DEF Ledger
<1>6. Funded(v) => /\ v.jrReserved <= v.jr + junior
                   /\ v.srReserved <= v.sr + (v.pnlRewards - junior)
  BY <1>1, <1>2, SMT DEF Ledger, Funded
<1>7. Funded(v) => Funded(DistributePnl(v))
  BY <1>3, <1>6, Zenon DEF Ledger, Funded
<1> QED
  BY <1>5, <1>7

-----------------------------------------------------------------------------
(* The specification. *)

\* Each call leaves a ledger and, unless it is a payout to a trader, leaves the
\* tranches with what they have reserved if they had it.
LEMMA VaultNextKeeps ==
    ASSUME VaultTypeOK, VaultNext
    PROVE  /\ VaultTypeOK'
           /\ Funded(vault) => \/ Funded(vault')
                              \/ \E amount \in Amounts : SendUSDCToTrader(amount)
<1> DEFINE Kept == VaultTypeOK' /\ (Funded(vault) => Funded(vault'))
<1>0. vault \in Ledger /\ elapsed \in 0 .. RewardPeriod + 1
  BY DEF VaultTypeOK
<1>1. ASSUME NEW v \in Ledger, Becomes(v) PROVE VaultTypeOK' /\ vault' = v
  BY <1>0, <1>1 DEF Becomes, VaultTypeOK
<1>2. ASSUME NEW amount \in Nat \ {0}, ReserveBalance(amount) PROVE Kept
  BY <1>0, <1>1, <1>2, ReserveKeeps DEF ReserveBalance
<1>3. ASSUME NEW amount \in Nat \ {0}, ReleaseBalance(amount) PROVE Kept
  BY <1>0, <1>1, <1>3, ReleaseKeeps DEF ReleaseBalance
<1>4. ASSUME NEW amount \in Nat, ReceiveUSDCFromTrader(amount) PROVE Kept
  BY <1>0, <1>1, <1>4, AccountsKeep DEF ReceiveUSDCFromTrader
<1>5. ASSUME NEW amount \in Nat, SendUSDCToTrader(amount) PROVE VaultTypeOK'
  BY <1>0, <1>1, <1>5, SendKeeps DEF SendUSDCToTrader
<1>6. ASSUME NEW amount \in Nat, AllocateFees(amount) PROVE Kept
  BY <1>0, <1>1, <1>6, AccountsKeep DEF AllocateFees
<1>7. ASSUME NEW amount \in Nat, AllocateLosses(amount) PROVE Kept
  BY <1>0, <1>1, <1>7, AccountsKeep DEF AllocateLosses
<1>8. ASSUME NEW amount \in Nat, SendReferrerRebateToStorage(amount) PROVE Kept
  BY <1>0, <1>1, <1>8, AccountsKeep DEF SendReferrerRebateToStorage
<1>9. ASSUME NEW amount \in Nat, NEW fee \in Nat, Deposit(amount, fee) PROVE Kept
  <2>1. fee \in 0 .. amount
    BY <1>9, SMT DEF Deposit
  <2> QED
    BY <1>0, <1>1, <1>9, <2>1, DepositKeeps DEF Deposit
<1>10. ASSUME NEW amount \in Nat, NEW fee \in Nat, Withdraw(amount, fee) PROVE Kept
  <2>1. CASE /\ CanWithdraw(vault.jr, vault.jrReserved, amount, fee)
             /\ Becomes(WithdrawJunior(vault, amount, fee))
    BY <1>0, <1>1, <2>1, WithdrawJuniorKeeps
  <2>2. CASE /\ CanWithdraw(vault.sr, vault.srReserved, amount, fee)
             /\ Becomes(WithdrawSenior(vault, amount, fee))
    BY <1>0, <1>1, <2>2, WithdrawSeniorKeeps
  <2> QED
    BY <1>10, <2>1, <2>2 DEF Withdraw
<1>11. ASSUME DistributeRewards PROVE Kept
  <2>1. PICK junior \in Parts, senior \in Parts :
           /\ CanPayJunior(vault, elapsed, junior)
           /\ CanPaySenior(vault, elapsed, junior, senior)
           /\ vault' = Distribute(vault, elapsed, junior, senior)
           /\ elapsed' = 0
    BY <1>11 DEF DistributeRewards
  <2>2. 0 .. vault.totalRewards \subseteq Nat /\ elapsed \in Nat
    BY <1>0, RatiosAssumption, SMT DEF Ledger
  <2>3. /\ junior \in [ve : Nat, redeemed : Nat, fee : Nat, lockers : BOOLEAN]
       /\ senior \in [ve : Nat, redeemed : Nat, fee : Nat, lockers : BOOLEAN]
    BY <2>2, VaultAssumption, Zenon DEF Parts
  <2>4. vault' \in Ledger /\ (Funded(vault) => Funded(vault'))
    BY <1>0, <2>1, <2>2, <2>3, DistributeKeeps
  <2>5. elapsed' \in 0 .. RewardPeriod + 1
    BY <2>1, RatiosAssumption, SMT
  <2> QED
    BY <2>4, <2>5 DEF VaultTypeOK
<1>12. ASSUME DistributePnlRewards PROVE Kept
  BY <1>0, <1>1, <1>12, DistributePnlKeeps DEF DistributePnlRewards
<1>13. ASSUME Tick PROVE Kept
  <2>1. elapsed' \in 0 .. RewardPeriod + 1
    BY <1>0, <1>13, RatiosAssumption, SMT DEF Tick
  <2> QED
    BY <1>0, <1>13, <2>1 DEF Tick, VaultTypeOK
<1>14. Amounts \subseteq Nat \ {0} /\ Fees \subseteq Nat
  BY VaultAssumption
<1> HIDE DEF Kept
<1>15. CASE \E amount \in Amounts : SendUSDCToTrader(amount)
  BY <1>5, <1>14, <1>15
<1>16. CASE ~\E amount \in Amounts : SendUSDCToTrader(amount)
  <2>1. Kept \/ DistributeRewards \/ DistributePnlRewards \/ Tick
    BY <1>2, <1>3, <1>4, <1>6, <1>7, <1>8, <1>9, <1>10, <1>14, <1>16 DEF VaultNext
  <2>2. Kept
    BY <2>1, <1>11, <1>12, <1>13
  <2> QED
    BY <2>2 DEF Kept
<1> QED
  BY <1>15, <1>16

\* The first ledger is empty.
LEMMA VaultInitTypeOK == VaultInit => VaultTypeOK
BY RatiosAssumption, SMT DEF VaultInit, VaultTypeOK, EmptyLedger, Ledger

\* No amount of the ledger is ever negative, whatever the tranches' sizes, the
\* ratios and the amounts: no split of an amount exceeds what it is taken from.
THEOREM VaultTypeCorrect == VaultSpec => []VaultTypeOK
<1>1. VaultTypeOK /\ [VaultNext]_vaultVars => VaultTypeOK'
  <2>1. VaultTypeOK /\ UNCHANGED vaultVars => VaultTypeOK'
    BY DEF VaultTypeOK, vaultVars
  <2> QED
    BY <2>1, VaultNextKeeps
<1> QED
  BY <1>1, VaultInitTypeOK, PTL DEF VaultSpec

\* What is reserved can be released, in one piece or in any pieces, at every
\* precision: the release that closes a trade is never refused.
THEOREM ReleaseFitsCorrect == VaultSpec => []ReleaseFits
<1>1. VaultTypeOK => ReleaseFits
  <2>1. SUFFICES ASSUME VaultTypeOK,
                        NEW amount \in 0 .. vault.jrReserved + vault.srReserved,
                        0 < amount
                 PROVE  CanRelease(vault, amount)
    BY DEF ReleaseFits
  <2>2. vault \in Ledger /\ vault.jrReserved \in Nat /\ vault.srReserved \in Nat
    BY <2>1 DEF VaultTypeOK, Ledger
  <2>3. /\ amount \in Nat \ {0} /\ amount <= vault.jrReserved + vault.srReserved
        /\ 0 < vault.jrReserved + vault.srReserved
    BY <2>1, <2>2, SMT
  <2>4. /\ JuniorToRelease(vault, amount) \in 0 .. vault.jrReserved
        /\ SeniorToRelease(vault, amount) \in 0 .. vault.srReserved
    BY <2>2, <2>3, ReleaseShares
  <2> QED
    BY <2>2, <2>3, <2>4, SMT DEF CanRelease
<1> QED
  BY <1>1, VaultTypeCorrect, PTL

\* Only a payout to a trader leaves a tranche with less than it has reserved.
THEOREM PayoutsAloneDrawOnReserves == VaultSpec => OnlyPayoutsDrawOnReserves
<1>1. VaultTypeOK /\ [VaultNext]_vaultVars =>
        [Funded(vault) /\ ~Funded(vault)' =>
           \E amount \in Amounts : SendUSDCToTrader(amount)]_vaultVars
  <2>1. (Funded(vault))' = Funded(vault')
    BY DEF Funded
  <2> QED
    BY <2>1, VaultNextKeeps
<1> QED
  BY <1>1, VaultTypeCorrect, PTL DEF VaultSpec, OnlyPayoutsDrawOnReserves

\* No payout to a trader is made out of the rewards.
THEOREM RewardsStay == VaultSpec => RewardsAreNotPaidOut
<1>1. VaultTypeOK =>
        [\A amount \in Amounts : SendUSDCToTrader(amount) =>
           vault'.cash >= vault'.totalRewards]_vaultVars
  <2>1. SUFFICES ASSUME VaultTypeOK, NEW amount \in Amounts, SendUSDCToTrader(amount)
                 PROVE  vault'.cash >= vault'.totalRewards
    OBVIOUS
  <2>2. amount \in Nat /\ vault \in Ledger
    BY <2>1, VaultAssumption DEF VaultTypeOK
  <2>3. CanSend(vault, amount) /\ vault' = Send(vault, amount)
    BY <2>1 DEF SendUSDCToTrader, Becomes
  <2> QED
    BY <2>2, <2>3, SendKeeps
<1> QED
  BY <1>1, VaultTypeCorrect, PTL DEF VaultSpec, RewardsAreNotPaidOut
=============================================================================
