----------------------------- MODULE VaultLedger -----------------------------
(***************************************************************************)
(* What VaultManager.sol and the two tranches keep, as one record, and     *)
(* what each function of VaultManager makes of it.  X(v, ...) is the       *)
(* ledger after a call of x and CanX(v, ...) says that the call does not   *)
(* revert, so that a transaction of several calls is a chain of ledgers.   *)
(*                                                                         *)
(* A definition named Slip_X is X with a plausible slip in it.             *)
(***************************************************************************)
EXTENDS Integers

CONSTANTS
    TargetReserveRatio,    \* percent of a reserve the junior tranche takes
    ConstrainedThreshold,  \* constrainedLiquidityThreshold, basis points
    BaseMultiplier, MinMultiplier, MultiplierCoeff, MultiplierDenom,
    WithdrawThreshold,     \* Tranche.withdrawThreshold, percent
    RewardPeriod,          \* time over which rewards vest
    Precision              \* _PRECISION

ASSUME RatiosAssumption ==
    /\ TargetReserveRatio \in 0 .. 100
    /\ ConstrainedThreshold \in Nat
    /\ BaseMultiplier \in Nat /\ MinMultiplier \in 0 .. BaseMultiplier
    /\ MultiplierCoeff \in Nat /\ MultiplierDenom \in Nat \ {0}
    /\ WithdrawThreshold \in 1 .. 99
    /\ RewardPeriod \in Nat \ {0}
    /\ Precision \in Nat \ {0}

VARIABLE vault   \* the ledger, in the modules that extend this one

Ledger == [jr         : Nat,   \* USDC of the junior tranche
           sr         : Nat,   \* USDC of the senior tranche
           jrReserved : Nat,   \* totalReserved of the junior tranche
           srReserved : Nat,   \* totalReserved of the senior tranche
           cash       : Nat,   \* USDC of the vault manager
           totalRewards : Nat,
           pnlRewards   : Nat]

AtMost(x, limit) == IF x > limit THEN limit ELSE x

-----------------------------------------------------------------------------
(* Ratios, in percent. *)

CurrentTrancheRatio(v) ==
    IF v.jr + v.sr = 0 THEN TargetReserveRatio ELSE (100 * v.jr) \div (v.jr + v.sr)

IsNormalLiquidityMode(ratio) ==
    10000 - ConstrainedThreshold < 100 * ratio /\ 100 * ratio < ConstrainedThreshold

\* Reverts when a tranche has lost what it reserved, or nothing is free.
UnreservedDefined(v) ==
    /\ v.jrReserved <= v.jr /\ v.srReserved <= v.sr
    /\ v.jrReserved + v.srReserved < v.jr + v.sr

UnreservedTrancheRatio(v) ==
    LET junior == v.jr - v.jrReserved
        senior == v.sr - v.srReserved
    IN  (100 * junior) \div (senior + junior)

TargetShare(amount) == (amount * TargetReserveRatio) \div 100

Constrained(v, amount) ==
    \/ ~IsNormalLiquidityMode(UnreservedTrancheRatio(v))
    \/ v.jr <= TargetShare(amount) + v.jrReserved
    \/ v.sr <= (amount - TargetShare(amount)) + v.srReserved

ReserveRatio(v, amount) ==
    IF amount > 0 /\ Constrained(v, amount) THEN UnreservedTrancheRatio(v)
    ELSE IF IsNormalLiquidityMode(CurrentTrancheRatio(v)) THEN TargetReserveRatio
    ELSE CurrentTrancheRatio(v)

ProfitMultiplier(v) ==
    LET ratio == CurrentTrancheRatio(v)
        below == TargetReserveRatio - ratio
    IN
    IF IsNormalLiquidityMode(ratio) THEN BaseMultiplier
    ELSE IF ratio > TargetReserveRatio
    THEN BaseMultiplier - ((ratio - TargetReserveRatio)
           * (BaseMultiplier - MinMultiplier)) \div (100 - TargetReserveRatio)
    ELSE IF ratio < 100 - TargetReserveRatio
    THEN BaseMultiplier + (below * below * MultiplierCoeff * 100) \div MultiplierDenom
    ELSE BaseMultiplier

-----------------------------------------------------------------------------
(* Calls of the callbacks. *)

JuniorToReserve(v, amount) == (amount * ReserveRatio(v, amount)) \div 100

CanReserve(v, amount) ==
    /\ amount > 0 => UnreservedDefined(v)
    /\ JuniorToReserve(v, amount) + v.jrReserved <= v.jr
    /\ (amount - JuniorToReserve(v, amount)) + v.srReserved <= v.sr

Reserve(v, amount) ==
    [v EXCEPT !.jrReserved = @ + JuniorToReserve(v, amount),
              !.srReserved = @ + (amount - JuniorToReserve(v, amount))]

ReleaseRatio(v) == (v.jrReserved * 100 * Precision) \div (v.jrReserved + v.srReserved)

\* What the senior tranche does not have reserved is asked of it all the same.
Slip_JuniorToRelease(v, amount) ==
    (amount * ReleaseRatio(v)) \div (Precision * 100)

\* What the senior tranche does not have reserved, the junior one releases.
JuniorToRelease(v, amount) ==
    LET junior == (amount * ReleaseRatio(v)) \div (Precision * 100)
        senior == amount - junior
    IN  IF senior > v.srReserved THEN junior + (senior - v.srReserved) ELSE junior

SeniorToRelease(v, amount) == amount - JuniorToRelease(v, amount)

CanRelease(v, amount) ==
    /\ 0 < v.jrReserved + v.srReserved
    /\ JuniorToRelease(v, amount) <= v.jrReserved
    /\ SeniorToRelease(v, amount) <= v.srReserved

Release(v, amount) ==
    [v EXCEPT !.jrReserved = @ - JuniorToRelease(v, amount),
              !.srReserved = @ - SeniorToRelease(v, amount)]

Receive(v, amount) == [v EXCEPT !.cash = @ + amount]

\* The rewards held are paid out to the trader before the tranches are asked.
Slip_Shortfall(v, amount) == IF amount > v.cash THEN amount - v.cash ELSE 0

\* totalRewards are not available to traders: the tranches pay the difference.
Shortfall(v, amount) ==
    IF amount > v.cash - v.totalRewards THEN amount - (v.cash - v.totalRewards) ELSE 0

SeniorLoss(v, amount) ==
    AtMost((BaseMultiplier * Shortfall(v, amount) * (100 - ReserveRatio(v, 0))) \div 10000,
           Shortfall(v, amount))

JuniorLoss(v, amount) == Shortfall(v, amount) - SeniorLoss(v, amount)

CanSend(v, amount) == JuniorLoss(v, amount) <= v.jr /\ SeniorLoss(v, amount) <= v.sr

Send(v, amount) ==
    [v EXCEPT !.jr = @ - JuniorLoss(v, amount),
              !.sr = @ - SeniorLoss(v, amount),
              !.cash = @ + Shortfall(v, amount) - amount]

\* From a trading contract: the USDC is already there, or should be.
CanAllocate(amount) == amount > 0

AllocateRewards(v, amount) == [v EXCEPT !.totalRewards = @ + amount]

AllocatePnl(v, amount) == [v EXCEPT !.pnlRewards = @ + amount]

\* totalRewards are compared with the amount and left as they are.
CanRebate(v, amount) == 0 < amount /\ amount <= v.totalRewards /\ amount <= v.cash

Rebate(v, amount) == [v EXCEPT !.cash = @ - amount]

-----------------------------------------------------------------------------
(* Calls of the keeper. *)

JuniorRewards(v, rewards) ==
    AtMost((ProfitMultiplier(v) * rewards * ReserveRatio(v, 0)) \div 10000, rewards)

\* pnlRewards stay what they are.
CanDistributePnl(v) == 0 < v.pnlRewards /\ v.pnlRewards <= v.cash

DistributePnl(v) ==
    LET junior == JuniorRewards(v, v.pnlRewards) IN
    [v EXCEPT !.jr = @ + junior,
              !.sr = @ + (v.pnlRewards - junior),
              !.cash = @ - v.pnlRewards]

\* More than all of them, once the period is over.
Slip_Vested(v, elapsed) == (v.totalRewards * elapsed) \div RewardPeriod

Vested(v, elapsed) ==
    AtMost((v.totalRewards * elapsed) \div RewardPeriod, v.totalRewards)

UtilizationBelowThreshold(assets, reserved) ==
    0 < assets /\ (reserved * Precision * 100) \div assets < WithdrawThreshold * Precision

-----------------------------------------------------------------------------
(* Calls of liquidity providers on a tranche; fees go to the manager.  The *)
(* cap is on the assets before the fee.                                    *)

CanDeposit(assets, amount, cap) == assets + amount < cap

DepositJunior(v, amount, fee) ==
    [v EXCEPT !.jr = @ + (amount - fee), !.cash = @ + fee, !.totalRewards = @ + fee]

DepositSenior(v, amount, fee) ==
    [v EXCEPT !.sr = @ + (amount - fee), !.cash = @ + fee, !.totalRewards = @ + fee]

\* The utilization is looked at before the assets leave.
Slip_CanWithdraw(assets, reserved, amount, fee) ==
    /\ amount + fee <= assets
    /\ UtilizationBelowThreshold(assets, reserved)

CanWithdraw(assets, reserved, amount, fee) ==
    /\ amount + fee <= assets
    /\ UtilizationBelowThreshold(assets - (amount + fee), reserved)

WithdrawJunior(v, amount, fee) ==
    [v EXCEPT !.jr = @ - (amount + fee), !.cash = @ + fee, !.totalRewards = @ + fee]

WithdrawSenior(v, amount, fee) ==
    [v EXCEPT !.sr = @ - (amount + fee), !.cash = @ + fee, !.totalRewards = @ + fee]

-----------------------------------------------------------------------------
(* The distribution of rewards. *)

\* A tranche's part of the rewards: part.ve goes to its lockers, when it has any,
\* and the rest to the tranche.
CanPay(part, assets, reserved, cash, rewards) ==
    /\ part.ve <= rewards /\ (0 < part.ve => part.lockers)
    /\ rewards <= cash
    /\ part.redeemed = 0 => part.fee = 0
    /\ CanWithdraw(assets + (rewards - part.ve), reserved, part.redeemed, part.fee)

\* Then the manager redeems the tranche's shares that it was paid as fees of early
\* unlocks; what they are worth goes to the lockers or, without any, stays.
PayJunior(v, rewards, part) ==
    LET paid     == [v EXCEPT !.jr = @ + (rewards - part.ve), !.cash = @ - rewards]
        redeemed == WithdrawJunior(paid, part.redeemed, part.fee)
    IN  IF part.lockers THEN redeemed ELSE Receive(redeemed, part.redeemed)

PaySenior(v, rewards, part) ==
    LET paid     == [v EXCEPT !.sr = @ + (rewards - part.ve), !.cash = @ - rewards]
        redeemed == WithdrawSenior(paid, part.redeemed, part.fee)
    IN  IF part.lockers THEN redeemed ELSE Receive(redeemed, part.redeemed)

\* The ledger when the junior tranche has been paid.
HalfDistributed(v, elapsed, junior) ==
    PayJunior([v EXCEPT !.totalRewards = @ - Vested(v, elapsed)],
              JuniorRewards(v, Vested(v, elapsed)), junior)

SeniorRewards(v, elapsed) == Vested(v, elapsed) - JuniorRewards(v, Vested(v, elapsed))

Distribute(v, elapsed, junior, senior) ==
    PaySenior(HalfDistributed(v, elapsed, junior), SeniorRewards(v, elapsed), senior)

\* The two halves of its conditions.
CanPayJunior(v, elapsed, junior) ==
    /\ 0 < v.totalRewards
    /\ CanPay(junior, v.jr, v.jrReserved, v.cash, JuniorRewards(v, Vested(v, elapsed)))

CanPaySenior(v, elapsed, junior, senior) ==
    LET half == HalfDistributed(v, elapsed, junior) IN
    CanPay(senior, half.sr, half.srReserved, half.cash, SeniorRewards(v, elapsed))
=============================================================================
