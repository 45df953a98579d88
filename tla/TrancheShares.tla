---------------------------- MODULE TrancheShares ----------------------------
(***************************************************************************)
(* Shares of one tranche (Tranche.sol, an ERC4626 vault with fees), their  *)
(* locks (module VeTranche) and the calls of the vault manager.  Amounts   *)
(* are rounded as in the code, for the tranche or against the caller; fees *)
(* depend on the amount they are charged on, since it moves the ratio of   *)
(* the two tranches.  The other tranche keeps its assets.  A preview and   *)
(* the call it is made for are in one transaction.                         *)
(***************************************************************************)
EXTENDS VeTranche

CONSTANTS
    Lps,             \* liquidity providers
    Manager,         \* the vault manager, which holds the shares of unlock fees
    IsJunior, OtherAssets,     \* of the two tranches
    BalancingFee, BalancingDeltaThreshold,
    CollateralFees,  \* what getCollateralFee may be
    DepositCap, WithdrawThreshold,
    Amounts,         \* of assets or shares, of the providers' calls
    Moved,           \* amounts the vault manager reserves, sends and takes
    MaxAssets, MaxSteps  \* bounds of the runs

ASSUME TrancheSharesAssumption ==
    /\ IsFiniteSet(Lps) /\ Manager \notin Lps
    /\ IsJunior \in BOOLEAN /\ OtherAssets \in Nat \ {0}
    /\ BalancingFee \in Nat /\ BalancingDeltaThreshold \in 0 .. 10000
    /\ CollateralFees \subseteq Nat
    /\ DepositCap \in Nat /\ WithdrawThreshold \in 1 .. 100 * Precision
    /\ Amounts \subseteq Nat /\ Moved \subseteq Nat
    /\ MaxAssets \in Nat /\ MaxSteps \in Nat

VARIABLES
    assets,         \* USDC of the tranche
    balanceOf,      \* shares; those of the veTranche are trancheShares
    totalSupply,    \* of shares
    totalReserved,
    feesOn,
    steps            \* transactions so far

trancheVars == <<assets, balanceOf, totalSupply, totalReserved, feesOn>>
vars == <<veVars, trancheVars, steps>>

Holders == Lps \cup {Manager}

-----------------------------------------------------------------------------
(* Conversions: one share and one unit of USDC are always there besides.   *)

SharesDown(a) == (a * (totalSupply + 1)) \div (assets + 1)
SharesUp(a) == CeilDiv(a * (totalSupply + 1), assets + 1)
AssetsDown(s) == (s * (assets + 1)) \div (totalSupply + 1)
AssetsUp(s) == CeilDiv(s * (assets + 1), totalSupply + 1)

(* Fees. *)

FeeOnRaw(a, fee) == CeilDiv(a * fee, FeeBase)
FeeOnTotal(a, fee) == CeilDiv(a * fee, fee + FeeBase)

\* The junior tranche's percentage of all assets, when this tranche has own.
DynamicReserveRatio(own) ==
    (100 * (IF IsJunior THEN own ELSE OtherAssets)) \div (own + OtherAssets)

TooMuchJunior(own) == 100 * DynamicReserveRatio(own) > BalancingDeltaThreshold
TooLittleJunior(own) == 100 * DynamicReserveRatio(own) < 10000 - BalancingDeltaThreshold

\* getBalancingFee is charged for what moves the ratio further away.
DepositRate(a) ==
    IF IF IsJunior THEN TooMuchJunior(assets + a) ELSE TooLittleJunior(assets + a)
    THEN BalancingFee ELSE 0
WithdrawalRate(a) ==
    IF IF IsJunior THEN TooLittleJunior(assets - a) ELSE TooMuchJunior(assets - a)
    THEN BalancingFee ELSE 0

DepositFeesRaw(a) == IF feesOn THEN FeeOnRaw(a, DepositRate(a)) ELSE 0
DepositFeesTotal(a) == IF feesOn THEN FeeOnTotal(a, DepositRate(a)) ELSE 0

\* The second fee depends on the open PnL: health is any of its values.
WithdrawalFeesRaw(a, health) ==
    IF feesOn THEN FeeOnRaw(a, WithdrawalRate(a)) + FeeOnRaw(a, health) ELSE 0
WithdrawalFeesTotal(a, health) ==
    IF feesOn THEN FeeOnTotal(a, WithdrawalRate(a)) + FeeOnTotal(a, health) ELSE 0

PreviewDeposit(a) == SharesDown(a - DepositFeesTotal(a))
PreviewMint(s) == AssetsUp(s) + DepositFeesRaw(AssetsUp(s))
PreviewWithdraw(a, health) == SharesUp(a + WithdrawalFeesRaw(a, health))

\* The second fee is forgotten.
Slip_PreviewRedeem(s, health) ==
    AssetsDown(s) -
      (IF feesOn THEN FeeOnTotal(AssetsDown(s), WithdrawalRate(AssetsDown(s))) ELSE 0)

PreviewRedeem(s, health) == AssetsDown(s) - WithdrawalFeesTotal(AssetsDown(s), health)

-----------------------------------------------------------------------------
(* Limits. *)

\* Reserved assets are not taken off in proportion to the threshold.
Slip_FreeAssets == IF assets > totalReserved THEN assets - totalReserved ELSE 0

\* What withdrawals can leave without.
FreeAssets ==
    LET kept == (totalReserved * Precision * 100) \div WithdrawThreshold
    IN  IF assets > kept THEN assets - kept ELSE 0

MaxRedeem(h) ==
    IF AssetsDown(balanceOf[h]) < FreeAssets THEN balanceOf[h] ELSE SharesDown(FreeAssets)

MaxWithdraw(h) ==
    IF AssetsDown(balanceOf[h]) < FreeAssets THEN AssetsDown(balanceOf[h]) ELSE FreeAssets

\* _withdraw does not revert: utilization, of what is left, is defined and low.
\* A preview is negative where its fees, rounded up, are more than its amount.
CanTakeOut(h, a, s, health) ==
    LET left == assets - a - WithdrawalFeesRaw(a, health) IN
    /\ a >= 0 /\ s <= balanceOf[h]
    /\ left > 0
    /\ (totalReserved * Precision * 100) \div left < WithdrawThreshold

CanRedeem(h, s, health) ==
    s <= MaxRedeem(h) /\ CanTakeOut(h, PreviewRedeem(s, health), s, health)

-----------------------------------------------------------------------------
(* Calls of the liquidity providers.                                       *)

\* The fee goes to the vault manager.
PutIn(lp, a, s) ==
    /\ assets + a < DepositCap
    /\ assets' = assets + a - DepositFeesTotal(a)
    /\ balanceOf' = [balanceOf EXCEPT ![lp] = @ + s]
    /\ totalSupply' = totalSupply + s
    /\ UNCHANGED <<veVars, totalReserved, feesOn>>

Deposit(lp, a) == PutIn(lp, a, PreviewDeposit(a))
Mint(lp, s) == PutIn(lp, PreviewMint(s), s)

TakeOut(h, a, s, health) ==
    /\ CanTakeOut(h, a, s, health)
    /\ assets' = assets - a - WithdrawalFeesRaw(a, health)
    /\ balanceOf' = [balanceOf EXCEPT ![h] = @ - s]
    /\ totalSupply' = totalSupply - s
    /\ UNCHANGED <<totalReserved, feesOn>>

Withdraw(lp, a, health) ==
    /\ a <= MaxWithdraw(lp)
    /\ TakeOut(lp, a, PreviewWithdraw(a, health), health)
    /\ UNCHANGED veVars

Redeem(lp, s, health) ==
    /\ s <= MaxRedeem(lp)
    /\ TakeOut(lp, PreviewRedeem(s, health), s, health)
    /\ UNCHANGED veVars

Transfer(from, to, s) ==
    /\ s <= balanceOf[from] /\ from # to
    /\ balanceOf' = [balanceOf EXCEPT ![from] = @ - s, ![to] = @ + s]
    /\ UNCHANGED <<veVars, assets, totalSupply, totalReserved, feesOn>>

LockShares(lp, s, multiplier) ==
    /\ s <= balanceOf[lp]
    /\ balanceOf' = [balanceOf EXCEPT ![lp] = @ - s]
    /\ Lock(lp, s, multiplier)
    /\ UNCHANGED <<assets, totalSupply, totalReserved, feesOn>>

\* The owner gets the shares but the fee, the vault manager the fee.
Returned(id, fee) ==
    /\ balanceOf' = [balanceOf EXCEPT ![locks[id].owner] = @ + locks[id].shares - fee,
                                      ![Manager] = @ + fee]
    /\ UNCHANGED <<assets, totalSupply, totalReserved, feesOn>>

UnlockShares(id, fee) == Unlock(id, fee) /\ Returned(id, fee)
ForceUnlockShares(id) == ForceUnlock(id) /\ Returned(id, 0)

-----------------------------------------------------------------------------
(* Calls of the vault manager and of governance.                           *)

\* The shares of the unlock fees are redeemed for the locks.  Without points
\* the USDC stays with the vault manager.
DistributeCollectedFeeShares(health) ==
    LET s == MaxRedeem(Manager)
        a == PreviewRedeem(s, health)
    IN
    /\ TakeOut(Manager, a, s, health)
    /\ IF a > 0 /\ WholePoints > 0 THEN DistributeRewards(a) ELSE UNCHANGED veVars

ReserveBalance(amount) ==
    /\ assets >= amount + totalReserved
    /\ totalReserved' = totalReserved + amount
    /\ UNCHANGED <<veVars, assets, balanceOf, totalSupply, feesOn>>

ReleaseBalance(amount) ==
    /\ totalReserved >= amount
    /\ totalReserved' = totalReserved - amount
    /\ UNCHANGED <<veVars, assets, balanceOf, totalSupply, feesOn>>

WithdrawAsVaultManager(amount) ==
    /\ assets >= amount
    /\ assets' = assets - amount
    /\ UNCHANGED <<veVars, balanceOf, totalSupply, totalReserved, feesOn>>

\* _distributeRewards sends USDC.
TrancheRewards(amount) ==
    /\ assets + amount <= MaxAssets
    /\ assets' = assets + amount
    /\ UNCHANGED <<veVars, balanceOf, totalSupply, totalReserved, feesOn>>

SetFeesOn(on) ==
    /\ feesOn' = on
    /\ UNCHANGED <<veVars, assets, balanceOf, totalSupply, totalReserved>>

-----------------------------------------------------------------------------
Init ==
    /\ VeInit
    /\ assets = 0 /\ balanceOf = [h \in Holders |-> 0] /\ totalSupply = 0
    /\ totalReserved = 0 /\ feesOn = FALSE /\ steps = 0

ProviderCalls(lp) ==
    \E n \in Amounts :
      \/ Deposit(lp, n)
      \/ Mint(lp, n)
      \/ \E health \in CollateralFees : Withdraw(lp, n, health) \/ Redeem(lp, n, health)
      \/ \E to \in Holders : Transfer(lp, to, n)
      \/ \E multiplier \in Multipliers : n \in Shares /\ LockShares(lp, n, multiplier)

LockCalls(id) ==
    \/ IsLocked(id) /\ \E fee \in UnlockFees(id, feesOn) : UnlockShares(id, fee)
    \/ ForceUnlockShares(id)
    \/ LockTimeEnds(id) /\ UNCHANGED trancheVars
    \/ ClaimRewards(id) /\ UNCHANGED trancheVars

ManagerCalls(amount) ==
    \/ ReserveBalance(amount)
    \/ ReleaseBalance(amount)
    \/ WithdrawAsVaultManager(amount)
    \/ TrancheRewards(amount)
    \/ DistributeRewards(amount) /\ UNCHANGED trancheVars

Next ==
    /\ steps < MaxSteps /\ steps' = steps + 1
    /\ \/ \E lp \in Lps : ProviderCalls(lp)
       \/ \E id \in Ids : LockCalls(id)
       \/ \E amount \in Moved : ManagerCalls(amount)
       \/ \E health \in CollateralFees : DistributeCollectedFeeShares(health)
       \/ \E on \in BOOLEAN : SetFeesOn(on)

Spec == Init /\ [][Next]_vars

-----------------------------------------------------------------------------
(* Properties. *)

TypeOK ==
    /\ VeTypeOK(Lps)
    /\ assets \in Nat
    /\ balanceOf \in [Holders -> Nat] /\ totalSupply \in Nat
    /\ totalReserved \in Nat /\ feesOn \in BOOLEAN /\ steps \in 0 .. MaxSteps

\* The shares of the locks, of the unlock fees and of everybody else are all
\* there are, and the locks have their points, however they ended
\* (VeTranche.sol:124-198, Tranche.sol:266-312).
SharesExact ==
    /\ LocksExact
    /\ totalSupply = trancheShares + SumFunction(balanceOf)

PaysTraders == \E amount \in Moved : WithdrawAsVaultManager(amount)

\* What a share is worth, in the tranche's own conversion, is no less.
ValueKept == (assets' + 1) * (totalSupply + 1) >= (assets + 1) * (totalSupply' + 1)

\* Nobody's deposit, mint, withdrawal, redemption, lock or fee takes from the
\* other holders, although a fee is computed once on the amount asked for and
\* once on what it becomes: what a share is worth, in the tranche's own
\* conversion, only falls by payouts to traders (Tranche.sol:167-301).
ShareValueNeverFalls == [][ValueKept \/ PaysTraders]_vars

\* A holder can redeem what maxRedeem says, fees on or off, whatever the open
\* PnL is: the check on utilization refuses only those who take the free assets
\* to the last unit, and the arithmetic those whose fees, each rounded up, exceed
\* what they redeem (Tranche.sol:183-186, 286-322).
RedeemWithinLimitSucceeds ==
    \A h \in Holders, health \in CollateralFees :
      \A s \in 0 .. MaxRedeem(h) :
        AssetsDown(s) # FreeAssets /\ WithdrawalFeesTotal(AssetsDown(s), health) <= AssetsDown(s)
          => CanRedeem(h, s, health)
=============================================================================
