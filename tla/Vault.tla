------------------------------- MODULE Vault -------------------------------
(***************************************************************************)
(* The vault: VaultManager.sol with its junior and senior Tranche.sol.     *)
(* The callbacks, the liquidity providers and the keeper call it in any    *)
(* order, each call a transaction of its own; a call that would revert is  *)
(* not enabled.  Of the trades behind the callbacks' calls the vault knows *)
(* nothing: module Settlement has them.                                    *)
(***************************************************************************)
EXTENDS VaultLedger

CONSTANTS
    Amounts,     \* amounts a caller passes
    Fees,        \* fees a tranche charges on a deposit or a withdrawal
    Collected,   \* what the fee shares held by the manager are worth
    DepositCap,  \* Tranche.depositCap
    MaxUSDC      \* bound on every amount of the ledger

ASSUME VaultAssumption ==
    /\ Amounts \subseteq Nat \ {0}
    /\ Fees \subseteq Nat /\ Collected \subseteq Nat
    /\ DepositCap \in Nat
    /\ MaxUSDC \in Nat

VARIABLE
    elapsed   \* time since lastRewardTime, until longer than RewardPeriod

vaultVars == <<vault, elapsed>>

EmptyLedger == [jr |-> 0, sr |-> 0, jrReserved |-> 0, srReserved |-> 0, cash |-> 0,
                totalRewards |-> 0, pnlRewards |-> 0]

VaultInit == vault = EmptyLedger /\ elapsed = 0

WithinBounds(v) ==
    /\ v.jr <= MaxUSDC /\ v.sr <= MaxUSDC /\ v.cash <= MaxUSDC
    /\ v.totalRewards <= MaxUSDC /\ v.pnlRewards <= MaxUSDC

Becomes(v) == WithinBounds(v) /\ vault' = v /\ UNCHANGED elapsed

-----------------------------------------------------------------------------
(* The callbacks. *)

ReserveBalance(amount) == CanReserve(vault, amount) /\ Becomes(Reserve(vault, amount))

ReleaseBalance(amount) == CanRelease(vault, amount) /\ Becomes(Release(vault, amount))

ReceiveUSDCFromTrader(amount) == Becomes(Receive(vault, amount))

SendUSDCToTrader(amount) == CanSend(vault, amount) /\ Becomes(Send(vault, amount))

AllocateFees(amount) ==
    CanAllocate(amount) /\ Becomes(AllocateRewards(vault, amount))

AllocateLosses(amount) == CanAllocate(amount) /\ Becomes(AllocatePnl(vault, amount))

SendReferrerRebateToStorage(amount) ==
    CanRebate(vault, amount) /\ Becomes(Rebate(vault, amount))

-----------------------------------------------------------------------------
(* Liquidity providers. *)

Deposit(amount, fee) ==
    /\ fee <= amount
    /\ \/ /\ CanDeposit(vault.jr, amount, DepositCap)
          /\ Becomes(DepositJunior(vault, amount, fee))
       \/ /\ CanDeposit(vault.sr, amount, DepositCap)
          /\ Becomes(DepositSenior(vault, amount, fee))

Withdraw(amount, fee) ==
    \/ /\ CanWithdraw(vault.jr, vault.jrReserved, amount, fee)
       /\ Becomes(WithdrawJunior(vault, amount, fee))
    \/ /\ CanWithdraw(vault.sr, vault.srReserved, amount, fee)
       /\ Becomes(WithdrawSenior(vault, amount, fee))

-----------------------------------------------------------------------------
(* The keeper, and time. *)

Parts ==
    [ve : 0 .. vault.totalRewards, redeemed : Collected, fee : Fees, lockers : BOOLEAN]

DistributeRewards ==
    \E junior \in Parts :
      /\ CanPayJunior(vault, elapsed, junior)
      /\ \E senior \in Parts :
           /\ CanPaySenior(vault, elapsed, junior, senior)
           /\ vault' = Distribute(vault, elapsed, junior, senior)
           /\ WithinBounds(vault')
           /\ elapsed' = 0

DistributePnlRewards == CanDistributePnl(vault) /\ Becomes(DistributePnl(vault))

Tick == elapsed <= RewardPeriod /\ elapsed' = elapsed + 1 /\ UNCHANGED vault

VaultNext ==
    \/ \E amount \in Amounts :
         \/ ReserveBalance(amount)
         \/ ReleaseBalance(amount)
         \/ ReceiveUSDCFromTrader(amount)
         \/ SendUSDCToTrader(amount)
         \/ AllocateFees(amount)
         \/ AllocateLosses(amount)
         \/ SendReferrerRebateToStorage(amount)
         \/ \E fee \in Fees : Deposit(amount, fee) \/ Withdraw(amount, fee)
    \/ DistributeRewards
    \/ DistributePnlRewards
    \/ Tick

VaultSpec == VaultInit /\ [][VaultNext]_vaultVars

-----------------------------------------------------------------------------
(* Properties. *)

\* No amount of the ledger goes below zero: a transfer, a reward or a reserve
\* that was split between the tranches always fits what it is taken from.
VaultTypeOK == vault \in Ledger /\ elapsed \in 0 .. RewardPeriod + 1

\* Whatever is reserved can be released, in one piece or in any pieces: the
\* release ratio is rounded down twice and the shares still fit, so that the
\* "RELEASE_AMOUNT_EXCEEDS_AVAILABLE" of a tranche never stops the closing of
\* a trade (VaultManager.sol:415-426, Tranche.sol:253-257).
ReleaseFits ==
    \A amount \in 0 .. vault.jrReserved + vault.srReserved :
      0 < amount => CanRelease(vault, amount)

Funded(v) == v.jrReserved <= v.jr /\ v.srReserved <= v.sr

\* Only a payout to a trader takes from a tranche what it has reserved: no
\* withdrawal, fee, reserve, release or distribution leaves a tranche with less
\* than its totalReserved (Tranche.sol:243-247, 286-302).
OnlyPayoutsDrawOnReserves ==
    [][Funded(vault) /\ ~Funded(vault)' =>
         \E amount \in Amounts : SendUSDCToTrader(amount)]_vaultVars

\* A payout to a trader is never made out of totalRewards: what the manager
\* has beyond them pays, then the tranches, and rewards it was short of are
\* made up (VaultManager.sol:651-669).
RewardsAreNotPaidOut ==
    [][\A amount \in Amounts : SendUSDCToTrader(amount) =>
         vault'.cash >= vault'.totalRewards]_vaultVars
=============================================================================
