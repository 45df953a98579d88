----------------------------- MODULE Settlement -----------------------------
(***************************************************************************)
(* What the trades do to the money: TradingCallbacks.sol settles an        *)
(* opening, a closing or a change of margin by moving USDC between         *)
(* TradingStorage and the vault manager, reserving and releasing in the    *)
(* tranches (module VaultLedger), and keeping the open interest.  Each     *)
(* action is a transaction; one that would revert is not enabled.          *)
(*                                                                         *)
(* Prices appear as the percentage a trade has gained, fees as what the    *)
(* fee contracts may ask.  A slot is the place of one position, from its   *)
(* order to its close: module TradeBook has the slots and who may act.     *)
(***************************************************************************)
EXTENDS VaultLedger, FiniteSets, Functions

CONSTANTS
    Traders, TradesPerTrader,
    Sizes,         \* positionSizeUSDC of an order
    Leverages,     \* leverage of an order, in units of 1 / LevPrecision
    ExecFees,      \* execution fee of an order; 0 for a market order
    Charges,       \* <<fee after rebate, referrer's rebate>> of openings and closings
    Rollovers,     \* rollover fees of a closing, margin fees
    Gains,         \* percent gained by a trade, loss protection applied
    CloseAmounts,  \* amounts of a partial close
    Rewards,       \* what an executor gets of a limit close
    Margins,       \* amounts of a deposit or a withdrawal of margin
    MinLeverage, MaxLeverage, LevPrecision,
    VaultFeeP,     \* vaultFeeP of the callbacks, percent
    LiqThreshold,  \* liqThreshold of PairInfos, percent
    TvlCap, GroupMaxP, WalletMaxP,  \* open interest limits, percent of the tranches
    BlockOILimit,  \* blockOILimit of the pair: open interest moved within one block
    Capital,       \* USDC in each tranche at the start
    MaxSteps

ASSUME SettlementAssumption ==
    /\ IsFiniteSet(Traders) /\ TradesPerTrader \in Nat \ {0}
    /\ LevPrecision \in Nat \ {0} /\ MinLeverage \in Nat \ {0}
    /\ Sizes \subseteq Nat \ {0} /\ Leverages \subseteq MinLeverage .. MaxLeverage
    /\ ExecFees \subseteq Nat /\ Charges \subseteq Nat \X Nat /\ Rollovers \subseteq Nat
    /\ CloseAmounts \subseteq Nat \ {0} /\ Rewards \subseteq Nat /\ Margins \subseteq Nat \ {0}
    /\ Gains \subseteq Int
    /\ VaultFeeP \in 0 .. 100 /\ LiqThreshold \in 0 .. 100
    /\ TvlCap \in Nat /\ GroupMaxP \in Nat /\ WalletMaxP \in Nat
    /\ BlockOILimit \in Nat /\ Capital \in Nat /\ MaxSteps \in Nat

VARIABLES
    order, trade, \* at each slot
    storageUSDC,  \* USDC of TradingStorage
    govFees, devFees, rebates,   \* what it owes of them
    tokensToClaim,               \* what Execute owes the executors
    totalOI, walletOI, sideOI, groupOI,
    blockOI,   \* of the current block
    unbacked,  \* history: fees and rebates credited in TradingStorage without USDC
    advanced,  \* history: what the vault manager is short of its accounts
    steps

vars == <<vault, order, trade, storageUSDC, govFees, devFees, rebates, tokensToClaim,
          totalOI, walletOI, sideOI, groupOI, blockOI, unbacked, advanced, steps>>

Slots == Traders \X (1 .. TradesPerTrader)
Sides == {"long", "short"}
None == [side |-> "none"]

Orders == [size : Nat, lev : Nat, side : Sides, execFee : Nat]
Trades == [coll : Nat, lev : Nat, side : Sides, oi : Nat]

IsOrder(s) == order[s] # None
IsTrade(s) == trade[s] # None

-----------------------------------------------------------------------------
(* Arithmetic. *)

Leveraged(amount, lev) == (amount * lev) \div LevPrecision

\* Rounded up, a trade would stand for more than its open interest.
Slip_NewLeverage(oi, coll) == (oi * LevPrecision + coll - 1) \div coll

NewLeverage(oi, coll) == (oi * LevPrecision) \div coll

\* handleDevGovFees.
VaultAllocation(fee) == (fee * (100 - VaultFeeP)) \div 100
GovFee(fee) == ((fee * VaultFeeP) \div 100) \div 2

\* The governance's part is not taken off.
Slip_DevFee(fee) == fee - VaultAllocation(fee)

DevFee(fee) == fee - VaultAllocation(fee) - GovFee(fee)

\* Towards zero, as the division of a signed integer.
Percentage(amount, p) ==
    IF p < 0 THEN -((amount * (-p)) \div 100) ELSE (amount * p) \div 100

\* The fees of a liquidated trade are not part of its loss.
Slip_TradeValue(amount, gain, fees) ==
    LET pnl == Percentage(amount, gain)
        value == amount + pnl - fees
    IN
    IF value <= (amount * (100 - LiqThreshold)) \div 100
    THEN [value |-> 0, pnl |-> -amount]
    ELSE [value |-> value, pnl |-> pnl]

\* getTradeValuePure: the value to pay out and the gain or loss.  Below the
\* liquidation threshold nothing is paid, and all that fees leave is a loss.
TradeValue(amount, gain, fees) ==
    LET pnl == Percentage(amount, gain)
        value == amount + pnl - fees
    IN
    IF value <= (amount * (100 - LiqThreshold)) \div 100
    THEN [value |-> 0, pnl |-> fees - amount]
    ELSE [value |-> value, pnl |-> pnl]

-----------------------------------------------------------------------------
(* Open interest. *)

OpenInterest == <<totalOI, walletOI, sideOI, groupOI, blockOI>>

\* Openings and closings count alike.
MoveBlockOI(amount) ==
    /\ blockOI + amount <= BlockOILimit
    /\ blockOI' = blockOI + amount

\* _updateOpenInterestUSDC.
AddOpenInterest(s, side, amount) ==
    /\ totalOI' = totalOI + amount
    /\ walletOI' = [walletOI EXCEPT ![s[1]] = @ + amount]
    /\ sideOI' = [sideOI EXCEPT ![side] = @ + amount]
    /\ MoveBlockOI(amount)

\* No more than the side's interest.
ReduceOpenInterest(s, side, amount) ==
    LET reduced == AtMost(amount, sideOI[side]) IN
    /\ reduced <= totalOI /\ reduced <= walletOI[s[1]]
    /\ totalOI' = totalOI - reduced
    /\ walletOI' = [walletOI EXCEPT ![s[1]] = @ - reduced]
    /\ sideOI' = [sideOI EXCEPT ![side] = @ - reduced]
    /\ MoveBlockOI(reduced)

\* Not clamped.
Slip_ReduceGroupOI(side, amount) ==
    groupOI' = [groupOI EXCEPT ![side] = @ - amount]

ReduceGroupOI(side, amount) ==
    groupOI' = [groupOI EXCEPT ![side] = @ - AtMost(amount, @)]

WithinExposureLimits(s, leveraged) ==
    LET balance == vault.jr + vault.sr IN
    /\ totalOI + leveraged <= (balance * TvlCap) \div 100
    /\ groupOI["long"] + groupOI["short"] + leveraged <= (balance * GroupMaxP) \div 100
    /\ walletOI[s[1]] + leveraged <= (balance * WalletMaxP) \div 100

-----------------------------------------------------------------------------
(* Orders.  The USDC of an order waits in TradingStorage. *)

Step == steps < MaxSteps /\ steps' = steps + 1

OpenTrade(s, size, lev, side, execFee) ==
    /\ Step
    /\ ~IsOrder(s) /\ ~IsTrade(s)
    /\ order' = [order EXCEPT ![s] =
                   [size |-> size, lev |-> lev, side |-> side, execFee |-> execFee]]
    /\ storageUSDC' = storageUSDC + size + execFee
    /\ UNCHANGED <<vault, trade, govFees, devFees, rebates, tokensToClaim, OpenInterest,
                   unbacked, advanced>>

\* A cancelled limit order, or a market order out of limits or slippage.
Refund(s) ==
    /\ Step
    /\ IsOrder(s)
    /\ order[s].size + order[s].execFee <= storageUSDC
    /\ storageUSDC' = storageUSDC - (order[s].size + order[s].execFee)
    /\ order' = [order EXCEPT ![s] = None]
    /\ UNCHANGED <<vault, trade, govFees, devFees, rebates, tokensToClaim, OpenInterest,
                   unbacked, advanced>>

\* _registerTrade, with the execution fee of a limit order.  The rebate is
\* credited to the referrer; the USDC goes with the collateral.
RegisterTrade(s, fee, rebate) ==
    LET o         == order[s]
        coll      == o.size - fee
        leveraged == Leveraged(coll, o.lev)
        allocated == AllocateRewards(Receive(vault, VaultAllocation(fee)), VaultAllocation(fee))
        moved     == VaultAllocation(fee) + coll + o.execFee
    IN
    /\ Step
    /\ IsOrder(s) /\ fee <= o.size
    /\ WithinExposureLimits(s, Leveraged(o.size, o.lev))
    /\ CanAllocate(VaultAllocation(fee))
    /\ CanReserve(allocated, leveraged)
    /\ moved <= storageUSDC
    /\ vault' = Receive(Reserve(allocated, leveraged), coll + o.execFee)
    /\ storageUSDC' = storageUSDC - moved
    /\ govFees' = govFees + GovFee(fee)
    /\ devFees' = devFees + DevFee(fee)
    /\ rebates' = rebates + rebate
    /\ unbacked' = unbacked + rebate
    /\ tokensToClaim' = tokensToClaim + o.execFee
    /\ AddOpenInterest(s, o.side, leveraged)
    /\ groupOI' = [groupOI EXCEPT ![o.side] = @ + leveraged]
    /\ order' = [order EXCEPT ![s] = None]
    /\ trade' = [trade EXCEPT ![s] =
                   [coll |-> coll, lev |-> o.lev, side |-> o.side, oi |-> leveraged]]
    /\ UNCHANGED advanced

-----------------------------------------------------------------------------
(* Closings. *)

\* A closing pays the value, allocates the loss and the fees as rewards, and
\* sends the rebate.  A gain without fees allocates nothing.
Paid(result) == IF result.value > 0 THEN Send(vault, result.value) ELSE vault

Allocated(v, result, fees) ==
    LET w == IF result.pnl < 0 THEN AllocatePnl(v, -result.pnl) ELSE v
    IN  IF result.pnl < 0 \/ fees > 0 THEN AllocateRewards(w, fees) ELSE w

Rebated(v, rebate) == IF rebate > 0 THEN Rebate(v, rebate) ELSE v

\* The part of _unregisterTrade that all closings share: reward is the
\* executor's, reduced what the trade's collateral falls by.
Settle(s, amount, gain, rollover, fee, rebate, reward, reduced) ==
    LET t        == trade[s]
        result   == TradeValue(amount, gain, rollover + fee + reward)
        charged  == Allocated(Paid(result), result, rollover + fee)
        rebated  == Rebated(charged, rebate)
        released == Leveraged(amount, t.lev)
    IN
    /\ Step
    /\ IsTrade(s)
    /\ result.value > 0 => CanSend(vault, result.value)
    /\ result.pnl < 0 \/ rollover + fee + reward > 0 => CanAllocate(rollover + fee)
    /\ rebate > 0 => CanRebate(charged, rebate)
    /\ CanRelease(rebated, released)
    /\ vault' = Release(rebated, released)
    /\ storageUSDC' = storageUSDC + rebate
    /\ rebates' = rebates + rebate
    /\ tokensToClaim' = tokensToClaim + reward
    /\ ReduceGroupOI(t.side, released)
    /\ advanced' = advanced + (IF result.pnl > 0 THEN result.pnl ELSE 0) + rebate
                     - (reduced - amount)
                     - (IF result.value > 0 THEN Shortfall(vault, result.value) ELSE 0)
    /\ UNCHANGED <<order, govFees, devFees, unbacked>>

\* By the trader at market, or by an executor at TP, SL or liquidation.
CloseTrade(s, gain, rollover, fee, rebate, reward) ==
    LET t == trade[s] IN
    /\ Settle(s, t.coll, gain, rollover, fee, rebate, reward, t.coll)
    /\ ReduceOpenInterest(s, t.side, t.oi)
    /\ trade' = [trade EXCEPT ![s] = None]

\* The counters fall by the amount closed, the trade's interest by the fees too.
Slip_ClosePartially(s, amount, gain, rollover, fee, rebate) ==
    LET t       == trade[s]
        reduced == amount + rollover + fee
    IN
    /\ Settle(s, amount, gain, rollover, fee, rebate, 0, reduced)
    /\ amount # t.coll
    /\ reduced <= t.coll /\ Leveraged(reduced, t.lev) <= t.oi
    /\ ReduceOpenInterest(s, t.side, Leveraged(amount, t.lev))
    /\ trade' = [trade EXCEPT ![s].coll = @ - reduced,
                              ![s].oi = @ - Leveraged(reduced, t.lev)]

\* What is taken from the trade is the amount closed and, again, the fees.
ClosePartially(s, amount, gain, rollover, fee, rebate) ==
    LET t       == trade[s]
        reduced == amount + rollover + fee
    IN
    /\ Settle(s, amount, gain, rollover, fee, rebate, 0, reduced)
    /\ amount # t.coll
    /\ reduced <= t.coll /\ Leveraged(reduced, t.lev) <= t.oi
    /\ ReduceOpenInterest(s, t.side, Leveraged(reduced, t.lev))
    /\ trade' = [trade EXCEPT ![s].coll = @ - reduced,
                              ![s].oi = @ - Leveraged(reduced, t.lev)]

-----------------------------------------------------------------------------
(* Changes of a trade. *)

\* The margin fee stays in the manager; the leverage follows the collateral.
\* In the backup oracle's mode the callback comes without a price and then
\* moves no margin, and the trade has changed all the same.
ChangeMargin(s, deposit, amount, fee, priced) ==
    LET t    == trade[s]
        coll == (IF deposit THEN t.coll + amount ELSE t.coll - amount) - fee
        lev  == NewLeverage(t.oi, coll)
        moved == CASE ~priced -> vault
                   [] priced /\ deposit -> Receive(vault, amount)
                   [] priced /\ ~deposit -> Send(vault, amount)
        short == IF priced /\ ~deposit THEN Shortfall(vault, amount) ELSE 0
    IN
    /\ Step
    /\ IsTrade(s)
    /\ coll > 0
    /\ lev \in MinLeverage .. MaxLeverage
    /\ priced /\ ~deposit => CanSend(vault, amount)
    /\ vault' = IF fee > 0 THEN AllocateRewards(moved, fee) ELSE moved
    /\ trade' = [trade EXCEPT ![s].coll = coll, ![s].lev = lev]
    /\ IF fee > 0 THEN ReduceGroupOI(t.side, Leveraged(fee, t.lev)) ELSE UNCHANGED groupOI
    /\ advanced' = advanced - short + (IF priced THEN 0
                                       ELSE IF deposit THEN amount ELSE -amount)
    /\ UNCHANGED <<order, storageUSDC, govFees, devFees, rebates, tokensToClaim,
                   totalOI, walletOI, sideOI, blockOI, unbacked>>

\* A guaranteed stop loss is paid from the collateral, which the vault manager
\* has; the fees are TradingStorage's to pay.
UpdateSl(s, fee, rebate) ==
    /\ Step
    /\ IsTrade(s)
    /\ CanAllocate(VaultAllocation(fee))
    /\ fee <= trade[s].coll
    /\ trade' = [trade EXCEPT ![s].coll = @ - fee]
    /\ vault' = AllocateRewards(vault, VaultAllocation(fee))
    /\ govFees' = govFees + GovFee(fee)
    /\ devFees' = devFees + DevFee(fee)
    /\ rebates' = rebates + rebate
    /\ unbacked' = unbacked + GovFee(fee) + DevFee(fee) + rebate
    /\ advanced' = advanced - (GovFee(fee) + DevFee(fee))
    /\ UNCHANGED <<order, storageUSDC, tokensToClaim, OpenInterest>>

-----------------------------------------------------------------------------
(* Claims. *)

ClaimFees ==
    /\ Step
    /\ govFees + devFees \in 1 .. storageUSDC
    /\ storageUSDC' = storageUSDC - (govFees + devFees)
    /\ govFees' = 0 /\ devFees' = 0
    /\ UNCHANGED <<vault, order, trade, rebates, tokensToClaim, OpenInterest,
                   unbacked, advanced>>

ClaimRebate ==
    /\ Step
    /\ rebates \in 1 .. storageUSDC
    /\ storageUSDC' = storageUSDC - rebates
    /\ rebates' = 0
    /\ UNCHANGED <<vault, order, trade, govFees, devFees, tokensToClaim, OpenInterest,
                   unbacked, advanced>>

ClaimTokens ==
    /\ Step
    /\ tokensToClaim > 0
    /\ CanSend(vault, tokensToClaim)
    /\ vault' = Send(vault, tokensToClaim)
    /\ tokensToClaim' = 0
    /\ advanced' = advanced - Shortfall(vault, tokensToClaim)
    /\ UNCHANGED <<order, trade, storageUSDC, govFees, devFees, rebates, OpenInterest,
                   unbacked>>

\* The open interest of the next block.
NewBlock ==
    /\ blockOI > 0
    /\ blockOI' = 0
    /\ UNCHANGED <<vault, order, trade, storageUSDC, govFees, devFees, rebates, tokensToClaim,
                   totalOI, walletOI, sideOI, groupOI, unbacked, advanced, steps>>

-----------------------------------------------------------------------------
Init ==
    /\ vault = [jr |-> Capital, sr |-> Capital, jrReserved |-> 0, srReserved |-> 0,
                cash |-> 0, totalRewards |-> 0, pnlRewards |-> 0]
    /\ order = [s \in Slots |-> None] /\ trade = [s \in Slots |-> None]
    /\ storageUSDC = 0 /\ govFees = 0 /\ devFees = 0 /\ rebates = 0 /\ tokensToClaim = 0
    /\ totalOI = 0 /\ walletOI = [t \in Traders |-> 0]
    /\ sideOI = [side \in Sides |-> 0] /\ groupOI = [side \in Sides |-> 0]
    /\ blockOI = 0 /\ unbacked = 0 /\ advanced = 0 /\ steps = 0

Next ==
    \/ \E s \in Slots :
         \/ \E size \in Sizes, lev \in Leverages, side \in Sides, execFee \in ExecFees :
              OpenTrade(s, size, lev, side, execFee)
         \/ Refund(s)
         \/ \E c \in Charges :
              \/ RegisterTrade(s, c[1], c[2])
              \/ UpdateSl(s, c[1], c[2])
              \/ \E gain \in Gains, rollover \in Rollovers :
                   \/ \E reward \in Rewards : CloseTrade(s, gain, rollover, c[1], c[2], reward)
                   \/ \E amount \in CloseAmounts :
                        ClosePartially(s, amount, gain, rollover, c[1], c[2])
         \/ \E deposit, priced \in BOOLEAN, amount \in Margins, fee \in Rollovers :
              ChangeMargin(s, deposit, amount, fee, priced)
    \/ ClaimFees
    \/ ClaimRebate
    \/ ClaimTokens
    \/ NewBlock

Spec == Init /\ [][Next]_vars

-----------------------------------------------------------------------------
(* Properties. *)

Collateral == SumFunction([s \in Slots |-> IF IsTrade(s) THEN trade[s].coll ELSE 0])
Escrow ==
    SumFunction([s \in Slots |-> IF IsOrder(s) THEN order[s].size + order[s].execFee ELSE 0])
InterestOf(S) ==
    SumFunction([s \in Slots |-> IF s \in S /\ IsTrade(s) THEN trade[s].oi ELSE 0])
Reserved == vault.jrReserved + vault.srReserved

TypeOK ==
    /\ vault \in Ledger
    /\ order \in [Slots -> Orders \cup {None}]
    /\ trade \in [Slots -> Trades \cup {None}]
    /\ {storageUSDC, govFees, devFees, rebates, tokensToClaim, totalOI, unbacked} \subseteq Nat
    /\ walletOI \in [Traders -> Nat]
    /\ sideOI \in [Sides -> Nat] /\ groupOI \in [Sides -> Nat]
    /\ blockOI \in 0 .. BlockOILimit
    /\ advanced \in Int /\ steps \in 0 .. MaxSteps

\* The four counters of open interest that gate new trades are kept by hand
\* through openings and full and partial closings: they add up to the trades'
\* own (TradingStorage.sol:866-899).
OpenInterestExact ==
    /\ totalOI = InterestOf(Slots)
    /\ \A t \in Traders : walletOI[t] = InterestOf({t} \X (1 .. TradesPerTrader))
    /\ \A side \in Sides :
         sideOI[side] = InterestOf({s \in Slots : IsTrade(s) /\ trade[s].side = side})

\* However leverage and collateral were changed, no trade stands for more than
\* its open interest and the tranches have reserved all of that, so that the
\* release in every closing goes through (TradingCallbacks.sol:578).  Closings
\* count against the limit of their block as openings do, but each trade fits a
\* block of its own (TradingStorage.sol:883-886).
TradesCanBeReleased ==
    /\ totalOI <= Reserved
    /\ \A s \in Slots : IsTrade(s) =>
         /\ Leveraged(trade[s].coll, trade[s].lev) <= trade[s].oi
         /\ trade[s].oi <= BlockOILimit
         /\ trade[s].coll > 0 /\ Reserved > 0 =>
              CanRelease(vault, Leveraged(trade[s].coll, trade[s].lev))

\* TradingStorage has the USDC of every order, and of every fee and rebate it
\* owes but for two: the rebates of openings, and what is charged for a
\* guaranteed stop loss (TradingStorage.sol:554-614).
StorageAccountsExact ==
    storageUSDC + unbacked = Escrow + govFees + devFees + rebates

\* The vault manager has all collateral, rewards and executors' fees but for
\* what it advanced: gains and rebates it paid, less what the tranches made up
\* and what it charged a second time (TradingCallbacks.sol:540-595).
ManagerAccountsExact ==
    vault.cash + advanced =
      vault.totalRewards + vault.pnlRewards + Collateral + tokensToClaim

\* Whatever is claimed of TradingStorage, the orders' USDC stays in it: every
\* order can be refunded (TradingStorage.sol:619-648).
OrdersCanBeRefunded == Escrow <= storageUSDC

\* When no trade is open nothing is reserved: what an opening reserves, the
\* closings release, in one piece or several (TradingCallbacks.sol:578-585).
FlatMarketReservesNothing == (\A s \in Slots : ~IsTrade(s)) => Reserved = 0
=============================================================================
