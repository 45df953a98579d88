------------------------------- MODULE Rollover -------------------------------
(***************************************************************************)
(* Rollover (margin) fees of PairInfos.sol for the pairs of one group.     *)
(* Each side of a pair has an accumulator of fees per unit of open         *)
(* interest; a trade keeps the accumulator it started from and is charged  *)
(* the difference.  What a block costs depends on the utilization of the   *)
(* group and the pair and on their skew at the time the accumulator is     *)
(* stored, so the order in which a transaction stores it, moves USDC and   *)
(* changes the open interest matters.                                      *)
(*                                                                         *)
(* A trade has its collateral and its open interest; the leverage is their *)
(* ratio (module Settlement rounds it).  The limits of the wallet, of the  *)
(* block and of the protocol, which only refuse more openings, are left    *)
(* out.                                                                    *)
(***************************************************************************)
EXTENDS Integers, FiniteSets, Functions

CONSTANTS
    Slots, Pairs,
    IsForex,        \* the group is number 2, its skew blends that of the dollar
    UsdAligned,     \* pairs whose "from" is USD
    GroupMaxP,      \* maxOpenInterestP of the group, percent of the tranches
    PairP,          \* groupOpenInterestPecentage of the pairs
    Balances,       \* amounts the tranches may hold: currentBalanceUSDC
    Collaterals, Leverages,  \* of an opening, fees deducted
    OpeningFees,
    CloseAmounts,   \* collateral of a partial close
    ClosingFees,    \* fees of a closing besides rollover
    Margins,        \* amounts of a deposit or a withdrawal of margin
    MinLeverage, MaxLeverage,
    BlockFees,      \* values of rolloverFeePerBlockP
    Precision,      \* _PRECISION
    MaxBlock, MaxSteps  \* bounds of the runs: blocks, transactions

ASSUME RolloverAssumption ==
    /\ IsFiniteSet(Pairs) /\ IsForex \in BOOLEAN /\ UsdAligned \subseteq Pairs
    /\ GroupMaxP \in Nat /\ PairP \in [Pairs -> Nat] /\ Balances \subseteq Nat
    /\ Collaterals \subseteq Nat \ {0} /\ Leverages \subseteq Nat \ {0}
    /\ OpeningFees \subseteq Nat
    /\ CloseAmounts \subseteq Nat \ {0} /\ ClosingFees \subseteq Nat
    /\ Margins \subseteq Nat \ {0} /\ BlockFees \subseteq Nat
    /\ MinLeverage \in Nat \ {0} /\ MaxLeverage \in Nat
    /\ Precision \in Nat \ {0} /\ MaxBlock \in Nat /\ MaxSteps \in Nat

VARIABLES
    trade,            \* at each slot
    interest,         \* openInterestUSDC of each pair and side
    groupOI, usdOI,   \* of each side
    acc,              \* accPerOiLong and accPerOiShort of each pair
    lastUpdateBlock,  \* of each pair
    feePerBlock,      \* rolloverFeePerBlockP of each pair
    balance,          \* currentBalanceUSDC
    block,
    steps             \* transactions so far

vars == <<trade, interest, groupOI, usdOI, acc, lastUpdateBlock, feePerBlock,
          balance, block, steps>>

Sides == {"long", "short"}
Other(side) == IF side = "long" THEN "short" ELSE "long"
Both(f) == f["long"] + f["short"]

NoTrade == [coll |-> 0, oi |-> 0]
Trades == [pair : Pairs, side : Sides, coll : Nat, oi : Nat, start : Nat]
IsTrade(s) == trade[s] # NoTrade

\* collateral.mul(leverage)
Leveraged(s, amount) ==
    IF trade[s].coll = 0 THEN 0 ELSE (amount * trade[s].oi) \div trade[s].coll

-----------------------------------------------------------------------------
(* What a block costs: g is the group's open interest, b the balance.      *)

GroupMaxOI(b) == (GroupMaxP * b) \div 100
PairMaxOI(p, b) == (PairP[p] * GroupMaxOI(b)) \div 100

\* The weights do not add up to 100.
Slip_BlendedUtilizationRatio(p, g, b) ==
    (75 * ((Both(g) * Precision) \div GroupMaxOI(b))
       + 75 * ((Both(interest[p]) * Precision) \div PairMaxOI(p, b))) \div 100

BlendedUtilizationRatio(p, g, b) ==
    (75 * ((Both(g) * Precision) \div GroupMaxOI(b))
       + 25 * ((Both(interest[p]) * Precision) \div PairMaxOI(p, b))) \div 100

\* The dollar side an open interest adds to.
UsdSide(p, side) == IF p \in UsdAligned THEN side ELSE Other(side)

AssetSkew(p, side) == (100 * interest[p][side]) \div Both(interest[p])
UsdSkew(p, side) == (100 * usdOI[UsdSide(p, side)]) \div Both(usdOI)

Slip_BlendedSkew(p, side) == AssetSkew(p, Other(side))

BlendedSkew(p, side) ==
    IF IsForex THEN (75 * UsdSkew(p, side) + 25 * AssetSkew(p, side)) \div 100
    ELSE AssetSkew(p, side)

\* The ratio is computed with the longs' fees: without longs it is still 0
\* when the shorts' fees are.
Load(p, side, g, b) ==
    IF interest[p]["long"] = 0 THEN 0
    ELSE BlendedUtilizationRatio(p, g, b) * BlendedSkew(p, side)

\* getPendingAccRolloverFees does not revert.
Defined(p, g, b) ==
    /\ interest[p]["long"] > 0 => GroupMaxOI(b) > 0 /\ PairMaxOI(p, b) > 0
    /\ \A side \in Sides : interest[p][side] > 0 =>
         /\ IsForex => Both(usdOI) > 0
         /\ Load(p, side, g, b) < Precision * 100

Multiplier(load) == (Precision * load) \div (Precision * 100 - load)

Accrued(p, side, blocks, g, b) ==
    IF interest[p][side] = 0 THEN 0
    ELSE (Multiplier(Load(p, side, g, b)) * blocks * feePerBlock[p]) \div Precision

PendingAcc(p, side, g, b) ==
    acc[p][side] + Accrued(p, side, block - lastUpdateBlock[p], g, b)

\* Rollover fee of a part of a trade with the given open interest.
RolloverFee(s, oi) ==
    LET t == trade[s] IN
    ((PendingAcc(t.pair, t.side, groupOI, balance) - t.start) * oi) \div Precision

StoreAccRolloverFees(p, g, b) ==
    /\ Defined(p, g, b)
    /\ acc' = [acc EXCEPT ![p] = [side \in Sides |-> PendingAcc(p, side, g, b)]]
    /\ lastUpdateBlock' = [lastUpdateBlock EXCEPT ![p] = block]

-----------------------------------------------------------------------------
(* Open interest.                                                          *)

Slip_Less(n, amount) == n - amount

Less(n, amount) == IF n > amount THEN n - amount ELSE 0

AddOpenInterest(p, side, amount) ==
    /\ interest' = [interest EXCEPT ![p][side] = @ + amount]
    /\ usdOI' = IF IsForex THEN [usdOI EXCEPT ![UsdSide(p, side)] = @ + amount]
                ELSE usdOI

\* The dollar's side is taken for the asset's.
Slip_ReduceOpenInterest(p, side, amount) ==
    LET dust == interest[p][side] - Less(interest[p][side], amount) IN
    /\ interest' = [interest EXCEPT ![p][side] = @ - dust]
    /\ usdOI' = IF IsForex THEN [usdOI EXCEPT ![side] = Less(@, dust)] ELSE usdOI

\* No more than the pair has is taken; what the dollar loses must be there.
ReduceOpenInterest(p, side, amount) ==
    LET dust == IF amount > interest[p][side] THEN interest[p][side] ELSE amount IN
    /\ interest' = [interest EXCEPT ![p][side] = @ - dust]
    /\ IF IsForex
       THEN /\ dust <= usdOI[UsdSide(p, side)]
            /\ usdOI' = [usdOI EXCEPT ![UsdSide(p, side)] = @ - dust]
       ELSE usdOI' = usdOI

\* The order of updateGroupOI's last argument is mistaken.
Slip_GroupLess(side, amount) == [groupOI EXCEPT ![side] = @ + amount]

GroupLess(side, amount) == [groupOI EXCEPT ![side] = Less(@, amount)]

WithinExposureLimits(p, leveraged) ==
    /\ Both(groupOI) + leveraged <= GroupMaxOI(balance)
    /\ Both(interest[p]) + leveraged <= PairMaxOI(p, balance)

-----------------------------------------------------------------------------
(* Transactions.                                                           *)

Step == steps < MaxSteps /\ steps' = steps + 1

\* The start is read from the accumulator of the other side.
Slip_RegisterTrade(s, p, side, coll, oi, asked) ==
    /\ ~IsTrade(s)
    /\ WithinExposureLimits(p, asked)
    /\ StoreAccRolloverFees(p, groupOI, balance)
    /\ trade' = [trade EXCEPT ![s] = [pair |-> p, side |-> side, coll |-> coll,
                                      oi |-> oi, start |-> acc'[p][Other(side)]]]
    /\ groupOI' = [groupOI EXCEPT ![side] = @ + oi]
    /\ AddOpenInterest(p, side, oi)
    /\ UNCHANGED <<feePerBlock, balance, block>>

\* The limits are those for what was asked, the fee not yet deducted.  The
\* trader's USDC goes to the vault manager, not to the tranches.
RegisterTrade(s, p, side, coll, oi, asked) ==
    /\ ~IsTrade(s)
    /\ WithinExposureLimits(p, asked)
    /\ StoreAccRolloverFees(p, groupOI, balance)
    /\ trade' = [trade EXCEPT ![s] = [pair |-> p, side |-> side, coll |-> coll,
                                      oi |-> oi, start |-> acc'[p][side]]]
    /\ groupOI' = [groupOI EXCEPT ![side] = @ + oi]
    /\ AddOpenInterest(p, side, oi)
    /\ UNCHANGED <<feePerBlock, balance, block>>

\* The tranches may have to pay the trader.
Payout == balance' \in {b \in Balances : b <= balance}

CloseTrade(s) ==
    LET t == trade[s] IN
    /\ IsTrade(s)
    /\ StoreAccRolloverFees(t.pair, groupOI, balance)
    /\ trade' = [trade EXCEPT ![s] = NoTrade]
    /\ ReduceOpenInterest(t.pair, t.side, t.oi)
    /\ groupOI' = GroupLess(t.side, t.oi)
    /\ Payout
    /\ UNCHANGED <<feePerBlock, block>>

\* The rest keeps its start: it has not been charged.
ClosePartially(s, amount, closingFee) ==
    LET t    == trade[s]
        paid == amount + RolloverFee(s, Leveraged(s, amount)) + closingFee
    IN
    /\ IsTrade(s)
    /\ amount # t.coll
    /\ StoreAccRolloverFees(t.pair, groupOI, balance)
    /\ paid <= t.coll
    /\ trade' = [trade EXCEPT ![s] =
         [t EXCEPT !.coll = t.coll - paid, !.oi = t.oi - Leveraged(s, paid)]]
    /\ ReduceOpenInterest(t.pair, t.side, Leveraged(s, paid))
    /\ groupOI' = GroupLess(t.side, Leveraged(s, amount))
    /\ Payout
    /\ UNCHANGED <<feePerBlock, block>>

\* updateMargin (Trading.sol:226-282) and its callback.  The fee is charged
\* before, and the accumulator stored after, USDC is paid out and the group's
\* open interest is reduced.
UpdateMargin(s, deposit, amount) ==
    LET t    == trade[s]
        fee  == RolloverFee(s, t.oi)
        coll == IF deposit THEN t.coll + amount - fee ELSE t.coll - amount - fee
    IN
    /\ IsTrade(s)
    /\ Defined(t.pair, groupOI, balance)
    /\ coll > 0 /\ MinLeverage * coll <= t.oi /\ t.oi <= MaxLeverage * coll
    /\ IF deposit THEN balance' = balance ELSE Payout
    /\ groupOI' = GroupLess(t.side, Leveraged(s, fee))
    /\ StoreAccRolloverFees(t.pair, groupOI', balance')
    /\ trade' = [trade EXCEPT ![s] = [t EXCEPT !.coll = coll, !.start = acc'[t.pair][t.side]]]
    /\ UNCHANGED <<interest, usdOI, feePerBlock, block>>

\* The fee is changed for the blocks that have passed as well.
Slip_SetRolloverFeePerBlockP(p, value) ==
    /\ feePerBlock' = [feePerBlock EXCEPT ![p] = value]
    /\ UNCHANGED <<trade, interest, groupOI, usdOI, acc, lastUpdateBlock, balance, block>>

SetRolloverFeePerBlockP(p, value) ==
    /\ StoreAccRolloverFees(p, groupOI, balance)
    /\ feePerBlock' = [feePerBlock EXCEPT ![p] = value]
    /\ UNCHANGED <<trade, interest, groupOI, usdOI, balance, block>>

\* Deposits and withdrawals of liquidity, distributions: module Vault.
BalanceMoves ==
    /\ balance' \in Balances
    /\ UNCHANGED <<trade, interest, groupOI, usdOI, acc, lastUpdateBlock,
                   feePerBlock, block>>

NewBlock ==
    /\ block < MaxBlock
    /\ block' = block + 1
    /\ UNCHANGED <<trade, interest, groupOI, usdOI, acc, lastUpdateBlock,
                   feePerBlock, balance>>

Zero == [side \in Sides |-> 0]

Init ==
    /\ trade = [s \in Slots |-> NoTrade]
    /\ interest = [p \in Pairs |-> Zero]
    /\ groupOI = Zero /\ usdOI = Zero
    /\ acc = [p \in Pairs |-> Zero]
    /\ lastUpdateBlock = [p \in Pairs |-> 0]
    /\ feePerBlock \in [Pairs -> BlockFees]
    /\ balance \in Balances
    /\ block = 0 /\ steps = 0

OnSlot(s) ==
    \/ \E p \in Pairs, side \in Sides, coll \in Collaterals, lev \in Leverages,
          fee \in OpeningFees :
         RegisterTrade(s, p, side, coll, coll * lev, (coll + fee) * lev)
    \/ CloseTrade(s)
    \/ \E amount \in CloseAmounts, fee \in ClosingFees : ClosePartially(s, amount, fee)
    \/ \E deposit \in BOOLEAN, amount \in Margins : UpdateMargin(s, deposit, amount)

Next ==
    \/ Step /\ \E s \in Slots : OnSlot(s)
    \/ Step /\ \E p \in Pairs, value \in BlockFees : SetRolloverFeePerBlockP(p, value)
    \/ BalanceMoves /\ UNCHANGED steps
    \/ NewBlock /\ UNCHANGED steps

Spec == Init /\ [][Next]_vars

-----------------------------------------------------------------------------
(* Properties.                                                             *)

\* Every variable keeps its type: no collateral, open interest or accumulator
\* goes below zero, and no pair was updated in the future.
TypeOK ==
    /\ trade \in [Slots -> Trades \cup {NoTrade}]
    /\ interest \in [Pairs -> [Sides -> Nat]]
    /\ groupOI \in [Sides -> Nat] /\ usdOI \in [Sides -> Nat]
    /\ acc \in [Pairs -> [Sides -> Nat]]
    /\ lastUpdateBlock \in [Pairs -> 0 .. block]
    /\ feePerBlock \in [Pairs -> BlockFees]
    /\ balance \in Balances
    /\ block \in 0 .. MaxBlock /\ steps \in 0 .. MaxSteps

\* The subtraction of getTradeRolloverFeePure (PairInfos.sol:593) never
\* underflows: no trade starts ahead of its side's accumulator, and storing an
\* accumulator never takes it back behind a trade.
StartsBehind ==
    \A s \in Slots : IsTrade(s) => trade[s].start <= acc[trade[s].pair][trade[s].side]

\* No transaction that changes the open interest or the fee of a pair reprices
\* the blocks its trades have already been open for: they are stored first, at
\* the old terms (PairInfos.sol:183, 205, 248).
PastBlocksKeepTheirPrice ==
    [][\A p \in Pairs :
         interest'[p] # interest[p] \/ feePerBlock'[p] # feePerBlock[p] =>
           /\ lastUpdateBlock'[p] = block
           /\ \A side \in Sides : acc'[p][side] = PendingAcc(p, side, groupOI, balance)]_vars

\* A margin update forgives nothing: the trade restarts no further than where
\* it has just been charged, unless the tranches paid for the withdrawal.  (It
\* may restart behind it, the group's open interest being reduced in between.)
MarginUpdateForgivesNothing ==
    [][\A s \in Slots :
         LET t == trade[s] IN
         IsTrade(s) /\ IsTrade(s)' /\ trade'[s].start # t.start /\ balance' = balance =>
           trade'[s].start <= PendingAcc(t.pair, t.side, groupOI, balance)]_vars

\* The dollar's open interest is that of the pairs, each on the side it counts
\* for: the subtraction of TradingStorage.sol:892-894 never underflows.
UsdOIExact ==
    IsForex => \A side \in Sides :
      usdOI[side] = SumFunction([p \in Pairs |-> interest[p][UsdSide(p, side)]])

\* The side with more open interest, of the pair and of the dollar, pays at
\* least as much a block as the other one.
HeavierSidePaysMore ==
    \A p \in Pairs, side \in Sides :
      /\ Defined(p, groupOI, balance)
      /\ interest[p][side] >= interest[p][Other(side)]
      /\ usdOI[UsdSide(p, side)] >= usdOI[UsdSide(p, Other(side))]
      => Accrued(p, side, 1, groupOI, balance) >= Accrued(p, Other(side), 1, groupOI, balance)

\* Below the limits of the group and the pair the fees of a pair are defined,
\* so that its trades can be closed; at the limit, with longs only, and above
\* it, once the tranches have less, every transaction of the pair may revert.
ClosableBelowFull ==
    \A p \in Pairs :
      Both(groupOI) < GroupMaxOI(balance) /\ Both(interest[p]) < PairMaxOI(p, balance) =>
        Defined(p, groupOI, balance)

\* "Margin Fees can be zero in case of very low utilization/Last update time
\* being close" (TradingCallbacks.sol:94): the side that has half of a half
\* used market, or more, owes something for two blocks.
OnlyIdlePairsAreFree ==
    \A p \in Pairs, side \in Sides :
      /\ Defined(p, groupOI, balance)
      /\ interest[p][side] > 0
      /\ 2 * Both(interest[p]) >= PairMaxOI(p, balance)
      /\ 2 * Both(groupOI) >= GroupMaxOI(balance)
      /\ BlendedSkew(p, side) >= 50 /\ feePerBlock[p] > 0
      => Accrued(p, side, 2, groupOI, balance) > 0
=============================================================================
