-------------------------- MODULE Settlement_proofs --------------------------
(***************************************************************************)
(* Proofs about Settlement, for every value of its constants: what each    *)
(* settlement does to the ledger (by the lemmas of Vault_proofs), to the   *)
(* sums over all trades and orders (by those of Sums_proofs) and to the    *)
(* accounts keeps them in balance.                                         *)
(***************************************************************************)
EXTENDS Settlement, Vault_proofs, Sums_proofs

-----------------------------------------------------------------------------
(* Leverage and fees. *)

\* Leveraged amounts are naturals.
LEMMA LeveragedType ==
    ASSUME NEW a \in Nat, NEW lev \in Nat
    PROVE  Leveraged(a, lev) \in Nat
<1>1. a * lev \in Nat
  BY SMT
<1> QED
  BY <1>1, RoundsDown, SettlementAssumption DEF Leveraged

\* Two parts, each leveraged and rounded down, are at most the whole leveraged.
LEMMA LeveragedSplits ==
    ASSUME NEW a \in Nat, NEW b \in Nat, NEW lev \in Nat
    PROVE  Leveraged(a, lev) + Leveraged(b, lev) <= Leveraged(a + b, lev)
<1> DEFINE x == (a * lev) \div LevPrecision
           y == (b * lev) \div LevPrecision
<1>0. LevPrecision \in Nat \ {0}
  BY SettlementAssumption
<1>1. a * lev \in Nat /\ b * lev \in Nat /\ (a + b) * lev = a * lev + b * lev
  BY SMT
<1>2. /\ x \in Nat /\ x * LevPrecision <= a * lev
      /\ y \in Nat /\ y * LevPrecision <= b * lev
  BY <1>0, <1>1, RoundsDown
<1> HIDE DEF x, y
<1>3. /\ (x + y) * LevPrecision = x * LevPrecision + y * LevPrecision
      /\ x * LevPrecision \in Nat /\ y * LevPrecision \in Nat
  BY <1>0, <1>2, SMT
<1>4. (x + y) * LevPrecision <= (a + b) * lev
  BY <1>1, <1>2, <1>3, SMT
<1>5. x + y \in Nat /\ (a + b) * lev \in Nat
  BY <1>1, <1>2, SMT
<1>6. x + y <= ((a + b) * lev) \div LevPrecision
  BY <1>0, <1>4, <1>5, RoundsDownTo
<1> QED
  BY <1>6 DEF x, y, Leveraged

\* More collateral at the same leverage stands for no less.
LEMMA LeveragedMonotone ==
    ASSUME NEW a \in Nat, NEW b \in Nat, a <= b, NEW lev \in Nat
    PROVE  Leveraged(a, lev) <= Leveraged(b, lev)
<1>1. b - a \in Nat /\ a + (b - a) = b
  BY SMT
<1>2. Leveraged(a, lev) + Leveraged(b - a, lev) <= Leveraged(b, lev)
  BY <1>1, LeveragedSplits
<1>3. /\ Leveraged(a, lev) \in Nat /\ Leveraged(b, lev) \in Nat
      /\ Leveraged(b - a, lev) \in Nat
  BY <1>1, LeveragedType
<1> QED
  BY <1>2, <1>3, SMT

\* The leverage of changed collateral is rounded down, so that the trade does
\* not stand for more than its open interest.
LEMMA NewLeverageFits ==
    ASSUME NEW oi \in Nat, NEW coll \in Nat \ {0}
    PROVE  NewLeverage(oi, coll) \in Nat /\ Leveraged(coll, NewLeverage(oi, coll)) <= oi
<1> DEFINE lev == (oi * LevPrecision) \div coll
<1>0. LevPrecision \in Nat \ {0}
  BY SettlementAssumption
<1>1. oi * LevPrecision \in Nat
  BY <1>0, SMT
<1>2. lev \in Nat /\ lev * coll <= oi * LevPrecision
  BY <1>1, RoundsDown
<1> HIDE DEF lev
<1>3. coll * lev \in Nat /\ coll * lev <= oi * LevPrecision
  BY <1>2, SMT
<1>4. (coll * lev) \div LevPrecision \in 0 .. oi
  BY <1>0, <1>3, PartOfWhole
<1>5. (coll * lev) \div LevPrecision <= oi
  BY <1>4, SMT
<1> QED
  BY <1>2, <1>5 DEF lev, NewLeverage, Leveraged

\* A fee is divided between the vault, the governance and the developers.
LEMMA FeeParts ==
    ASSUME NEW fee \in Nat
    PROVE  /\ VaultAllocation(fee) \in Nat /\ GovFee(fee) \in Nat /\ DevFee(fee) \in Nat
           /\ VaultAllocation(fee) + GovFee(fee) + DevFee(fee) = fee
<1> DEFINE rest  == 100 - VaultFeeP
           part == (fee * rest) \div 100
           dues  == (fee * VaultFeeP) \div 100
<1>0. VaultFeeP \in Nat /\ rest \in Nat /\ VaultFeeP + rest = 100
  BY SettlementAssumption, SMT
<1> HIDE DEF rest
<1>1. fee * rest \in Nat /\ fee * VaultFeeP \in Nat
  BY <1>0, SMT
<1>2. fee * rest + fee * VaultFeeP = fee * 100
  <2>1. fee * rest + fee * VaultFeeP = fee * (rest + VaultFeeP)
    BY <1>0, SMT
  <2> QED
    BY <2>1, <1>0, SMT
<1>3. part \in Nat /\ part * 100 <= fee * rest /\ dues \in Nat /\ dues * 100 <= fee * VaultFeeP
  BY <1>1, RoundsDown
<1> HIDE DEF part, dues
<1>4. part + dues <= fee
  BY <1>1, <1>2, <1>3, SMT
<1>5. dues \div 2 \in Nat /\ dues \div 2 <= dues
  BY <1>3, SMT
<1>6. VaultAllocation(fee) = part /\ GovFee(fee) = dues \div 2
  BY DEF VaultAllocation, GovFee, part, dues, rest
<1>7. DevFee(fee) = fee - part - dues \div 2
  BY <1>6 DEF DevFee
<1> QED
  BY <1>3, <1>4, <1>5, <1>6, <1>7, SMT

\* A value is never negative, and with the fees it is what the amount and the
\* gain or loss come to.
LEMMA TradeValueBalances ==
    ASSUME NEW amount \in Nat, NEW gain \in Int, NEW fees \in Nat
    PROVE  /\ TradeValue(amount, gain, fees).value \in Nat
           /\ TradeValue(amount, gain, fees).pnl \in Int
           /\ amount + TradeValue(amount, gain, fees).pnl
                = TradeValue(amount, gain, fees).value + fees
<1> DEFINE pnl   == Percentage(amount, gain)
           value == amount + pnl - fees
           limit == (amount * (100 - LiqThreshold)) \div 100
<1>1. pnl \in Int
  <2>1. CASE gain < 0
    <3>1. amount * (-gain) \in Nat
      BY <2>1, SMT
    <3>2. (amount * (-gain)) \div 100 \in Nat
      BY <3>1, RoundsDown
    <3> QED
      BY <2>1, <3>2, SMT DEF Percentage
  <2>2. CASE ~(gain < 0)
    <3>1. amount * gain \in Nat
      BY <2>2, SMT
    <3>2. (amount * gain) \div 100 \in Nat
      BY <3>1, RoundsDown
    <3> QED
      BY <2>2, <3>2, SMT DEF Percentage
  <2> QED
    BY <2>1, <2>2
<1>2. limit \in Nat
  <2>1. 100 - LiqThreshold \in Nat
    BY SettlementAssumption, SMT
  <2>2. amount * (100 - LiqThreshold) \in Nat
    BY <2>1, SMT
  <2> QED
    BY <2>2, RoundsDown
<1>3. TradeValue(amount, gain, fees) =
        IF value <= limit THEN [value |-> 0, pnl |-> fees - amount]
                          ELSE [value |-> value, pnl |-> pnl]
  BY DEF TradeValue
<1> HIDE DEF pnl, limit
<1>4. CASE value <= limit
  <2>1. /\ TradeValue(amount, gain, fees).value = 0
        /\ TradeValue(amount, gain, fees).pnl = fees - amount
    BY <1>3, <1>4
  <2> QED
    BY <2>1, SMT
<1>5. CASE ~(value <= limit)
  <2>1. /\ TradeValue(amount, gain, fees).value = value
        /\ TradeValue(amount, gain, fees).pnl = pnl
    BY <1>3, <1>5
  <2> QED
    BY <2>1, <1>1, <1>2, <1>5, SMT
<1> QED
  BY <1>4, <1>5

-----------------------------------------------------------------------------
(* The ledger: what all tranches have reserved, and what the manager has   *)
(* beyond its rewards.                                                     *)

ReservedOf(v) == v.jrReserved + v.srReserved
Balance(v) == v.cash - v.totalRewards - v.pnlRewards

\* A reserve is divided between the tranches without a remainder.
LEMMA ReserveEffect ==
    ASSUME NEW v \in Ledger, NEW amount \in Nat, CanReserve(v, amount)
    PROVE  /\ Reserve(v, amount) \in Ledger
           /\ ReservedOf(Reserve(v, amount)) = ReservedOf(v) + amount
           /\ Balance(Reserve(v, amount)) = Balance(v)
<1> DEFINE junior == JuniorToReserve(v, amount)
           w      == Reserve(v, amount)
<1>1. junior \in 0 .. amount /\ w \in Ledger
  BY ReserveKeeps
<1>2. /\ w.jrReserved = v.jrReserved + junior
      /\ w.srReserved = v.srReserved + (amount - junior)
      /\ w.cash = v.cash /\ w.totalRewards = v.totalRewards /\ w.pnlRewards = v.pnlRewards
  BY Zenon DEF Reserve, Ledger
<1>3. v.jrReserved \in Nat /\ v.srReserved \in Nat
  BY DEF Ledger
<1> HIDE DEF junior, w
<1>4. ReservedOf(w) = ReservedOf(v) + amount
  BY <1>1, <1>2, <1>3, SMT DEF ReservedOf
<1>5. Balance(w) = Balance(v)
  BY <1>2 DEF Balance
<1> QED
  BY <1>1, <1>4, <1>5 DEF w

\* So is a release.
LEMMA ReleaseEffect ==
    ASSUME NEW v \in Ledger, NEW amount \in Nat, CanRelease(v, amount)
    PROVE  /\ Release(v, amount) \in Ledger
           /\ ReservedOf(Release(v, amount)) = ReservedOf(v) - amount
           /\ Balance(Release(v, amount)) = Balance(v)
<1> DEFINE junior == JuniorToRelease(v, amount)
           w      == Release(v, amount)
<1>1. junior \in 0 .. v.jrReserved /\ w \in Ledger
  BY ReleaseKeeps
<1>2. /\ w.jrReserved = v.jrReserved - junior
      /\ w.srReserved = v.srReserved - (amount - junior)
      /\ w.cash = v.cash /\ w.totalRewards = v.totalRewards /\ w.pnlRewards = v.pnlRewards
  BY Zenon DEF Release, Ledger, SeniorToRelease
<1>3. v.jrReserved \in Nat /\ v.srReserved \in Nat
  BY DEF Ledger
<1> HIDE DEF junior, w
<1>4. ReservedOf(w) = ReservedOf(v) - amount
  BY <1>1, <1>2, <1>3, SMT DEF ReservedOf
<1>5. Balance(w) = Balance(v)
  BY <1>2 DEF Balance
<1> QED
  BY <1>1, <1>4, <1>5 DEF w

\* A payout takes from the balance what the tranches do not make up.
LEMMA SendEffect ==
    ASSUME NEW v \in Ledger, NEW amount \in Nat, CanSend(v, amount)
    PROVE  /\ Send(v, amount) \in Ledger /\ Shortfall(v, amount) \in Nat
           /\ ReservedOf(Send(v, amount)) = ReservedOf(v)
           /\ Balance(Send(v, amount)) = Balance(v) + Shortfall(v, amount) - amount
<1> DEFINE short == Shortfall(v, amount)
           w     == Send(v, amount)
<1>1. w \in Ledger /\ short \in Nat
  BY SendKeeps, LossShares
<1>2. /\ w.jrReserved = v.jrReserved /\ w.srReserved = v.srReserved
      /\ w.cash = v.cash + short - amount
      /\ w.totalRewards = v.totalRewards /\ w.pnlRewards = v.pnlRewards
  BY Zenon DEF Send, Ledger
<1>3. v.cash \in Nat /\ v.totalRewards \in Nat /\ v.pnlRewards \in Nat
  BY DEF Ledger
<1> HIDE DEF short, w
<1>4. Balance(w) = Balance(v) + short - amount
  BY <1>1, <1>2, <1>3, SMT DEF Balance
<1>5. ReservedOf(w) = ReservedOf(v)
  BY <1>2 DEF ReservedOf
<1> QED
  BY <1>1, <1>4, <1>5 DEF short, w

\* The accounts of rewards are a claim on the balance.
LEMMA AccountsEffect ==
    ASSUME NEW v \in Ledger, NEW amount \in Nat
    PROVE  /\ Receive(v, amount) \in Ledger
           /\ ReservedOf(Receive(v, amount)) = ReservedOf(v)
           /\ Balance(Receive(v, amount)) = Balance(v) + amount
           /\ AllocateRewards(v, amount) \in Ledger
           /\ ReservedOf(AllocateRewards(v, amount)) = ReservedOf(v)
           /\ Balance(AllocateRewards(v, amount)) = Balance(v) - amount
           /\ AllocatePnl(v, amount) \in Ledger
           /\ ReservedOf(AllocatePnl(v, amount)) = ReservedOf(v)
           /\ Balance(AllocatePnl(v, amount)) = Balance(v) - amount
           /\ CanRebate(v, amount) =>
                /\ Rebate(v, amount) \in Ledger
                /\ ReservedOf(Rebate(v, amount)) = ReservedOf(v)
                /\ Balance(Rebate(v, amount)) = Balance(v) - amount
<1>1. /\ Receive(v, amount) \in Ledger /\ AllocateRewards(v, amount) \in Ledger
      /\ AllocatePnl(v, amount) \in Ledger
      /\ CanRebate(v, amount) => Rebate(v, amount) \in Ledger
  BY AccountsKeep
<1>2. v.cash \in Nat /\ v.totalRewards \in Nat /\ v.pnlRewards \in Nat
  BY DEF Ledger
<1>3. /\ Balance(Receive(v, amount)) = (v.cash + amount) - v.totalRewards - v.pnlRewards
      /\ Balance(AllocateRewards(v, amount)) = v.cash - (v.totalRewards + amount) - v.pnlRewards
      /\ Balance(AllocatePnl(v, amount)) = v.cash - v.totalRewards - (v.pnlRewards + amount)
      /\ Balance(Rebate(v, amount)) = v.cash - amount - v.totalRewards - v.pnlRewards
  <2>1. Balance(Receive(v, amount)) = (v.cash + amount) - v.totalRewards - v.pnlRewards
    BY Zenon DEF Ledger, Balance, Receive
  <2>2. Balance(AllocateRewards(v, amount))
          = v.cash - (v.totalRewards + amount) - v.pnlRewards
    BY Zenon DEF Ledger, Balance, AllocateRewards
  <2>3. Balance(AllocatePnl(v, amount)) = v.cash - v.totalRewards - (v.pnlRewards + amount)
    BY Zenon DEF Ledger, Balance, AllocatePnl
  <2>4. Balance(Rebate(v, amount)) = v.cash - amount - v.totalRewards - v.pnlRewards
    BY Zenon DEF Ledger, Balance, Rebate
  <2> QED
    BY <2>1, <2>2, <2>3, <2>4
<1>4. /\ ReservedOf(Receive(v, amount)) = ReservedOf(v)
      /\ ReservedOf(AllocateRewards(v, amount)) = ReservedOf(v)
      /\ ReservedOf(AllocatePnl(v, amount)) = ReservedOf(v)
      /\ ReservedOf(Rebate(v, amount)) = ReservedOf(v)
  BY Zenon DEF Ledger, ReservedOf, Receive, AllocateRewards, AllocatePnl, Rebate
<1>5. /\ Balance(Receive(v, amount)) = Balance(v) + amount
      /\ Balance(AllocateRewards(v, amount)) = Balance(v) - amount
      /\ Balance(AllocatePnl(v, amount)) = Balance(v) - amount
      /\ Balance(Rebate(v, amount)) = Balance(v) - amount
  <2>1. Balance(v) = v.cash - v.totalRewards - v.pnlRewards
    BY DEF Balance
  <2> QED
    BY <1>2, <1>3, <2>1, SMT
<1> QED
  BY <1>1, <1>4, <1>5

\* An amount that is reserved in all can be released.
LEMMA ReservedCanBeReleased ==
    ASSUME NEW v \in Ledger, NEW amount \in Nat, 0 < ReservedOf(v), amount <= ReservedOf(v)
    PROVE  CanRelease(v, amount)
<1>1. /\ JuniorToRelease(v, amount) \in 0 .. v.jrReserved
      /\ SeniorToRelease(v, amount) \in 0 .. v.srReserved
  BY ReleaseShares DEF ReservedOf
<1>2. v.jrReserved \in Nat /\ v.srReserved \in Nat
  BY DEF Ledger
<1> QED
  BY <1>1, <1>2, SMT DEF CanRelease, ReservedOf

\* The calls of a closing, but for the release.
Charged(result, fees) == Allocated(Paid(result), result, fees)
Settled(result, fees, rebate) == Rebated(Charged(result, fees), rebate)

\* What the tranches make up of a value, and the loss of a gain or loss.
MadeUp(value) == IF value > 0 THEN Shortfall(vault, value) ELSE 0
LossOf(pnl) == IF pnl < 0 THEN -pnl ELSE 0

\* The release is all that the reserves fall by, and the balance falls by the
\* value paid, the fees, the loss and the rebate, but for what is made up.
SettledTo(v, result, fees, rebate, released) ==
    /\ v \in Ledger
    /\ ReservedOf(v) = ReservedOf(vault) - released
    /\ MadeUp(result.value) \in Nat
    /\ Balance(v) = Balance(vault) + MadeUp(result.value) - result.value
                      - LossOf(result.pnl) - fees - rebate

\* What a closing makes of the ledger.
LEMMA SettledLedger ==
    ASSUME vault \in Ledger, NEW result \in [value : Nat, pnl : Int], NEW fees \in Nat,
           NEW rebate \in Nat, NEW released \in Nat,
           result.value > 0 => CanSend(vault, result.value),
           rebate > 0 => CanRebate(Charged(result, fees), rebate),
           CanRelease(Settled(result, fees, rebate), released)
    PROVE  SettledTo(Release(Settled(result, fees, rebate), released),
                     result, fees, rebate, released)
<1> DEFINE value == result.value
           pnl   == result.pnl
           charged == Charged(result, fees)
           rebated == Settled(result, fees, rebate)
           short == IF value > 0 THEN Shortfall(vault, value) ELSE 0
           loss  == IF pnl < 0 THEN -pnl ELSE 0
           paid  == IF value > 0 THEN Send(vault, value) ELSE vault
           lost  == IF pnl < 0 THEN AllocatePnl(paid, loss) ELSE paid
<1>1. value \in Nat /\ pnl \in Int
  OBVIOUS
<1>0. /\ value > 0 => CanSend(vault, value)
      /\ rebate > 0 => CanRebate(charged, rebate)
      /\ CanRelease(rebated, released)
  OBVIOUS
<1>2. Paid(result) = paid
  BY DEF Paid
<1>3. charged = IF pnl < 0 \/ fees > 0 THEN AllocateRewards(lost, fees) ELSE lost
  BY <1>2 DEF Allocated, Charged
<1>11. rebated = IF rebate > 0 THEN Rebate(charged, rebate) ELSE charged
  BY DEF Settled, Rebated
<1> HIDE DEF value, pnl, charged, rebated
<1>4. Balance(vault) \in Int
  BY SMT DEF Balance, Ledger
<1>5. /\ paid \in Ledger /\ short \in Nat /\ ReservedOf(paid) = ReservedOf(vault)
      /\ Balance(paid) = Balance(vault) + short - value
  <2>1. CASE value > 0
    BY <2>1, <1>0, <1>1, SendEffect
  <2>2. CASE ~(value > 0)
    BY <2>2, <1>1, <1>4, SMT
  <2> QED
    BY <2>1, <2>2
<1>6. /\ loss \in Nat
      /\ pnl < 0 => lost = AllocatePnl(paid, loss)
      /\ ~(pnl < 0) => lost = paid /\ loss = 0
  BY <1>1, SMT
<1> HIDE DEF short, paid, loss, lost
<1>7. /\ lost \in Ledger /\ ReservedOf(lost) = ReservedOf(vault)
      /\ Balance(lost) = Balance(vault) + short - value - loss
  <2>1. CASE pnl < 0
    BY <2>1, <1>1, <1>4, <1>5, <1>6, AccountsEffect, SMT
  <2>2. CASE ~(pnl < 0)
    BY <2>2, <1>1, <1>4, <1>5, <1>6, SMT
  <2> QED
    BY <2>1, <2>2
<1>8. /\ charged \in Ledger /\ ReservedOf(charged) = ReservedOf(vault)
      /\ Balance(charged) = Balance(vault) + short - value - loss - fees
  <2>1. CASE pnl < 0 \/ fees > 0
    <3>1. charged = AllocateRewards(lost, fees)
      BY <2>1, <1>3
    <3> QED
      BY <3>1, <1>1, <1>4, <1>5, <1>6, <1>7, AccountsEffect, SMT
  <2>2. CASE ~(pnl < 0 \/ fees > 0)
    <3>1. charged = lost /\ fees = 0
      BY <2>2, <1>3, SMT
    <3> QED
      BY <3>1, <1>1, <1>4, <1>5, <1>6, <1>7, SMT
  <2> QED
    BY <2>1, <2>2
<1>9. /\ rebated \in Ledger /\ ReservedOf(rebated) = ReservedOf(vault)
      /\ Balance(rebated) = Balance(vault) + short - value - loss - fees - rebate
  <2>1. CASE rebate > 0
    <3>1. rebated = Rebate(charged, rebate) /\ CanRebate(charged, rebate)
      BY <2>1, <1>0, <1>11
    <3> QED
      BY <3>1, <1>1, <1>4, <1>5, <1>6, <1>8, AccountsEffect, SMT
  <2>2. CASE ~(rebate > 0)
    <3>1. rebated = charged /\ rebate = 0
      BY <2>2, <1>11, SMT
    <3> QED
      BY <3>1, <1>1, <1>4, <1>5, <1>6, <1>8, SMT
  <2> QED
    BY <2>1, <2>2
<1>10. /\ Release(rebated, released) \in Ledger
       /\ ReservedOf(Release(rebated, released)) = ReservedOf(vault) - released
       /\ Balance(Release(rebated, released)) =
            Balance(vault) + short - value - loss - fees - rebate
  BY <1>0, <1>9, ReleaseEffect
<1> QED
  BY <1>5, <1>10 DEF SettledTo, MadeUp, LossOf, short, loss, value, pnl, rebated

-----------------------------------------------------------------------------
(* The sums over the slots, as functions of what is in them. *)

Book == [Slots -> Trades \cup {None}]
OrderBook == [Slots -> Orders \cup {None}]

CollOf(t) == IF t # None THEN t.coll ELSE 0
OiOf(t) == IF t # None THEN t.oi ELSE 0
SideOiOf(t, side) == IF t # None /\ t.side = side THEN t.oi ELSE 0
EscrowOf(o) == IF o # None THEN o.size + o.execFee ELSE 0

CollAt(tr) == [s \in Slots |-> CollOf(tr[s])]
OiAt(tr) == [s \in Slots |-> OiOf(tr[s])]
WalletAt(tr, t) == [s \in Slots |-> IF s[1] = t THEN OiOf(tr[s]) ELSE 0]
SideAt(tr, side) == [s \in Slots |-> SideOiOf(tr[s], side)]
EscrowAt(ord) == [s \in Slots |-> EscrowOf(ord[s])]

\* There are finitely many slots.
LEMMA SlotsFinite == IsFiniteSet(Slots)
<1>1. IsFiniteSet(1 .. TradesPerTrader)
  BY FS_Interval, SettlementAssumption
<1> QED
  BY <1>1, FS_Product, SettlementAssumption DEF Slots

\* What a place holds counts for a natural number.
LEMMA PlaceTypes ==
    ASSUME NEW t \in Trades \cup {None}, NEW o \in Orders \cup {None}, NEW side
    PROVE  /\ CollOf(t) \in Nat /\ OiOf(t) \in Nat
           /\ SideOiOf(t, side) \in Nat /\ EscrowOf(o) \in Nat
<1>1. t # None => t.coll \in Nat /\ t.oi \in Nat
  BY DEF Trades
<1>2. o # None => o.size \in Nat /\ o.execFee \in Nat
  BY DEF Orders
<1> QED
  BY <1>1, <1>2, SMT DEF CollOf, OiOf, SideOiOf, EscrowOf

\* The terms of the sums are naturals.
LEMMA TermTypes ==
    ASSUME NEW tr \in Book, NEW ord \in OrderBook, NEW t, NEW side
    PROVE  /\ CollAt(tr) \in [Slots -> Nat] /\ OiAt(tr) \in [Slots -> Nat]
           /\ WalletAt(tr, t) \in [Slots -> Nat] /\ SideAt(tr, side) \in [Slots -> Nat]
           /\ EscrowAt(ord) \in [Slots -> Nat]
<1>1. ASSUME NEW s \in Slots
      PROVE  /\ CollOf(tr[s]) \in Nat /\ OiOf(tr[s]) \in Nat
             /\ SideOiOf(tr[s], side) \in Nat /\ EscrowOf(ord[s]) \in Nat
  <2>1. tr[s] \in Trades \cup {None} /\ ord[s] \in Orders \cup {None}
    BY DEF Book, OrderBook
  <2> QED
    BY <2>1, PlaceTypes
<1> QED
  BY <1>1 DEF CollAt, OiAt, WalletAt, SideAt, EscrowAt

\* So are the sums.
LEMMA SumTypes ==
    ASSUME NEW tr \in Book, NEW ord \in OrderBook, NEW t, NEW side
    PROVE  /\ SumFunction(CollAt(tr)) \in Nat /\ SumFunction(OiAt(tr)) \in Nat
           /\ SumFunction(WalletAt(tr, t)) \in Nat /\ SumFunction(SideAt(tr, side)) \in Nat
           /\ SumFunction(EscrowAt(ord)) \in Nat
<1>1. /\ CollAt(tr) \in [Slots -> Nat] /\ OiAt(tr) \in [Slots -> Nat]
      /\ WalletAt(tr, t) \in [Slots -> Nat] /\ SideAt(tr, side) \in [Slots -> Nat]
      /\ EscrowAt(ord) \in [Slots -> Nat]
  BY TermTypes
<1> QED
  BY <1>1, SlotsFinite, SumType

\* No trade has more open interest than there is on its side, of its wallet and
\* in all.
LEMMA InterestIsPart ==
    ASSUME NEW tr \in Book, NEW c \in Slots, tr[c] # None
    PROVE  /\ tr[c].oi <= SumFunction(OiAt(tr))
           /\ tr[c].oi <= SumFunction(WalletAt(tr, c[1]))
           /\ tr[c].oi <= SumFunction(SideAt(tr, tr[c].side))
<1> DEFINE side == tr[c].side
           f == OiAt(tr)
           g == WalletAt(tr, c[1])
           h == SideAt(tr, side)
<1>1. f \in [Slots -> Nat] /\ g \in [Slots -> Nat] /\ h \in [Slots -> Nat]
  <2>1. [s \in Slots |-> None] \in OrderBook
    BY DEF OrderBook
  <2> QED
    BY <2>1, TermTypes
<1>2. f[c] = tr[c].oi /\ g[c] = tr[c].oi /\ h[c] = tr[c].oi
  BY DEF OiAt, WalletAt, SideAt, OiOf, SideOiOf
<1> HIDE DEF f, g, h
<1>3. /\ f[c] <= SumFunction(f) /\ g[c] <= SumFunction(g) /\ h[c] <= SumFunction(h)
  BY <1>1, SlotsFinite, SumAtLeast
<1> QED
  BY <1>2, <1>3 DEF f, g, h, side

\* The sums over trades when slot c goes from what tr has there to new.
Moved(tr, tr2, c, new) ==
    /\ SumFunction(CollAt(tr2)) = SumFunction(CollAt(tr)) - CollOf(tr[c]) + CollOf(new)
    /\ SumFunction(OiAt(tr2)) = SumFunction(OiAt(tr)) - OiOf(tr[c]) + OiOf(new)
    /\ \A t : SumFunction(WalletAt(tr2, t)) =
         IF c[1] = t
         THEN SumFunction(WalletAt(tr, t)) - OiOf(tr[c]) + OiOf(new)
         ELSE SumFunction(WalletAt(tr, t))
    /\ \A side : SumFunction(SideAt(tr2, side)) =
         SumFunction(SideAt(tr, side)) - SideOiOf(tr[c], side) + SideOiOf(new, side)

\* A change in one slot changes each sum by as much as that slot's term.
LEMMA BookChanges ==
    ASSUME NEW tr \in Book, NEW c \in Slots, NEW new \in Trades \cup {None},
           NEW tr2, tr2 = [tr EXCEPT ![c] = new]
    PROVE  tr2 \in Book /\ Moved(tr, tr2, c, new)
<1>0. [s \in Slots |-> None] \in OrderBook
  BY DEF OrderBook
<1>1. /\ tr2 \in Book /\ tr2[c] = new
      /\ \A s \in Slots \ {c} : tr2[s] = tr[s]
  BY DEF Book
<1>2. SumFunction(CollAt(tr2)) = SumFunction(CollAt(tr)) - CollOf(tr[c]) + CollOf(new)
  <2> DEFINE f == CollAt(tr)
             h == CollAt(tr2)
  <2>1. f \in [Slots -> Nat] /\ h \in [Slots -> Nat]
    BY <1>0, <1>1, TermTypes
  <2>2. /\ f[c] = CollOf(tr[c]) /\ h[c] = CollOf(new)
        /\ \A s \in Slots \ {c} : h[s] = f[s]
    BY <1>1 DEF CollAt
  <2> HIDE DEF f, h
  <2>3. SumFunction(h) = SumFunction(f) - f[c] + h[c]
    BY <2>1, <2>2, SlotsFinite, SumChanges
  <2> QED
    BY <2>2, <2>3 DEF f, h
<1>3. SumFunction(OiAt(tr2)) = SumFunction(OiAt(tr)) - OiOf(tr[c]) + OiOf(new)
  <2> DEFINE f == OiAt(tr)
             h == OiAt(tr2)
  <2>1. f \in [Slots -> Nat] /\ h \in [Slots -> Nat]
    BY <1>0, <1>1, TermTypes
  <2>2. /\ f[c] = OiOf(tr[c]) /\ h[c] = OiOf(new)
        /\ \A s \in Slots \ {c} : h[s] = f[s]
    BY <1>1 DEF OiAt
  <2> HIDE DEF f, h
  <2>3. SumFunction(h) = SumFunction(f) - f[c] + h[c]
    BY <2>1, <2>2, SlotsFinite, SumChanges
  <2> QED
    BY <2>2, <2>3 DEF f, h
<1>4. ASSUME NEW t
      PROVE  SumFunction(WalletAt(tr2, t)) =
               IF c[1] = t THEN SumFunction(WalletAt(tr, t)) - OiOf(tr[c]) + OiOf(new)
                           ELSE SumFunction(WalletAt(tr, t))
  <2> DEFINE f == WalletAt(tr, t)
             h == WalletAt(tr2, t)
  <2>1. f \in [Slots -> Nat] /\ h \in [Slots -> Nat]
    BY <1>0, <1>1, TermTypes
  <2>2. /\ c[1] = t => f[c] = OiOf(tr[c]) /\ h[c] = OiOf(new)
        /\ c[1] # t => f[c] = 0 /\ h[c] = 0
        /\ \A s \in Slots \ {c} : h[s] = f[s]
    BY <1>1 DEF WalletAt
  <2> HIDE DEF f, h
  <2>3. SumFunction(h) = SumFunction(f) - f[c] + h[c]
    BY <2>1, <2>2, SlotsFinite, SumChanges
  <2>4. SumFunction(f) \in Nat
    BY <2>1, SlotsFinite, SumType
  <2>5. c[1] # t => SumFunction(h) = SumFunction(f)
    BY <2>2, <2>3, <2>4, SMT
  <2> QED
    BY <2>2, <2>3, <2>5 DEF f, h
<1>5. ASSUME NEW side
      PROVE  SumFunction(SideAt(tr2, side)) =
               SumFunction(SideAt(tr, side)) - SideOiOf(tr[c], side) + SideOiOf(new, side)
  <2> DEFINE f == SideAt(tr, side)
             h == SideAt(tr2, side)
  <2>1. f \in [Slots -> Nat] /\ h \in [Slots -> Nat]
    BY <1>0, <1>1, TermTypes
  <2>2. /\ f[c] = SideOiOf(tr[c], side) /\ h[c] = SideOiOf(new, side)
        /\ \A s \in Slots \ {c} : h[s] = f[s]
    BY <1>1 DEF SideAt
  <2> HIDE DEF f, h
  <2>3. SumFunction(h) = SumFunction(f) - f[c] + h[c]
    BY <2>1, <2>2, SlotsFinite, SumChanges
  <2> QED
    BY <2>2, <2>3 DEF f, h
<1> QED
  BY <1>1, <1>2, <1>3, <1>4, <1>5, Zenon DEF Moved

\* The sum over orders when slot c goes from what ord has there to new.
Queued(ord, ord2, c, new) ==
    SumFunction(EscrowAt(ord2)) = SumFunction(EscrowAt(ord)) - EscrowOf(ord[c]) + EscrowOf(new)

\* As BookChanges, of the orders.
LEMMA OrdersChange ==
    ASSUME NEW ord \in OrderBook, NEW c \in Slots, NEW new \in Orders \cup {None},
           NEW ord2, ord2 = [ord EXCEPT ![c] = new]
    PROVE  ord2 \in OrderBook /\ Queued(ord, ord2, c, new)
<1>0. [s \in Slots |-> None] \in Book
  BY DEF Book
<1>1. /\ ord2 \in OrderBook /\ ord2[c] = new
      /\ \A s \in Slots \ {c} : ord2[s] = ord[s]
  BY DEF OrderBook
<1> DEFINE f == EscrowAt(ord)
           h == EscrowAt(ord2)
<1>2. f \in [Slots -> Nat] /\ h \in [Slots -> Nat]
  BY <1>0, <1>1, TermTypes
<1>3. /\ f[c] = EscrowOf(ord[c]) /\ h[c] = EscrowOf(new)
      /\ \A s \in Slots \ {c} : h[s] = f[s]
  BY <1>1 DEF EscrowAt
<1> HIDE DEF f, h
<1>4. SumFunction(h) = SumFunction(f) - f[c] + h[c]
  BY <1>2, <1>3, SlotsFinite, SumChanges
<1> QED
  BY <1>1, <1>3, <1>4 DEF f, h, Queued

-----------------------------------------------------------------------------
(* The inductive invariant: the sums are those above. *)

\* A slot is an order or a trade.
OneUse == \A s \in Slots : order[s] = None \/ trade[s] = None

Counted ==
    /\ totalOI = SumFunction(OiAt(trade))
    /\ \A t \in Traders : walletOI[t] = SumFunction(WalletAt(trade, t))
    /\ \A side \in Sides : sideOI[side] = SumFunction(SideAt(trade, side))

\* A trade of no more than its open interest, in a block.
Within(t) ==
    t # None => /\ Leveraged(t.coll, t.lev) <= t.oi
                /\ t.oi <= BlockOILimit

Backed ==
    /\ totalOI <= ReservedOf(vault)
    /\ \A s \in Slots : Within(trade[s])

StorageBalanced ==
    storageUSDC + unbacked = SumFunction(EscrowAt(order)) + govFees + devFees + rebates

ManagerBalanced ==
    Balance(vault) + advanced = SumFunction(CollAt(trade)) + tokensToClaim

SettlementIInv ==
    TypeOK /\ OneUse /\ Counted /\ Backed /\ StorageBalanced /\ ManagerBalanced

\* The variables one by one.
LEMMA SettlementTypes ==
    ASSUME TypeOK
    PROVE  /\ vault \in Ledger /\ order \in OrderBook /\ trade \in Book
           /\ storageUSDC \in Nat /\ govFees \in Nat /\ devFees \in Nat /\ rebates \in Nat
           /\ tokensToClaim \in Nat /\ totalOI \in Nat /\ unbacked \in Nat
           /\ walletOI \in [Traders -> Nat]
           /\ sideOI \in [Sides -> Nat] /\ groupOI \in [Sides -> Nat]
           /\ blockOI \in 0 .. BlockOILimit
           /\ advanced \in Int /\ steps \in 0 .. MaxSteps
           /\ ReservedOf(vault) \in Nat /\ Balance(vault) \in Int
<1>1. vault \in Ledger
  BY DEF TypeOK
<1>2. ReservedOf(vault) \in Nat /\ Balance(vault) \in Int
  BY <1>1, SMT DEF Ledger, ReservedOf, Balance
<1> QED
  BY <1>2 DEF TypeOK, OrderBook, Book

\* And back.
LEMMA TypesTogether ==
    ASSUME vault' \in Ledger, order' \in OrderBook, trade' \in Book,
           storageUSDC' \in Nat, govFees' \in Nat, devFees' \in Nat, rebates' \in Nat,
           tokensToClaim' \in Nat, totalOI' \in Nat, unbacked' \in Nat,
           walletOI' \in [Traders -> Nat],
           sideOI' \in [Sides -> Nat], groupOI' \in [Sides -> Nat],
           blockOI' \in 0 .. BlockOILimit,
           advanced' \in Int, steps' \in 0 .. MaxSteps
    PROVE  TypeOK'
BY DEF TypeOK, OrderBook, Book

\* The bounded number of steps.
LEMMA StepType ==
    ASSUME TypeOK, Step
    PROVE  steps' \in 0 .. MaxSteps
<1>1. steps \in 0 .. MaxSteps /\ MaxSteps \in Nat
  BY SettlementAssumption DEF TypeOK
<1>2. steps < MaxSteps /\ steps' = steps + 1
  BY DEF Step
<1> QED
  BY <1>1, <1>2, SMT

\* An order and a trade have naturals in their fields.
LEMMA FieldTypes ==
    ASSUME TypeOK, NEW s \in Slots
    PROVE  /\ s[1] \in Traders
           /\ trade[s] \in Trades \cup {None} /\ order[s] \in Orders \cup {None}
           /\ trade[s] # None =>
                /\ trade[s].coll \in Nat /\ trade[s].lev \in Nat /\ trade[s].oi \in Nat
                /\ trade[s].side \in Sides
           /\ order[s] # None =>
                /\ order[s].size \in Nat /\ order[s].lev \in Nat
                /\ order[s].execFee \in Nat /\ order[s].side \in Sides
<1>1. trade[s] \in Trades \cup {None} /\ order[s] \in Orders \cup {None}
  BY DEF TypeOK
<1>2. s[1] \in Traders
  BY DEF Slots
<1> QED
  BY <1>1, <1>2, Zenon DEF Trades, Orders

\* The group's interest saturates at 0.
LEMMA GroupType ==
    ASSUME TypeOK, NEW side \in Sides, NEW amount \in Nat, ReduceGroupOI(side, amount)
    PROVE  groupOI' \in [Sides -> Nat]
<1>1. groupOI \in [Sides -> Nat] /\ groupOI[side] \in Nat
  BY DEF TypeOK
<1>2. groupOI[side] - AtMost(amount, groupOI[side]) \in Nat
  BY <1>1, SMT DEF AtMost
<1>3. groupOI' = [groupOI EXCEPT ![side] = groupOI[side] - AtMost(amount, groupOI[side])]
  BY Zenon DEF ReduceGroupOI
<1> QED
  BY <1>1, <1>2, <1>3

\* A trade that loses interest takes it off the four counters: none of them is
\* clamped, since each has at least the trade's own.
LEMMA InterestReduced ==
    ASSUME SettlementIInv, NEW c \in Slots, trade[c] # None,
           NEW amount \in Nat, amount <= trade[c].oi,
           ReduceOpenInterest(c, trade[c].side, amount),
           NEW new \in Trades \cup {None}, OiOf(new) = trade[c].oi - amount,
           new # None => new.side = trade[c].side,
           trade' = [trade EXCEPT ![c] = new]
    PROVE  /\ Counted' /\ totalOI' = totalOI - amount /\ totalOI' \in Nat
           /\ walletOI' \in [Traders -> Nat] /\ sideOI' \in [Sides -> Nat]
           /\ blockOI' \in 0 .. BlockOILimit
<1>0. /\ SumFunction(OiAt(trade'))
           = SumFunction(OiAt(trade)) - OiOf(trade[c]) + OiOf(new)
      /\ \A t : SumFunction(WalletAt(trade', t)) =
           IF c[1] = t THEN SumFunction(WalletAt(trade, t)) - OiOf(trade[c]) + OiOf(new)
                       ELSE SumFunction(WalletAt(trade, t))
      /\ \A side : SumFunction(SideAt(trade', side)) =
           SumFunction(SideAt(trade, side)) - SideOiOf(trade[c], side) + SideOiOf(new, side)
  <2>1. trade \in Book
    BY SettlementTypes DEF SettlementIInv
  <2>2. Moved(trade, trade', c, new)
    BY <2>1, BookChanges
  <2> QED
    BY <2>2, Zenon DEF Moved
<1> DEFINE d == trade[c].side
           w == c[1]
<1>1. /\ trade \in Book /\ totalOI \in Nat /\ blockOI \in 0 .. BlockOILimit
      /\ walletOI \in [Traders -> Nat] /\ sideOI \in [Sides -> Nat] /\ BlockOILimit \in Nat
  BY SettlementTypes, SettlementAssumption DEF SettlementIInv
<1>2. trade[c].oi \in Nat /\ d \in Sides /\ w \in Traders
  BY FieldTypes DEF SettlementIInv
<1>3. /\ totalOI = SumFunction(OiAt(trade))
      /\ \A t \in Traders : walletOI[t] = SumFunction(WalletAt(trade, t))
      /\ \A side \in Sides : sideOI[side] = SumFunction(SideAt(trade, side))
  BY DEF SettlementIInv, Counted
<1>4. trade[c].oi <= totalOI /\ trade[c].oi <= walletOI[w] /\ trade[c].oi <= sideOI[d]
  BY <1>1, <1>2, <1>3, InterestIsPart
<1>5. totalOI \in Nat /\ walletOI[w] \in Nat /\ sideOI[d] \in Nat
  BY <1>1, <1>2
<1>6. AtMost(amount, sideOI[d]) = amount
  BY <1>2, <1>4, <1>5, SMT DEF AtMost
<1>7. /\ totalOI' = totalOI - amount
      /\ walletOI' = [walletOI EXCEPT ![w] = walletOI[w] - amount]
      /\ sideOI' = [sideOI EXCEPT ![d] = sideOI[d] - amount]
      /\ blockOI + amount <= BlockOILimit /\ blockOI' = blockOI + amount
  BY <1>6, Zenon DEF ReduceOpenInterest, MoveBlockOI
<1>8. /\ totalOI - amount \in Nat /\ walletOI[w] - amount \in Nat /\ sideOI[d] - amount \in Nat
  BY <1>2, <1>4, <1>5, SMT
<1>9. blockOI' \in 0 .. BlockOILimit
  BY <1>1, <1>7, SMT
<1>10. walletOI' \in [Traders -> Nat] /\ sideOI' \in [Sides -> Nat]
  BY <1>1, <1>7, <1>8
<1>11. /\ OiOf(trade[c]) = trade[c].oi
       /\ SideOiOf(trade[c], d) = trade[c].oi
       /\ SideOiOf(new, d) = trade[c].oi - amount
       /\ \A side : side # d => SideOiOf(trade[c], side) = 0 /\ SideOiOf(new, side) = 0
  BY DEF OiOf, SideOiOf
<1>12. /\ SumFunction(OiAt(trade'))
            = SumFunction(OiAt(trade)) - OiOf(trade[c]) + OiOf(new)
       /\ \A t : SumFunction(WalletAt(trade', t)) =
            IF w = t THEN SumFunction(WalletAt(trade, t)) - OiOf(trade[c]) + OiOf(new)
                     ELSE SumFunction(WalletAt(trade, t))
       /\ \A side : SumFunction(SideAt(trade', side)) =
            SumFunction(SideAt(trade, side)) - SideOiOf(trade[c], side) + SideOiOf(new, side)
  BY <1>0
<1> HIDE DEF d, w
<1>13. totalOI' = SumFunction(OiAt(trade'))
  BY <1>2, <1>3, <1>5, <1>7, <1>11, <1>12, SMT
<1>14. ASSUME NEW t \in Traders PROVE walletOI'[t] = SumFunction(WalletAt(trade', t))
  <2>1. CASE w = t
    <3>1. walletOI'[t] = walletOI[w] - amount
      BY <2>1, <1>1, <1>2, <1>7
    <3>2. SumFunction(WalletAt(trade', t)) = walletOI[w] - trade[c].oi + (trade[c].oi - amount)
      BY <2>1, <1>2, <1>3, <1>11, <1>12
    <3> QED
      BY <3>1, <3>2, <1>2, <1>5, SMT
  <2>2. CASE w # t
    BY <2>2, <1>1, <1>3, <1>7, <1>12
  <2> QED
    BY <2>1, <2>2
<1>15. ASSUME NEW side \in Sides PROVE sideOI'[side] = SumFunction(SideAt(trade', side))
  <2>0. sideOI[side] \in Nat
    BY <1>1
  <2>1. CASE side = d
    <3>1. sideOI'[side] = sideOI[d] - amount
      BY <2>1, <1>1, <1>2, <1>7
    <3>2. SumFunction(SideAt(trade', side)) = sideOI[d] - trade[c].oi + (trade[c].oi - amount)
      BY <2>1, <1>2, <1>3, <1>11, <1>12
    <3> QED
      BY <3>1, <3>2, <1>2, <1>5, SMT
  <2>2. CASE side # d
    <3>1. sideOI'[side] = sideOI[side]
      BY <2>2, <1>1, <1>7
    <3>2. SumFunction(SideAt(trade', side)) = sideOI[side] - 0 + 0
      BY <2>2, <1>3, <1>11, <1>12
    <3> QED
      BY <3>1, <3>2, <2>0, SMT
  <2> QED
    BY <2>1, <2>2
<1>16. Counted'
  BY <1>13, <1>14, <1>15 DEF Counted
<1> QED
  BY <1>7, <1>8, <1>9, <1>10, <1>16

\* A trade is not the empty place, nor is an order.
LEMMA NoneIsNothing == None \notin Trades /\ None \notin Orders
<1>1. None.side = "none" /\ "none" \notin Sides
  BY DEF None, Sides
<1>2. \A r \in Trades \cup Orders : r.side \in Sides
  BY DEF Trades, Orders
<1> QED
  BY <1>1, <1>2

\* A new trade adds its interest to the four counters.
LEMMA InterestAdded ==
    ASSUME SettlementIInv, NEW c \in Slots, trade[c] = None,
           NEW amount \in Nat, NEW d \in Sides, AddOpenInterest(c, d, amount),
           NEW new \in Trades, new.oi = amount, new.side = d,
           trade' = [trade EXCEPT ![c] = new]
    PROVE  /\ Counted' /\ totalOI' = totalOI + amount /\ totalOI' \in Nat
           /\ walletOI' \in [Traders -> Nat] /\ sideOI' \in [Sides -> Nat]
           /\ blockOI' \in 0 .. BlockOILimit /\ amount <= BlockOILimit
<1>0. /\ trade \in Book /\ totalOI \in Nat /\ blockOI \in 0 .. BlockOILimit
      /\ walletOI \in [Traders -> Nat] /\ sideOI \in [Sides -> Nat] /\ BlockOILimit \in Nat
  BY SettlementTypes, SettlementAssumption DEF SettlementIInv
<1>1. Moved(trade, trade', c, new)
  BY <1>0, BookChanges
<1>2. /\ OiOf(trade[c]) = 0 /\ OiOf(new) = amount
      /\ SideOiOf(new, d) = amount
      /\ \A side : SideOiOf(trade[c], side) = 0
      /\ \A side : side # d => SideOiOf(new, side) = 0
  BY NoneIsNothing DEF OiOf, SideOiOf
<1>3. /\ totalOI = SumFunction(OiAt(trade))
      /\ \A t \in Traders : walletOI[t] = SumFunction(WalletAt(trade, t))
      /\ \A side \in Sides : sideOI[side] = SumFunction(SideAt(trade, side))
  BY DEF SettlementIInv, Counted
<1>4. /\ SumFunction(OiAt(trade')) = totalOI - 0 + amount
      /\ \A t \in Traders : SumFunction(WalletAt(trade', t)) =
           IF c[1] = t THEN walletOI[t] - 0 + amount ELSE walletOI[t]
      /\ \A side \in Sides : SumFunction(SideAt(trade', side)) =
           sideOI[side] - 0 + SideOiOf(new, side)
  BY <1>1, <1>2, <1>3, ZenonT(60) DEF Moved
<1> DEFINE w == c[1]
<1>5. w \in Traders
  BY FieldTypes DEF SettlementIInv
<1>6. /\ totalOI' = totalOI + amount
      /\ walletOI' = [walletOI EXCEPT ![w] = walletOI[w] + amount]
      /\ sideOI' = [sideOI EXCEPT ![d] = sideOI[d] + amount]
      /\ blockOI + amount <= BlockOILimit /\ blockOI' = blockOI + amount
  BY Zenon DEF AddOpenInterest, MoveBlockOI
<1> HIDE DEF w
<1>7. /\ totalOI + amount \in Nat /\ walletOI[w] + amount \in Nat /\ sideOI[d] + amount \in Nat
      /\ blockOI' \in 0 .. BlockOILimit /\ amount <= BlockOILimit
  BY <1>0, <1>5, <1>6, SMT
<1>8. walletOI' \in [Traders -> Nat] /\ sideOI' \in [Sides -> Nat]
  BY <1>0, <1>6, <1>7
<1>9. totalOI' = SumFunction(OiAt(trade'))
  BY <1>0, <1>4, <1>6, SMT
<1>10. ASSUME NEW t \in Traders PROVE walletOI'[t] = SumFunction(WalletAt(trade', t))
  <2>1. walletOI[t] \in Nat
    BY <1>0
  <2>2. walletOI'[t] = IF w = t THEN walletOI[t] + amount ELSE walletOI[t]
    BY <1>0, <1>5, <1>6
  <2>3. SumFunction(WalletAt(trade', t)) =
          IF w = t THEN walletOI[t] - 0 + amount ELSE walletOI[t]
    BY <1>4 DEF w
  <2> QED
    BY <2>1, <2>2, <2>3, SMT
<1>11. ASSUME NEW side \in Sides PROVE sideOI'[side] = SumFunction(SideAt(trade', side))
  <2>1. sideOI[side] \in Nat
    BY <1>0
  <2>2. sideOI'[side] = IF side = d THEN sideOI[side] + amount ELSE sideOI[side]
    BY <1>0, <1>6
  <2>3. SumFunction(SideAt(trade', side)) =
          sideOI[side] - 0 + (IF side = d THEN amount ELSE 0)
    BY <1>2, <1>4
  <2> QED
    BY <2>1, <2>2, <2>3, SMT
<1>12. Counted'
  BY <1>9, <1>10, <1>11 DEF Counted
<1> QED
  BY <1>6, <1>7, <1>8, <1>12

\* A trade that keeps its interest leaves the counters exact.
LEMMA InterestKept ==
    ASSUME SettlementIInv, NEW c \in Slots, trade[c] # None,
           NEW new \in Trades, new.oi = trade[c].oi, new.side = trade[c].side,
           trade' = [trade EXCEPT ![c] = new],
           UNCHANGED <<totalOI, walletOI, sideOI>>
    PROVE  Counted'
<1>0. /\ trade \in Book /\ totalOI \in Nat
      /\ walletOI \in [Traders -> Nat] /\ sideOI \in [Sides -> Nat]
  BY SettlementTypes DEF SettlementIInv
<1>1. Moved(trade, trade', c, new)
  BY <1>0, BookChanges
<1>2. trade[c].oi \in Nat
  BY FieldTypes DEF SettlementIInv
<1> DEFINE oi == trade[c].oi
<1>3. /\ OiOf(trade[c]) = oi /\ OiOf(new) = oi
      /\ \A side : SideOiOf(new, side) = SideOiOf(trade[c], side)
      /\ \A side : SideOiOf(new, side) \in Nat
  BY <1>2, NoneIsNothing DEF OiOf, SideOiOf
<1>4. /\ totalOI = SumFunction(OiAt(trade))
      /\ \A t \in Traders : walletOI[t] = SumFunction(WalletAt(trade, t))
      /\ \A side \in Sides : sideOI[side] = SumFunction(SideAt(trade, side))
  BY DEF SettlementIInv, Counted
<1>5. /\ SumFunction(OiAt(trade')) = totalOI - oi + oi
      /\ \A t \in Traders : SumFunction(WalletAt(trade', t)) =
           IF c[1] = t THEN walletOI[t] - oi + oi ELSE walletOI[t]
      /\ \A side \in Sides : SumFunction(SideAt(trade', side)) =
           sideOI[side] - SideOiOf(new, side) + SideOiOf(new, side)
  BY <1>1, <1>3, <1>4, Zenon DEF Moved
<1> HIDE DEF oi
<1>6. totalOI' = SumFunction(OiAt(trade'))
  BY <1>0, <1>2, <1>5, SMT DEF oi
<1>7. ASSUME NEW t \in Traders PROVE walletOI'[t] = SumFunction(WalletAt(trade', t))
  <2>1. walletOI[t] \in Nat /\ oi \in Nat
    BY <1>0, <1>2 DEF oi
  <2>2. walletOI'[t] = walletOI[t]
    OBVIOUS
  <2>3. SumFunction(WalletAt(trade', t)) =
          IF c[1] = t THEN walletOI[t] - oi + oi ELSE walletOI[t]
    BY <1>5
  <2> QED
    BY <2>1, <2>2, <2>3, SMT
<1>8. ASSUME NEW side \in Sides PROVE sideOI'[side] = SumFunction(SideAt(trade', side))
  <2>1. sideOI[side] \in Nat /\ SideOiOf(new, side) \in Nat
    BY <1>0, <1>3
  <2>2. sideOI'[side] = sideOI[side]
    OBVIOUS
  <2>3. SumFunction(SideAt(trade', side)) =
          sideOI[side] - SideOiOf(new, side) + SideOiOf(new, side)
    BY <1>5
  <2> QED
    BY <2>1, <2>2, <2>3, SMT
<1> QED
  BY <1>6, <1>7, <1>8 DEF Counted

\* The other slots stay within their interest.
LEMMA OthersStay ==
    ASSUME SettlementIInv, NEW c \in Slots, NEW new,
           trade' = [trade EXCEPT ![c] = new], Within(new)
    PROVE  \A s \in Slots : Within(trade'[s])
<1>1. trade \in Book
  BY SettlementTypes DEF SettlementIInv
<1>2. \A s \in Slots : Within(trade[s])
  BY DEF SettlementIInv, Backed
<1>3. ASSUME NEW s \in Slots PROVE Within(trade'[s])
  <2>1. trade'[s] = IF s = c THEN new ELSE trade[s]
    BY <1>1 DEF Book
  <2> QED
    BY <1>2, <2>1
<1> QED
  BY <1>3

-----------------------------------------------------------------------------
(* The invariant is kept by each action: orders. *)

\* The USDC of a new order is in TradingStorage.
LEMMA OpenTradeKeeps ==
    ASSUME SettlementIInv, NEW s \in Slots, NEW size \in Nat, NEW lev \in Nat,
           NEW side \in Sides, NEW execFee \in Nat, OpenTrade(s, size, lev, side, execFee)
    PROVE  SettlementIInv'
<1> DEFINE new == [size |-> size, lev |-> lev, side |-> side, execFee |-> execFee]
           escrow == SumFunction(EscrowAt(order))
<1>0. TypeOK /\ OneUse /\ Counted /\ Backed /\ StorageBalanced /\ ManagerBalanced
  BY DEF SettlementIInv
<1>1. /\ order[s] = None /\ trade[s] = None
      /\ order' = [order EXCEPT ![s] = new]
      /\ storageUSDC' = storageUSDC + size + execFee
      /\ vault' = vault /\ trade' = trade /\ govFees' = govFees /\ devFees' = devFees
      /\ rebates' = rebates /\ tokensToClaim' = tokensToClaim /\ totalOI' = totalOI
      /\ walletOI' = walletOI /\ sideOI' = sideOI /\ groupOI' = groupOI
      /\ blockOI' = blockOI /\ unbacked' = unbacked /\ advanced' = advanced
  BY DEF OpenTrade, IsOrder, IsTrade, OpenInterest
<1>2. order \in OrderBook /\ trade \in Book /\ storageUSDC \in Nat /\ unbacked \in Nat
      /\ govFees \in Nat /\ devFees \in Nat /\ rebates \in Nat
  BY <1>0, SettlementTypes
<1>3. new \in Orders
  BY DEF Orders
<1> HIDE DEF new
<1>4. order' \in OrderBook /\ Queued(order, order', s, new)
  BY <1>1, <1>2, <1>3, OrdersChange
<1>5. escrow \in Nat
  BY <1>2, SumTypes
<1>6. EscrowOf(order[s]) = 0 /\ EscrowOf(new) = size + execFee
  BY <1>1, <1>3, NoneIsNothing DEF EscrowOf, new
<1>7. SumFunction(EscrowAt(order')) = escrow - 0 + (size + execFee)
  BY <1>4, <1>6 DEF Queued
<1>8. storageUSDC + unbacked = escrow + govFees + devFees + rebates
  BY <1>0 DEF StorageBalanced
<1> HIDE DEF escrow
<1>9. storageUSDC' + unbacked = SumFunction(EscrowAt(order')) + govFees + devFees + rebates
  BY <1>1, <1>2, <1>5, <1>7, <1>8, SMT
<1>10. StorageBalanced'
  BY <1>1, <1>9 DEF StorageBalanced
<1>11. storageUSDC' \in Nat
  BY <1>1, <1>2, SMT
<1>12. steps' \in 0 .. MaxSteps
  BY <1>0, StepType DEF OpenTrade
<1>13. TypeOK'
  BY <1>0, <1>1, <1>4, <1>11, <1>12, SettlementTypes, TypesTogether
<1>14. OneUse'
  BY <1>0, <1>1, <1>2 DEF OneUse, OrderBook
<1>15. Counted' /\ Backed' /\ ManagerBalanced'
  BY <1>0, <1>1 DEF Counted, Backed, ManagerBalanced
<1> QED
  BY <1>10, <1>13, <1>14, <1>15 DEF SettlementIInv

\* What a refunded order had in TradingStorage is what it gets.
LEMMA RefundKeeps ==
    ASSUME SettlementIInv, NEW s \in Slots, Refund(s)
    PROVE  SettlementIInv'
<1> DEFINE amount == order[s].size + order[s].execFee
           escrow == SumFunction(EscrowAt(order))
<1>0. TypeOK /\ OneUse /\ Counted /\ Backed /\ StorageBalanced /\ ManagerBalanced
  BY DEF SettlementIInv
<1>1. /\ order[s] # None /\ amount <= storageUSDC
      /\ order' = [order EXCEPT ![s] = None]
      /\ storageUSDC' = storageUSDC - amount
      /\ vault' = vault /\ trade' = trade /\ govFees' = govFees /\ devFees' = devFees
      /\ rebates' = rebates /\ tokensToClaim' = tokensToClaim /\ totalOI' = totalOI
      /\ walletOI' = walletOI /\ sideOI' = sideOI /\ groupOI' = groupOI
      /\ blockOI' = blockOI /\ unbacked' = unbacked /\ advanced' = advanced
  BY DEF Refund, IsOrder, OpenInterest
<1>2. order \in OrderBook /\ trade \in Book /\ storageUSDC \in Nat /\ unbacked \in Nat
      /\ govFees \in Nat /\ devFees \in Nat /\ rebates \in Nat
  BY <1>0, SettlementTypes
<1>3. amount \in Nat
  BY <1>0, <1>1, FieldTypes, SMT
<1>4. order' \in OrderBook /\ Queued(order, order', s, None)
  BY <1>1, <1>2, OrdersChange
<1>5. escrow \in Nat
  BY <1>2, SumTypes
<1>6. EscrowOf(order[s]) = amount /\ EscrowOf(None) = 0
  BY <1>1 DEF EscrowOf
<1>7. SumFunction(EscrowAt(order')) = escrow - amount + 0
  BY <1>4, <1>6 DEF Queued
<1>8. storageUSDC + unbacked = escrow + govFees + devFees + rebates
  BY <1>0 DEF StorageBalanced
<1> HIDE DEF escrow, amount
<1>9. storageUSDC' + unbacked = SumFunction(EscrowAt(order')) + govFees + devFees + rebates
  BY <1>1, <1>2, <1>3, <1>5, <1>7, <1>8, SMT
<1>10. StorageBalanced'
  BY <1>1, <1>9 DEF StorageBalanced
<1>11. storageUSDC' \in Nat
  BY <1>1, <1>2, <1>3, SMT
<1>12. steps' \in 0 .. MaxSteps
  BY <1>0, StepType DEF Refund
<1>13. TypeOK'
  BY <1>0, <1>1, <1>4, <1>11, <1>12, SettlementTypes, TypesTogether
<1>14. OneUse'
  BY <1>0, <1>1, <1>2 DEF OneUse, OrderBook
<1>15. Counted' /\ Backed' /\ ManagerBalanced'
  BY <1>0, <1>1 DEF Counted, Backed, ManagerBalanced
<1> QED
  BY <1>10, <1>13, <1>14, <1>15 DEF SettlementIInv

\* An opening moves the USDC of its order to the manager but for the fees, and
\* reserves what it adds to the open interest.
LEMMA RegisterTradeKeeps ==
    ASSUME SettlementIInv, NEW s \in Slots, NEW fee \in Nat, NEW rebate \in Nat,
           RegisterTrade(s, fee, rebate)
    PROVE  SettlementIInv'
<1> DEFINE o         == order[s]
           coll      == o.size - fee
           leveraged == Leveraged(coll, o.lev)
           toVault   == VaultAllocation(fee)
           received  == Receive(vault, toVault)
           allocated == AllocateRewards(received, toVault)
           reserved  == Reserve(allocated, leveraged)
           moved     == toVault + coll + o.execFee
           new       == [coll |-> coll, lev |-> o.lev, side |-> o.side, oi |-> leveraged]
           escrow    == SumFunction(EscrowAt(order))
           all       == SumFunction(CollAt(trade))
<1>0. TypeOK /\ OneUse /\ Counted /\ Backed /\ StorageBalanced /\ ManagerBalanced
  BY DEF SettlementIInv
<1>1. /\ o # None /\ fee <= o.size
      /\ CanReserve(allocated, leveraged)
      /\ moved <= storageUSDC
      /\ vault' = Receive(reserved, coll + o.execFee)
      /\ storageUSDC' = storageUSDC - moved
      /\ govFees' = govFees + GovFee(fee)
      /\ devFees' = devFees + DevFee(fee)
      /\ rebates' = rebates + rebate
      /\ unbacked' = unbacked + rebate
      /\ tokensToClaim' = tokensToClaim + o.execFee
      /\ AddOpenInterest(s, o.side, leveraged)
      /\ groupOI' = [groupOI EXCEPT ![o.side] = @ + leveraged]
      /\ order' = [order EXCEPT ![s] = None]
      /\ trade' = [trade EXCEPT ![s] = new]
      /\ advanced' = advanced
  BY DEF RegisterTrade, IsOrder
<1>2. /\ vault \in Ledger /\ order \in OrderBook /\ trade \in Book
      /\ storageUSDC \in Nat /\ unbacked \in Nat /\ tokensToClaim \in Nat
      /\ govFees \in Nat /\ devFees \in Nat /\ rebates \in Nat
      /\ totalOI \in Nat /\ advanced \in Int /\ groupOI \in [Sides -> Nat]
      /\ ReservedOf(vault) \in Nat /\ Balance(vault) \in Int
  BY <1>0, SettlementTypes
<1>3. /\ o.size \in Nat /\ o.lev \in Nat /\ o.execFee \in Nat /\ o.side \in Sides
      /\ s[1] \in Traders
  BY <1>0, <1>1, FieldTypes
<1>4. trade[s] = None
  BY <1>0, <1>1 DEF OneUse
<1> HIDE DEF o
<1>5. coll \in Nat /\ coll + o.execFee \in Nat
  BY <1>1, <1>3, SMT
<1>6. leveraged \in Nat
  BY <1>3, <1>5, LeveragedType
<1>7. /\ toVault \in Nat /\ GovFee(fee) \in Nat /\ DevFee(fee) \in Nat
      /\ toVault + GovFee(fee) + DevFee(fee) = fee
  BY FeeParts
<1> HIDE DEF leveraged, toVault
\* The ledger.
<1>8. /\ received \in Ledger /\ ReservedOf(received) = ReservedOf(vault)
      /\ Balance(received) = Balance(vault) + toVault
  BY <1>2, <1>7, AccountsEffect
<1> HIDE DEF received
<1>9. /\ allocated \in Ledger /\ ReservedOf(allocated) = ReservedOf(vault)
      /\ Balance(allocated) = (Balance(vault) + toVault) - toVault
  BY <1>7, <1>8, AccountsEffect
<1> HIDE DEF allocated
<1>10. /\ reserved \in Ledger /\ ReservedOf(reserved) = ReservedOf(vault) + leveraged
       /\ Balance(reserved) = (Balance(vault) + toVault) - toVault
  BY <1>1, <1>6, <1>9, ReserveEffect
<1> HIDE DEF reserved
<1>11. /\ vault' \in Ledger /\ ReservedOf(vault') = ReservedOf(vault) + leveraged
       /\ Balance(vault') = Balance(reserved) + (coll + o.execFee)
  BY <1>1, <1>5, <1>10, AccountsEffect
<1>12. Balance(vault') = Balance(vault) + coll + o.execFee
  BY <1>2, <1>3, <1>5, <1>7, <1>10, <1>11, SMT
\* The trade.
<1>13. new \in Trades /\ new # None /\ new.coll = coll /\ new.oi = leveraged /\ new.side = o.side
  <2> HIDE DEF coll
  <2>1. new \in Trades
    BY <1>3, <1>5, <1>6 DEF Trades
  <2> QED
    BY <2>1, NoneIsNothing
<1>14. /\ Counted' /\ totalOI' = totalOI + leveraged /\ totalOI' \in Nat
       /\ walletOI' \in [Traders -> Nat] /\ sideOI' \in [Sides -> Nat]
       /\ blockOI' \in 0 .. BlockOILimit /\ leveraged <= BlockOILimit
  <2> HIDE DEF new, coll
  <2> QED
    BY <1>1, <1>3, <1>4, <1>6, <1>13, InterestAdded
<1>15. Within(new)
  <2>1. Leveraged(new.coll, new.lev) = new.oi
    BY DEF leveraged
  <2> HIDE DEF new, coll
  <2> QED
    BY <2>1, <1>6, <1>13, <1>14, SMT DEF Within
<1>16. trade' \in Book /\ Moved(trade, trade', s, new)
  <2> HIDE DEF new
  <2> QED
    BY <1>1, <1>2, <1>13, BookChanges
<1>17. /\ CollOf(trade[s]) = 0 /\ CollOf(new) = coll
  <2> HIDE DEF new, coll
  <2> QED
    BY <1>4, <1>13 DEF CollOf
<1> HIDE DEF new
<1>18. SumFunction(CollAt(trade')) = all - 0 + coll
  BY <1>16, <1>17 DEF Moved
<1>19. all \in Nat /\ escrow \in Nat
  BY <1>2, SumTypes
<1>20. Balance(vault) + advanced = all + tokensToClaim
  BY <1>0 DEF ManagerBalanced
<1>21. \A x \in Slots : Within(trade'[x])
  BY <1>1, <1>15, OthersStay
<1>22. Backed'
  <2>1. totalOI <= ReservedOf(vault)
    BY <1>0 DEF Backed
  <2>2. totalOI' <= ReservedOf(vault')
    BY <2>1, <1>2, <1>6, <1>11, <1>14, SMT
  <2> QED
    BY <2>2, <1>21 DEF Backed, ReservedOf
\* The order.
<1>23. order' \in OrderBook /\ Queued(order, order', s, None)
  BY <1>1, <1>2, OrdersChange
<1>24. EscrowOf(order[s]) = o.size + o.execFee /\ EscrowOf(None) = 0
  BY <1>1 DEF EscrowOf, o
<1>25. SumFunction(EscrowAt(order')) = escrow - (o.size + o.execFee) + 0
  BY <1>23, <1>24 DEF Queued
<1>26. storageUSDC + unbacked = escrow + govFees + devFees + rebates
  BY <1>0 DEF StorageBalanced
\* The accounts.
<1> HIDE DEF escrow, all
<1>27. Balance(vault') + advanced' = SumFunction(CollAt(trade')) + tokensToClaim'
  <2> HIDE DEF coll
  <2> QED
    BY <1>1, <1>2, <1>3, <1>5, <1>12, <1>18, <1>19, <1>20, SMT
<1>28. storageUSDC' + unbacked' =
         SumFunction(EscrowAt(order')) + govFees' + devFees' + rebates'
  BY <1>1, <1>2, <1>3, <1>5, <1>7, <1>19, <1>25, <1>26, SMT
<1>29. ManagerBalanced' /\ StorageBalanced'
  BY <1>27, <1>28 DEF ManagerBalanced, StorageBalanced, Balance
<1>30. moved \in Nat
  BY <1>3, <1>5, <1>7, SMT
<1> HIDE DEF moved, coll
<1>31. /\ storageUSDC' \in Nat /\ govFees' \in Nat /\ devFees' \in Nat /\ rebates' \in Nat
       /\ unbacked' \in Nat /\ tokensToClaim' \in Nat
  BY <1>1, <1>2, <1>3, <1>7, <1>30, SMT
<1>32. groupOI' \in [Sides -> Nat]
  <2>1. groupOI[o.side] \in Nat
    BY <1>2, <1>3
  <2>2. groupOI[o.side] + leveraged \in Nat
    BY <2>1, <1>6, SMT
  <2> QED
    BY <2>2, <1>1, <1>2
<1>33. steps' \in 0 .. MaxSteps
  BY <1>0, StepType DEF RegisterTrade
<1>34. TypeOK'
  BY <1>1, <1>2, <1>11, <1>14, <1>16, <1>23, <1>31, <1>32, <1>33, TypesTogether
<1>35. OneUse'
  BY <1>0, <1>1, <1>2 DEF OneUse, OrderBook, Book
<1> QED
  BY <1>14, <1>22, <1>29, <1>34, <1>35 DEF SettlementIInv

-----------------------------------------------------------------------------
(* Closings. *)

\* What all closings share: together the balance of the manager and what it
\* has advanced fall by the collateral that the trade loses, less the
\* executor's reward; the rebate is in TradingStorage.
LEMMA SettleEffect ==
    ASSUME SettlementIInv, NEW s \in Slots, NEW amount \in Nat, NEW gain \in Int,
           NEW rollover \in Nat, NEW fee \in Nat, NEW rebate \in Nat, NEW reward \in Nat,
           NEW reduced \in Nat,
           Settle(s, amount, gain, rollover, fee, rebate, reward, reduced)
    PROVE  /\ trade[s] # None
           /\ vault' \in Ledger
           /\ Leveraged(amount, trade[s].lev) \in Nat
           /\ ReservedOf(vault') = ReservedOf(vault) - Leveraged(amount, trade[s].lev)
           /\ (Balance(vault') + advanced') = (Balance(vault) + advanced) + reward - reduced
           /\ StorageBalanced' /\ order' = order
           /\ storageUSDC' \in Nat /\ govFees' \in Nat /\ devFees' \in Nat
           /\ rebates' \in Nat /\ unbacked' \in Nat
           /\ tokensToClaim' = tokensToClaim + reward /\ tokensToClaim' \in Nat
           /\ advanced' \in Int /\ groupOI' \in [Sides -> Nat] /\ steps' \in 0 .. MaxSteps
<1> DEFINE t        == trade[s]
           charges  == rollover + fee
           result   == TradeValue(amount, gain, charges + reward)
           value    == result.value
           pnl      == result.pnl
           rebated  == Settled(result, charges, rebate)
           released == Leveraged(amount, t.lev)
           short    == MadeUp(value)
           gained   == IF pnl > 0 THEN pnl ELSE 0
           loss     == LossOf(pnl)
<1>0. TypeOK /\ OneUse /\ Counted /\ Backed /\ StorageBalanced /\ ManagerBalanced
  BY DEF SettlementIInv
<1>1. /\ t # None
      /\ value > 0 => CanSend(vault, value)
      /\ rebate > 0 => CanRebate(Charged(result, charges), rebate)
      /\ CanRelease(rebated, released)
      /\ vault' = Release(rebated, released)
      /\ storageUSDC' = storageUSDC + rebate
      /\ rebates' = rebates + rebate
      /\ tokensToClaim' = tokensToClaim + reward
      /\ ReduceGroupOI(t.side, released)
      /\ advanced' = advanced + gained + rebate - (reduced - amount) - short
      /\ order' = order /\ govFees' = govFees /\ devFees' = devFees /\ unbacked' = unbacked
      /\ Step
  <2>1. rollover + fee + reward = charges + reward
    OBVIOUS
  <2> QED
    BY <2>1, Zenon DEF Settle, IsTrade, Charged, Settled, MadeUp
<1>2. /\ vault \in Ledger /\ order \in OrderBook
      /\ storageUSDC \in Nat /\ unbacked \in Nat /\ tokensToClaim \in Nat
      /\ govFees \in Nat /\ devFees \in Nat /\ rebates \in Nat
      /\ advanced \in Int /\ Balance(vault) \in Int
  BY <1>0, SettlementTypes
<1>3. t.lev \in Nat /\ t.side \in Sides
  BY <1>0, <1>1, FieldTypes
<1>4. released \in Nat
  BY <1>3, LeveragedType
<1>5. charges \in Nat /\ charges + reward \in Nat
  BY SMT
<1> HIDE DEF charges
<1>6. /\ value \in Nat /\ pnl \in Int
      /\ amount + pnl = value + (charges + reward)
  BY <1>5, TradeValueBalances
<1>7. result \in [value : Nat, pnl : Int]
  <2>1. CASE amount + Percentage(amount, gain) - (charges + reward)
               <= (amount * (100 - LiqThreshold)) \div 100
    BY <1>6, <2>1 DEF TradeValue
  <2>2. CASE ~(amount + Percentage(amount, gain) - (charges + reward)
                 <= (amount * (100 - LiqThreshold)) \div 100)
    BY <1>6, <2>2 DEF TradeValue
  <2> QED
    BY <2>1, <2>2
<1> HIDE DEF t, result, released
<1>8. SettledTo(vault', result, charges, rebate, released)
  BY <1>1, <1>2, <1>4, <1>5, <1>7, SettledLedger
<1>9. gained \in Nat /\ loss \in Nat /\ gained - loss = pnl
  BY <1>6, SMT DEF LossOf
<1> HIDE DEF value, pnl, short, gained, loss, rebated
<1>10. /\ vault' \in Ledger /\ ReservedOf(vault') = ReservedOf(vault) - released
       /\ short \in Nat
       /\ Balance(vault') = Balance(vault) + short - value - loss - charges - rebate
  BY <1>8 DEF SettledTo, value, pnl, short, loss
<1>11. advanced' = advanced + gained + rebate - (reduced - amount) - short
  BY <1>1
<1>12. /\ Balance(vault') \in Int /\ advanced' \in Int
       /\ (Balance(vault') + advanced') = (Balance(vault) + advanced) + reward - reduced
  BY <1>2, <1>5, <1>6, <1>9, <1>10, <1>11, SMT
<1>13. groupOI' \in [Sides -> Nat]
  BY <1>0, <1>1, <1>3, <1>4, GroupType
<1>14. steps' \in 0 .. MaxSteps
  BY <1>0, <1>1, StepType
<1>15. /\ storageUSDC' \in Nat /\ govFees' \in Nat /\ devFees' \in Nat
       /\ rebates' \in Nat /\ unbacked' \in Nat /\ tokensToClaim' \in Nat
  BY <1>1, <1>2, SMT
<1>16. StorageBalanced'
  <2> DEFINE escrow == SumFunction(EscrowAt(order))
  <2>1. escrow \in Nat
    <3>1. trade \in Book
      BY <1>0, SettlementTypes
    <3> QED
      BY <3>1, <1>2, SumTypes
  <2>2. storageUSDC + unbacked = escrow + govFees + devFees + rebates
    BY <1>0 DEF StorageBalanced
  <2> HIDE DEF escrow
  <2>3. storageUSDC' + unbacked' = escrow + govFees' + devFees' + rebates'
    BY <1>1, <1>2, <2>1, <2>2, SMT
  <2> QED
    BY <1>1, <2>3 DEF StorageBalanced, escrow
<1> QED
  BY <1>1, <1>4, <1>10, <1>12, <1>13, <1>14, <1>15, <1>16 DEF t, released

\* A closing leaves what is left of the trade within its interest, releases no
\* more than the open interest falls by, and takes the collateral off.
LEMMA ClosingKeeps ==
    ASSUME SettlementIInv, NEW s \in Slots, NEW amount \in Nat, NEW gain \in Int,
           NEW rollover \in Nat, NEW fee \in Nat, NEW rebate \in Nat, NEW reward \in Nat,
           NEW reduced \in Nat,
           Settle(s, amount, gain, rollover, fee, rebate, reward, reduced),
           NEW interest \in Nat, interest <= trade[s].oi,
           Leveraged(amount, trade[s].lev) <= interest,
           ReduceOpenInterest(s, trade[s].side, interest),
           NEW new \in Trades \cup {None}, Within(new),
           trade' = [trade EXCEPT ![s] = new],
           new # None => new.side = trade[s].side,
           OiOf(new) = trade[s].oi - interest,
           CollOf(new) = trade[s].coll - reduced
    PROVE  SettlementIInv'
<1>0. TypeOK /\ OneUse /\ Counted /\ Backed /\ StorageBalanced /\ ManagerBalanced
  BY DEF SettlementIInv
<1>1. /\ trade[s] # None
      /\ vault' \in Ledger
      /\ Leveraged(amount, trade[s].lev) \in Nat
      /\ ReservedOf(vault') = ReservedOf(vault) - Leveraged(amount, trade[s].lev)
      /\ (Balance(vault') + advanced') = (Balance(vault) + advanced) + reward - reduced
      /\ StorageBalanced' /\ order' = order
      /\ storageUSDC' \in Nat /\ govFees' \in Nat /\ devFees' \in Nat
      /\ rebates' \in Nat /\ unbacked' \in Nat
      /\ tokensToClaim' = tokensToClaim + reward /\ tokensToClaim' \in Nat
      /\ advanced' \in Int /\ groupOI' \in [Sides -> Nat] /\ steps' \in 0 .. MaxSteps
  BY SettleEffect
<1>2. /\ Counted' /\ totalOI' = totalOI - interest /\ totalOI' \in Nat
      /\ walletOI' \in [Traders -> Nat] /\ sideOI' \in [Sides -> Nat]
      /\ blockOI' \in 0 .. BlockOILimit
  BY <1>1, InterestReduced
<1>3. /\ trade \in Book /\ order \in OrderBook /\ totalOI \in Nat /\ ReservedOf(vault) \in Nat
      /\ tokensToClaim \in Nat /\ advanced \in Int /\ Balance(vault) \in Int
  BY <1>0, SettlementTypes
<1>4. trade[s].coll \in Nat
  BY <1>0, <1>1, FieldTypes
<1>5. trade' \in Book /\ Moved(trade, trade', s, new)
  BY <1>3, BookChanges
<1>6. Backed'
  <2>1. totalOI <= ReservedOf(vault)
    BY <1>0 DEF Backed
  <2>2. totalOI' <= ReservedOf(vault')
    BY <1>1, <1>2, <1>3, <2>1, SMT
  <2>3. \A x \in Slots : Within(trade'[x])
    BY OthersStay
  <2> QED
    BY <2>2, <2>3 DEF Backed, ReservedOf
<1>7. ManagerBalanced'
  <2> DEFINE all == SumFunction(CollAt(trade))
  <2>1. all \in Nat
    BY <1>3, SumTypes
  <2>2. Balance(vault) + advanced = all + tokensToClaim
    BY <1>0 DEF ManagerBalanced
  <2>3. CollOf(trade[s]) = trade[s].coll
    BY <1>1 DEF CollOf
  <2>4. SumFunction(CollAt(trade')) = all - trade[s].coll + (trade[s].coll - reduced)
    BY <1>5, <2>3 DEF Moved
  <2> HIDE DEF all
  <2>5. Balance(vault') + advanced' = SumFunction(CollAt(trade')) + tokensToClaim'
    BY <1>1, <1>3, <1>4, <2>1, <2>2, <2>4, SMT
  <2> QED
    BY <2>5 DEF ManagerBalanced, Balance
<1>8. TypeOK'
  BY <1>1, <1>2, <1>3, <1>5, TypesTogether
<1>9. OneUse'
  BY <1>0, <1>1, <1>3 DEF OneUse, Book
<1> QED
  BY <1>1, <1>2, <1>6, <1>7, <1>8, <1>9 DEF SettlementIInv

\* The whole trade.
LEMMA CloseTradeKeeps ==
    ASSUME SettlementIInv, NEW s \in Slots, NEW gain \in Int, NEW rollover \in Nat,
           NEW fee \in Nat, NEW rebate \in Nat, NEW reward \in Nat,
           CloseTrade(s, gain, rollover, fee, rebate, reward)
    PROVE  SettlementIInv'
<1>1. /\ Settle(s, trade[s].coll, gain, rollover, fee, rebate, reward, trade[s].coll)
      /\ ReduceOpenInterest(s, trade[s].side, trade[s].oi)
      /\ trade' = [trade EXCEPT ![s] = None]
  BY DEF CloseTrade
<1>2. trade[s] # None
  BY <1>1 DEF Settle, IsTrade
<1>3. trade[s].coll \in Nat /\ trade[s].oi \in Nat
  BY <1>2, FieldTypes DEF SettlementIInv
<1>4. Leveraged(trade[s].coll, trade[s].lev) <= trade[s].oi
  BY <1>2 DEF SettlementIInv, Backed, Within
<1>5. /\ Within(None)
      /\ OiOf(None) = trade[s].oi - trade[s].oi /\ CollOf(None) = trade[s].coll - trade[s].coll
  BY <1>3, SMT DEF Within, OiOf, CollOf
<1>6. trade[s].oi <= trade[s].oi
  BY <1>3, SMT
<1> QED
  BY <1>1, <1>3, <1>4, <1>5, <1>6, ClosingKeeps

\* A part of it: the interest falls by what the trade's collateral falls by,
\* leveraged, and what is left is rounded in the trade's favour.
LEMMA ClosePartiallyKeeps ==
    ASSUME SettlementIInv, NEW s \in Slots, NEW amount \in Nat, NEW gain \in Int,
           NEW rollover \in Nat, NEW fee \in Nat, NEW rebate \in Nat,
           ClosePartially(s, amount, gain, rollover, fee, rebate)
    PROVE  SettlementIInv'
<1> DEFINE t       == trade[s]
           reduced == amount + rollover + fee
           part    == Leveraged(reduced, t.lev)
           new     == [t EXCEPT !.coll = t.coll - reduced, !.oi = t.oi - part]
<1>1. /\ Settle(s, amount, gain, rollover, fee, rebate, 0, reduced)
      /\ reduced <= t.coll /\ part <= t.oi
      /\ ReduceOpenInterest(s, t.side, part)
  BY DEF ClosePartially
<1>2. t # None
  BY <1>1 DEF Settle, IsTrade
<1>3. /\ t \in Trades
      /\ t.coll \in Nat /\ t.lev \in Nat /\ t.oi \in Nat /\ t.side \in Sides
  BY <1>2, FieldTypes DEF SettlementIInv
<1>4. trade \in Book
  BY SettlementTypes DEF SettlementIInv
<1>5. trade' = [trade EXCEPT ![s] = new]
  <2>1. trade' = [trade EXCEPT ![s].coll = @ - reduced, ![s].oi = @ - part]
    BY DEF ClosePartially
  <2> HIDE DEF reduced, part
  <2> QED
    BY <1>4, <2>1 DEF Book
<1>6. reduced \in Nat /\ amount <= reduced
  BY SMT
<1>7. part \in Nat /\ Leveraged(amount, t.lev) <= part
  <2> HIDE DEF reduced
  <2> QED
    BY <1>3, <1>6, LeveragedType, LeveragedMonotone
<1>8. t.coll - reduced \in Nat /\ t.oi - part \in Nat
  <2> HIDE DEF reduced, part
  <2> QED
    BY <1>1, <1>3, <1>6, <1>7, SMT
<1>9. /\ new \in Trades
      /\ new.coll = t.coll - reduced /\ new.oi = t.oi - part
      /\ new.lev = t.lev /\ new.side = t.side
  <2> HIDE DEF reduced, part
  <2> QED
    BY <1>3, <1>8 DEF Trades
<1>10. new # None
  BY <1>9, NoneIsNothing
<1> HIDE DEF new
<1>11. Within(new)
  <2> DEFINE left == t.coll - reduced
  <2>1. Leveraged(t.coll, t.lev) <= t.oi /\ t.oi <= BlockOILimit
    BY <1>2 DEF SettlementIInv, Backed, Within
  <2>2. left + reduced = t.coll /\ left \in Nat
    BY <1>3, <1>6, <1>8, SMT
  <2> HIDE DEF left, reduced
  <2>3. Leveraged(left, t.lev) + part <= Leveraged(t.coll, t.lev)
    BY <1>3, <1>6, <2>2, LeveragedSplits
  <2>4. Leveraged(left, t.lev) \in Nat /\ Leveraged(t.coll, t.lev) \in Nat
    BY <1>3, <2>2, LeveragedType
  <2>5. new.coll = left /\ new.oi = t.oi - part /\ new.lev = t.lev
    BY <1>9 DEF left
  <2> HIDE DEF t, part
  <2>6. Leveraged(left, t.lev) <= t.oi - part /\ t.oi - part <= BlockOILimit
    BY <1>3, <1>7, <2>1, <2>3, <2>4, SettlementAssumption, SMT
  <2> QED
    BY <2>5, <2>6 DEF Within
<1>12. OiOf(new) = t.oi - part /\ CollOf(new) = t.coll - reduced
  BY <1>9, <1>10 DEF OiOf, CollOf
<1> HIDE DEF part, reduced
<1> QED
  BY <1>1, <1>5, <1>6, <1>7, <1>9, <1>11, <1>12, ClosingKeeps

-----------------------------------------------------------------------------
(* Changes of a trade. *)

\* Margin moved changes balance and collateral alike, or is advanced; the
\* leverage that results does not take the trade beyond its interest.
LEMMA ChangeMarginKeeps ==
    ASSUME SettlementIInv, NEW s \in Slots, NEW deposit \in BOOLEAN, NEW amount \in Nat,
           NEW fee \in Nat, NEW priced \in BOOLEAN,
           ChangeMargin(s, deposit, amount, fee, priced)
    PROVE  SettlementIInv'
<1> DEFINE t     == trade[s]
           coll  == (IF deposit THEN t.coll + amount ELSE t.coll - amount) - fee
           lev   == NewLeverage(t.oi, coll)
           moved == CASE ~priced -> vault
                      [] priced /\ deposit -> Receive(vault, amount)
                      [] priced /\ ~deposit -> Send(vault, amount)
           short == IF priced /\ ~deposit THEN Shortfall(vault, amount) ELSE 0
           owed  == IF priced THEN 0 ELSE IF deposit THEN amount ELSE -amount
           new   == [t EXCEPT !.coll = coll, !.lev = lev]
<1>0. TypeOK /\ OneUse /\ Counted /\ Backed /\ StorageBalanced /\ ManagerBalanced
  BY DEF SettlementIInv
<1>1. /\ t # None /\ coll > 0
      /\ priced /\ ~deposit => CanSend(vault, amount)
      /\ vault' = IF fee > 0 THEN AllocateRewards(moved, fee) ELSE moved
      /\ trade' = [trade EXCEPT ![s].coll = coll, ![s].lev = lev]
      /\ IF fee > 0 THEN ReduceGroupOI(t.side, Leveraged(fee, t.lev)) ELSE UNCHANGED groupOI
      /\ advanced' = advanced - short + owed
      /\ order' = order /\ storageUSDC' = storageUSDC /\ govFees' = govFees
      /\ devFees' = devFees /\ rebates' = rebates /\ tokensToClaim' = tokensToClaim
      /\ totalOI' = totalOI /\ walletOI' = walletOI /\ sideOI' = sideOI
      /\ blockOI' = blockOI /\ unbacked' = unbacked
      /\ Step
  BY Zenon DEF ChangeMargin, IsTrade
<1>2. /\ vault \in Ledger /\ trade \in Book /\ order \in OrderBook
      /\ tokensToClaim \in Nat /\ totalOI \in Nat /\ groupOI \in [Sides -> Nat]
      /\ advanced \in Int /\ Balance(vault) \in Int /\ ReservedOf(vault) \in Nat
  BY <1>0, SettlementTypes
<1>3. /\ t \in Trades /\ t.coll \in Nat /\ t.lev \in Nat /\ t.oi \in Nat /\ t.side \in Sides
  BY <1>0, <1>1, FieldTypes
<1>4. coll \in Nat \ {0}
  BY <1>1, <1>3, SMT
\* The ledger, before the fee and after it.
<1>5. /\ moved \in Ledger /\ ReservedOf(moved) = ReservedOf(vault) /\ short \in Nat
      /\ Balance(moved) - short + owed
           = Balance(vault) + (IF deposit THEN amount ELSE -amount)
  <2>1. CASE ~priced
    <3>1. moved = vault /\ short = 0 /\ owed = IF deposit THEN amount ELSE -amount
      BY <2>1
    <3> HIDE DEF moved, short, owed
    <3> QED
      BY <3>1, <1>2, SMT
  <2>2. CASE priced /\ deposit
    <3>1. moved = Receive(vault, amount) /\ short = 0 /\ owed = 0
      BY <2>2
    <3>2. /\ Receive(vault, amount) \in Ledger
          /\ ReservedOf(Receive(vault, amount)) = ReservedOf(vault)
          /\ Balance(Receive(vault, amount)) = Balance(vault) + amount
      BY <1>2, AccountsEffect
    <3> HIDE DEF moved, short, owed
    <3> QED
      BY <3>1, <3>2, <2>2, <1>2, SMT
  <2>3. CASE priced /\ ~deposit
    <3>1. moved = Send(vault, amount) /\ short = Shortfall(vault, amount) /\ owed = 0
      BY <2>3
    <3>2. /\ Send(vault, amount) \in Ledger /\ Shortfall(vault, amount) \in Nat
          /\ ReservedOf(Send(vault, amount)) = ReservedOf(vault)
          /\ Balance(Send(vault, amount))
               = Balance(vault) + Shortfall(vault, amount) - amount
      BY <1>1, <1>2, <2>3, SendEffect
    <3> HIDE DEF moved, short, owed
    <3> QED
      BY <3>1, <3>2, <2>3, <1>2, SMT
  <2> QED
    BY <2>1, <2>2, <2>3
<1>6. owed \in Int /\ Balance(moved) \in Int
  <2>1. owed \in Int
    BY SMT
  <2>2. Balance(moved) \in Int
    BY <1>5, SMT DEF Ledger, Balance
  <2> QED
    BY <2>1, <2>2
<1> HIDE DEF moved, short, owed
<1>7. /\ vault' \in Ledger /\ ReservedOf(vault') = ReservedOf(vault)
      /\ Balance(vault') = Balance(moved) - fee
  <2>1. CASE fee > 0
    <3>1. /\ AllocateRewards(moved, fee) \in Ledger
          /\ ReservedOf(AllocateRewards(moved, fee)) = ReservedOf(moved)
          /\ Balance(AllocateRewards(moved, fee)) = Balance(moved) - fee
      BY <1>5, AccountsEffect
    <3> QED
      BY <3>1, <2>1, <1>1, <1>5
  <2>2. CASE ~(fee > 0)
    <3>1. vault' = moved /\ fee = 0
      BY <2>2, <1>1, SMT
    <3> QED
      BY <3>1, <1>5, <1>6, SMT
  <2> QED
    BY <2>1, <2>2
\* The trade.
<1>8. trade' = [trade EXCEPT ![s] = new]
  <2> HIDE DEF coll, lev
  <2> QED
    BY <1>1, <1>2 DEF Book
<1>9. lev \in Nat /\ Leveraged(coll, lev) <= t.oi
  <2> HIDE DEF coll
  <2> QED
    BY <1>3, <1>4, NewLeverageFits
<1>10. new \in Trades /\ new.coll = coll /\ new.lev = lev /\ new.oi = t.oi /\ new.side = t.side
  <2> HIDE DEF coll, lev
  <2> QED
    BY <1>3, <1>4, <1>9 DEF Trades
<1>11. new # None
  BY <1>10, NoneIsNothing
<1> HIDE DEF new, lev
<1>12. Within(new)
  <2>1. t.oi <= BlockOILimit
    BY <1>0, <1>1 DEF Backed, Within
  <2> HIDE DEF coll, t
  <2> QED
    BY <1>9, <1>10, <2>1 DEF Within
<1>13. trade' \in Book /\ Moved(trade, trade', s, new)
  BY <1>2, <1>8, <1>10, BookChanges
<1>14. Counted'
  BY <1>1, <1>8, <1>10, InterestKept
<1>15. Backed'
  <2>1. totalOI <= ReservedOf(vault)
    BY <1>0 DEF Backed
  <2>2. totalOI' <= ReservedOf(vault')
    BY <1>1, <1>7, <2>1
  <2>3. \A x \in Slots : Within(trade'[x])
    BY <1>8, <1>12, OthersStay
  <2> QED
    BY <2>2, <2>3 DEF Backed, ReservedOf
\* The accounts.
<1>16. ManagerBalanced'
  <2> DEFINE all == SumFunction(CollAt(trade))
             d   == IF deposit THEN amount ELSE -amount
  <2>1. all \in Nat
    BY <1>2, SumTypes
  <2>2. Balance(vault) + advanced = all + tokensToClaim
    BY <1>0 DEF ManagerBalanced
  <2>3. CollOf(trade[s]) = t.coll /\ CollOf(new) = coll
    BY <1>1, <1>10, <1>11 DEF CollOf
  <2>4. SumFunction(CollAt(trade')) = all - t.coll + coll
    BY <1>13, <2>3 DEF Moved
  <2>5. coll = (t.coll + d) - fee /\ d \in Int
    BY <1>3, SMT
  <2>6. Balance(moved) - short + owed = Balance(vault) + d
    BY <1>5
  <2> HIDE DEF all, d, coll, t
  <2>7. Balance(vault') + advanced' = SumFunction(CollAt(trade')) + tokensToClaim'
    BY <1>1, <1>2, <1>3, <1>5, <1>6, <1>7, <2>1, <2>2, <2>4, <2>5, <2>6, SMT
  <2> QED
    BY <2>7 DEF ManagerBalanced, Balance
<1>17. StorageBalanced'
  BY <1>0, <1>1 DEF StorageBalanced
<1>18. groupOI' \in [Sides -> Nat]
  <2>1. CASE fee > 0
    <3>1. Leveraged(fee, t.lev) \in Nat
      BY <1>3, LeveragedType
    <3> QED
      BY <3>1, <2>1, <1>0, <1>1, <1>3, GroupType
  <2>2. CASE ~(fee > 0)
    BY <2>2, <1>1, <1>2
  <2> QED
    BY <2>1, <2>2
<1>19. advanced' \in Int /\ steps' \in 0 .. MaxSteps
  <2>1. advanced' = advanced - short + owed
    BY <1>1
  <2> QED
    BY <2>1, <1>0, <1>1, <1>2, <1>5, <1>6, StepType, SMT
<1>20. TypeOK'
  BY <1>0, <1>1, <1>7, <1>13, <1>18, <1>19, SettlementTypes, TypesTogether
<1>21. OneUse'
  BY <1>0, <1>1, <1>2, <1>8 DEF OneUse, Book
<1> QED
  BY <1>14, <1>15, <1>16, <1>17, <1>20, <1>21 DEF SettlementIInv

\* A guaranteed stop loss: its fee leaves the collateral, and the parts of it
\* that TradingStorage owes are unbacked there and advanced here.
LEMMA UpdateSlKeeps ==
    ASSUME SettlementIInv, NEW s \in Slots, NEW fee \in Nat, NEW rebate \in Nat,
           UpdateSl(s, fee, rebate)
    PROVE  SettlementIInv'
<1> DEFINE t       == trade[s]
           toVault == VaultAllocation(fee)
           coll    == t.coll - fee
           new     == [t EXCEPT !.coll = coll]
<1>0. TypeOK /\ OneUse /\ Counted /\ Backed /\ StorageBalanced /\ ManagerBalanced
  BY DEF SettlementIInv
<1>1. /\ t # None /\ fee <= t.coll
      /\ trade' = [trade EXCEPT ![s].coll = @ - fee]
      /\ vault' = AllocateRewards(vault, toVault)
      /\ govFees' = govFees + GovFee(fee)
      /\ devFees' = devFees + DevFee(fee)
      /\ rebates' = rebates + rebate
      /\ unbacked' = unbacked + GovFee(fee) + DevFee(fee) + rebate
      /\ advanced' = advanced - (GovFee(fee) + DevFee(fee))
      /\ order' = order /\ storageUSDC' = storageUSDC /\ tokensToClaim' = tokensToClaim
      /\ totalOI' = totalOI /\ walletOI' = walletOI /\ sideOI' = sideOI
      /\ groupOI' = groupOI /\ blockOI' = blockOI
      /\ Step
  BY DEF UpdateSl, IsTrade, OpenInterest
<1>2. /\ vault \in Ledger /\ trade \in Book /\ order \in OrderBook
      /\ storageUSDC \in Nat /\ govFees \in Nat /\ devFees \in Nat /\ rebates \in Nat
      /\ tokensToClaim \in Nat /\ totalOI \in Nat /\ unbacked \in Nat
      /\ advanced \in Int /\ Balance(vault) \in Int
  BY <1>0, SettlementTypes
<1>3. /\ t \in Trades /\ t.coll \in Nat /\ t.lev \in Nat /\ t.oi \in Nat /\ t.side \in Sides
  BY <1>0, <1>1, FieldTypes
<1>4. coll \in Nat /\ coll <= t.coll
  BY <1>1, <1>3, SMT
<1>5. /\ toVault \in Nat /\ GovFee(fee) \in Nat /\ DevFee(fee) \in Nat
      /\ toVault + GovFee(fee) + DevFee(fee) = fee
  BY FeeParts
<1> HIDE DEF toVault
<1>6. /\ vault' \in Ledger /\ ReservedOf(vault') = ReservedOf(vault)
      /\ Balance(vault') = Balance(vault) - toVault
  BY <1>1, <1>2, <1>5, AccountsEffect
<1>7. trade' = [trade EXCEPT ![s] = new]
  BY <1>1, <1>2 DEF Book
<1>8. new \in Trades /\ new.coll = coll /\ new.lev = t.lev /\ new.oi = t.oi /\ new.side = t.side
  <2> HIDE DEF coll
  <2> QED
    BY <1>3, <1>4 DEF Trades
<1>9. new # None
  BY <1>8, NoneIsNothing
<1> HIDE DEF new
<1>10. Within(new)
  <2>1. Leveraged(t.coll, t.lev) <= t.oi /\ t.oi <= BlockOILimit
    BY <1>0, <1>1 DEF Backed, Within
  <2> HIDE DEF coll, t
  <2>2. Leveraged(coll, t.lev) <= Leveraged(t.coll, t.lev)
    BY <1>3, <1>4, LeveragedMonotone
  <2>3. Leveraged(coll, t.lev) \in Nat /\ Leveraged(t.coll, t.lev) \in Nat
    BY <1>3, <1>4, LeveragedType
  <2>4. Leveraged(coll, t.lev) <= t.oi
    BY <1>3, <2>1, <2>2, <2>3, SMT
  <2> QED
    BY <1>8, <2>1, <2>4 DEF Within
<1>11. trade' \in Book /\ Moved(trade, trade', s, new)
  BY <1>2, <1>7, <1>8, BookChanges
<1>12. Counted'
  BY <1>1, <1>7, <1>8, InterestKept
<1>13. Backed'
  <2>1. totalOI <= ReservedOf(vault)
    BY <1>0 DEF Backed
  <2>2. totalOI' <= ReservedOf(vault')
    BY <1>1, <1>6, <2>1
  <2>3. \A x \in Slots : Within(trade'[x])
    BY <1>7, <1>10, OthersStay
  <2> QED
    BY <2>2, <2>3 DEF Backed, ReservedOf
<1>14. ManagerBalanced'
  <2> DEFINE all == SumFunction(CollAt(trade))
  <2>1. all \in Nat
    BY <1>2, SumTypes
  <2>2. Balance(vault) + advanced = all + tokensToClaim
    BY <1>0 DEF ManagerBalanced
  <2>3. CollOf(trade[s]) = t.coll /\ CollOf(new) = coll
    BY <1>1, <1>8, <1>9 DEF CollOf
  <2>4. SumFunction(CollAt(trade')) = all - t.coll + coll
    BY <1>11, <2>3 DEF Moved
  <2> HIDE DEF all
  <2>5. Balance(vault') + advanced' = SumFunction(CollAt(trade')) + tokensToClaim'
    BY <1>1, <1>2, <1>3, <1>5, <1>6, <2>1, <2>2, <2>4, SMT
  <2> QED
    BY <2>5 DEF ManagerBalanced, Balance
<1>15. StorageBalanced'
  <2> DEFINE escrow == SumFunction(EscrowAt(order))
  <2>1. escrow \in Nat
    BY <1>2, SumTypes
  <2>2. storageUSDC + unbacked = escrow + govFees + devFees + rebates
    BY <1>0 DEF StorageBalanced
  <2> HIDE DEF escrow
  <2>3. storageUSDC' + unbacked' = escrow + govFees' + devFees' + rebates'
    BY <1>1, <1>2, <1>5, <2>1, <2>2, SMT
  <2> QED
    BY <1>1, <2>3 DEF StorageBalanced, escrow
<1>16. /\ govFees' \in Nat /\ devFees' \in Nat /\ rebates' \in Nat /\ unbacked' \in Nat
       /\ advanced' \in Int
  BY <1>1, <1>2, <1>5, SMT
<1>17. steps' \in 0 .. MaxSteps
  BY <1>0, <1>1, StepType
<1>18. TypeOK'
  BY <1>0, <1>1, <1>6, <1>11, <1>16, <1>17, SettlementTypes, TypesTogether
<1>19. OneUse'
  BY <1>0, <1>1, <1>2, <1>7 DEF OneUse, Book
<1> QED
  BY <1>12, <1>13, <1>14, <1>15, <1>18, <1>19 DEF SettlementIInv

-----------------------------------------------------------------------------
(* Claims, and the next block. *)

\* A claim takes from TradingStorage what its accounts fall by.
LEMMA StorageClaimsKeep ==
    ASSUME SettlementIInv, ClaimFees \/ ClaimRebate
    PROVE  SettlementIInv'
<1>0. TypeOK /\ OneUse /\ Counted /\ Backed /\ StorageBalanced /\ ManagerBalanced
  BY DEF SettlementIInv
<1>1. /\ vault' = vault /\ order' = order /\ trade' = trade
      /\ tokensToClaim' = tokensToClaim /\ totalOI' = totalOI
      /\ walletOI' = walletOI /\ sideOI' = sideOI /\ groupOI' = groupOI
      /\ blockOI' = blockOI /\ unbacked' = unbacked /\ advanced' = advanced
      /\ Step
  BY DEF ClaimFees, ClaimRebate, OpenInterest
<1>2. /\ vault \in Ledger /\ trade \in Book /\ order \in OrderBook
      /\ storageUSDC \in Nat /\ govFees \in Nat /\ devFees \in Nat /\ rebates \in Nat
      /\ unbacked \in Nat
  BY <1>0, SettlementTypes
<1> DEFINE escrow == SumFunction(EscrowAt(order))
<1>3. escrow \in Nat
  BY <1>2, SumTypes
<1>4. storageUSDC + unbacked = escrow + govFees + devFees + rebates
  BY <1>0 DEF StorageBalanced
<1> HIDE DEF escrow
<1>5. /\ storageUSDC' + unbacked = escrow + govFees' + devFees' + rebates'
      /\ storageUSDC' \in Nat /\ govFees' \in Nat /\ devFees' \in Nat /\ rebates' \in Nat
  <2>1. CASE ClaimFees
    <3>1. /\ govFees + devFees <= storageUSDC
          /\ storageUSDC' = storageUSDC - (govFees + devFees)
          /\ govFees' = 0 /\ devFees' = 0 /\ rebates' = rebates
      BY <2>1, <1>2, SMT DEF ClaimFees
    <3> QED
      BY <3>1, <1>2, <1>3, <1>4, SMT
  <2>2. CASE ClaimRebate
    <3>1. /\ rebates <= storageUSDC
          /\ storageUSDC' = storageUSDC - rebates
          /\ govFees' = govFees /\ devFees' = devFees /\ rebates' = 0
      BY <2>2, <1>2, SMT DEF ClaimRebate
    <3> QED
      BY <3>1, <1>2, <1>3, <1>4, SMT
  <2> QED
    BY <2>1, <2>2
<1>6. StorageBalanced'
  BY <1>1, <1>5 DEF StorageBalanced, escrow
<1>7. steps' \in 0 .. MaxSteps
  BY <1>0, <1>1, StepType
<1>8. TypeOK'
  BY <1>0, <1>1, <1>5, <1>7, SettlementTypes, TypesTogether
<1>9. OneUse' /\ Counted' /\ Backed' /\ ManagerBalanced'
  BY <1>0, <1>1 DEF OneUse, Counted, Backed, ManagerBalanced
<1> QED
  BY <1>6, <1>8, <1>9 DEF SettlementIInv

\* Executors are paid by the manager, or by the tranches for it.
LEMMA ClaimTokensKeeps ==
    ASSUME SettlementIInv, ClaimTokens
    PROVE  SettlementIInv'
<1>0. TypeOK /\ OneUse /\ Counted /\ Backed /\ StorageBalanced /\ ManagerBalanced
  BY DEF SettlementIInv
<1> DEFINE short == Shortfall(vault, tokensToClaim)
           all   == SumFunction(CollAt(trade))
<1>1. /\ CanSend(vault, tokensToClaim)
      /\ vault' = Send(vault, tokensToClaim)
      /\ tokensToClaim' = 0
      /\ advanced' = advanced - short
      /\ order' = order /\ trade' = trade /\ storageUSDC' = storageUSDC
      /\ govFees' = govFees /\ devFees' = devFees /\ rebates' = rebates
      /\ totalOI' = totalOI /\ walletOI' = walletOI /\ sideOI' = sideOI
      /\ groupOI' = groupOI /\ blockOI' = blockOI /\ unbacked' = unbacked
      /\ Step
  BY DEF ClaimTokens, OpenInterest
<1>2. /\ vault \in Ledger /\ trade \in Book /\ order \in OrderBook
      /\ tokensToClaim \in Nat /\ advanced \in Int /\ Balance(vault) \in Int
  BY <1>0, SettlementTypes
<1>3. /\ vault' \in Ledger /\ short \in Nat /\ ReservedOf(vault') = ReservedOf(vault)
      /\ Balance(vault') = Balance(vault) + short - tokensToClaim
  BY <1>1, <1>2, SendEffect
<1>4. all \in Nat
  BY <1>2, SumTypes
<1>5. Balance(vault) + advanced = all + tokensToClaim
  BY <1>0 DEF ManagerBalanced
<1> HIDE DEF short, all
<1>6. /\ Balance(vault') + advanced' = all + tokensToClaim'
      /\ advanced' \in Int /\ tokensToClaim' \in Nat
  BY <1>1, <1>2, <1>3, <1>4, <1>5, SMT
<1>7. ManagerBalanced'
  BY <1>1, <1>6 DEF ManagerBalanced, Balance, all
<1>8. Backed'
  BY <1>0, <1>1, <1>3 DEF Backed, ReservedOf
<1>9. OneUse' /\ Counted' /\ StorageBalanced'
  BY <1>0, <1>1 DEF OneUse, Counted, StorageBalanced
<1>10. steps' \in 0 .. MaxSteps
  BY <1>0, <1>1, StepType
<1>11. TypeOK'
  BY <1>0, <1>1, <1>3, <1>6, <1>10, SettlementTypes, TypesTogether
<1> QED
  BY <1>7, <1>8, <1>9, <1>11 DEF SettlementIInv

\* A new block has moved nothing yet.
LEMMA NewBlockKeeps ==
    ASSUME SettlementIInv, NewBlock
    PROVE  SettlementIInv'
<1>0. TypeOK /\ OneUse /\ Counted /\ Backed /\ StorageBalanced /\ ManagerBalanced
  BY DEF SettlementIInv
<1>1. blockOI' \in 0 .. BlockOILimit
  BY SettlementAssumption, SMT DEF NewBlock
<1>2. TypeOK'
  BY <1>0, <1>1, SettlementTypes, TypesTogether DEF NewBlock
<1>3. OneUse' /\ Counted' /\ Backed' /\ StorageBalanced' /\ ManagerBalanced'
  BY <1>0 DEF NewBlock, OneUse, Counted, Backed, StorageBalanced, ManagerBalanced
<1> QED
  BY <1>2, <1>3 DEF SettlementIInv

-----------------------------------------------------------------------------
(* The specification. *)

\* At first there are no trades and no orders, and all accounts are empty.
LEMMA InitSettlementIInv == Init => SettlementIInv
<1> SUFFICES ASSUME Init PROVE SettlementIInv
  OBVIOUS
<1>1. /\ vault = [jr |-> Capital, sr |-> Capital, jrReserved |-> 0, srReserved |-> 0,
                  cash |-> 0, totalRewards |-> 0, pnlRewards |-> 0]
      /\ order = [s \in Slots |-> None] /\ trade = [s \in Slots |-> None]
      /\ storageUSDC = 0 /\ govFees = 0 /\ devFees = 0 /\ rebates = 0 /\ tokensToClaim = 0
      /\ totalOI = 0 /\ walletOI = [t \in Traders |-> 0]
      /\ sideOI = [side \in Sides |-> 0] /\ groupOI = [side \in Sides |-> 0]
      /\ blockOI = 0 /\ unbacked = 0 /\ advanced = 0 /\ steps = 0
  BY DEF Init
<1>2. vault \in Ledger /\ ReservedOf(vault) = 0 /\ Balance(vault) = 0
  <2>1. vault \in Ledger
    BY <1>1, SettlementAssumption, SMT DEF Ledger
  <2>2. /\ vault.jrReserved = 0 /\ vault.srReserved = 0
        /\ vault.cash = 0 /\ vault.totalRewards = 0 /\ vault.pnlRewards = 0
    BY <1>1
  <2> QED
    BY <2>1, <2>2, SMT DEF ReservedOf, Balance
<1>3. \A s \in Slots : order[s] = None /\ trade[s] = None
  BY <1>1
<1>4. order \in OrderBook /\ trade \in Book
  BY <1>1 DEF OrderBook, Book
<1>5. /\ SumFunction(OiAt(trade)) = 0 /\ SumFunction(CollAt(trade)) = 0
      /\ SumFunction(EscrowAt(order)) = 0
      /\ \A t : SumFunction(WalletAt(trade, t)) = 0
      /\ \A side : SumFunction(SideAt(trade, side)) = 0
  <2>1. ASSUME NEW t, NEW side
        PROVE  /\ SumFunction(OiAt(trade)) = 0 /\ SumFunction(CollAt(trade)) = 0
               /\ SumFunction(EscrowAt(order)) = 0
               /\ SumFunction(WalletAt(trade, t)) = 0
               /\ SumFunction(SideAt(trade, side)) = 0
    <3>1. /\ CollAt(trade) \in [Slots -> Nat] /\ OiAt(trade) \in [Slots -> Nat]
          /\ WalletAt(trade, t) \in [Slots -> Nat] /\ SideAt(trade, side) \in [Slots -> Nat]
          /\ EscrowAt(order) \in [Slots -> Nat]
      BY <1>4, TermTypes
    <3>2. \A s \in Slots : /\ CollAt(trade)[s] = 0 /\ OiAt(trade)[s] = 0
                           /\ WalletAt(trade, t)[s] = 0 /\ SideAt(trade, side)[s] = 0
                           /\ EscrowAt(order)[s] = 0
      BY <1>3 DEF CollAt, OiAt, WalletAt, SideAt, EscrowAt, CollOf, OiOf, SideOiOf, EscrowOf
    <3> QED
      BY <3>1, <3>2, SlotsFinite, SumOfNothing
  <2> QED
    BY <2>1
<1>6. TypeOK
  <2>1. {storageUSDC, govFees, devFees, rebates, tokensToClaim, totalOI, unbacked} \subseteq Nat
    BY <1>1
  <2>2. walletOI \in [Traders -> Nat] /\ sideOI \in [Sides -> Nat] /\ groupOI \in [Sides -> Nat]
    BY <1>1
  <2>3. blockOI \in 0 .. BlockOILimit /\ advanced \in Int /\ steps \in 0 .. MaxSteps
    BY <1>1, SettlementAssumption, SMT
  <2> QED
    BY <1>2, <1>4, <2>1, <2>2, <2>3 DEF TypeOK, OrderBook, Book
<1>7. OneUse
  BY <1>3 DEF OneUse
<1>8. Counted
  BY <1>1, <1>5 DEF Counted
<1>9. Backed
  BY <1>1, <1>2, <1>3, SMT DEF Backed, Within
<1>10. StorageBalanced /\ ManagerBalanced
  BY <1>1, <1>2, <1>5, SMT DEF StorageBalanced, ManagerBalanced
<1> QED
  BY <1>6, <1>7, <1>8, <1>9, <1>10 DEF SettlementIInv

\* Every transaction keeps the invariant.
LEMMA SettlementNextKeeps == SettlementIInv /\ [Next]_vars => SettlementIInv'
<1> SUFFICES ASSUME SettlementIInv, [Next]_vars PROVE SettlementIInv'
  OBVIOUS
<1>0. /\ \A c \in Charges : c[1] \in Nat /\ c[2] \in Nat
      /\ Sizes \subseteq Nat /\ ExecFees \subseteq Nat /\ Rollovers \subseteq Nat
      /\ CloseAmounts \subseteq Nat /\ Rewards \subseteq Nat /\ Margins \subseteq Nat
      /\ Gains \subseteq Int
  BY SettlementAssumption
<1>1. Leverages \subseteq Nat
  <2>1. \A x \in MinLeverage .. MaxLeverage : x \in Nat
    BY SettlementAssumption, SMT
  <2> QED
    BY <2>1, SettlementAssumption
<1>2. ASSUME NEW s \in Slots, NEW size \in Sizes, NEW lev \in Leverages, NEW side \in Sides,
             NEW execFee \in ExecFees, OpenTrade(s, size, lev, side, execFee)
      PROVE  SettlementIInv'
  BY <1>0, <1>1, <1>2, OpenTradeKeeps
<1>3. ASSUME NEW s \in Slots, Refund(s) PROVE SettlementIInv'
  BY <1>3, RefundKeeps
<1>4. ASSUME NEW s \in Slots, NEW c \in Charges, RegisterTrade(s, c[1], c[2])
      PROVE  SettlementIInv'
  BY <1>0, <1>4, RegisterTradeKeeps
<1>5. ASSUME NEW s \in Slots, NEW c \in Charges, UpdateSl(s, c[1], c[2])
      PROVE  SettlementIInv'
  BY <1>0, <1>5, UpdateSlKeeps
<1>6. ASSUME NEW s \in Slots, NEW c \in Charges, NEW gain \in Gains, NEW rollover \in Rollovers,
             NEW reward \in Rewards, CloseTrade(s, gain, rollover, c[1], c[2], reward)
      PROVE  SettlementIInv'
  BY <1>0, <1>6, CloseTradeKeeps
<1>7. ASSUME NEW s \in Slots, NEW c \in Charges, NEW gain \in Gains, NEW rollover \in Rollovers,
             NEW amount \in CloseAmounts, ClosePartially(s, amount, gain, rollover, c[1], c[2])
      PROVE  SettlementIInv'
  BY <1>0, <1>7, ClosePartiallyKeeps
<1>8. ASSUME NEW s \in Slots, NEW deposit \in BOOLEAN, NEW priced \in BOOLEAN,
             NEW amount \in Margins, NEW fee \in Rollovers,
             ChangeMargin(s, deposit, amount, fee, priced)
      PROVE  SettlementIInv'
  BY <1>0, <1>8, ChangeMarginKeeps
<1>9. ASSUME ClaimFees \/ ClaimRebate PROVE SettlementIInv'
  BY <1>9, StorageClaimsKeep
<1>10. ASSUME ClaimTokens PROVE SettlementIInv'
  BY <1>10, ClaimTokensKeeps
<1>11. ASSUME NewBlock PROVE SettlementIInv'
  BY <1>11, NewBlockKeeps
<1>12. ASSUME UNCHANGED vars PROVE SettlementIInv'
  <2>0. TypeOK /\ OneUse /\ Counted /\ Backed /\ StorageBalanced /\ ManagerBalanced
    BY DEF SettlementIInv
  <2>1. TypeOK'
    BY <1>12, <2>0, SettlementTypes, TypesTogether DEF vars
  <2>2. OneUse' /\ Counted' /\ Backed' /\ StorageBalanced' /\ ManagerBalanced'
    BY <1>12, <2>0 DEF vars, OneUse, Counted, Backed, StorageBalanced, ManagerBalanced
  <2> QED
    BY <2>1, <2>2 DEF SettlementIInv
<1> QED
  BY <1>2, <1>3, <1>4, <1>5, <1>6, <1>7, <1>8, <1>9, <1>10, <1>11, <1>12 DEF Next

\* The invariant holds always.
THEOREM SettlementIInvAlways == Spec => []SettlementIInv
BY InitSettlementIInv, SettlementNextKeeps, PTL DEF Spec

\* No account goes below zero, and no amount leaves its type.
THEOREM SettlementTypeCorrect == Spec => []TypeOK
<1>1. SettlementIInv => TypeOK
  BY DEF SettlementIInv
<1> QED
  BY <1>1, SettlementIInvAlways, PTL

\* The four counters of open interest add up to the trades' own, through every
\* sequence of openings, full and partial closings.
THEOREM OpenInterestAlwaysExact == Spec => []OpenInterestExact
<1>1. SettlementIInv => OpenInterestExact
  <2> SUFFICES ASSUME SettlementIInv PROVE OpenInterestExact
    OBVIOUS
  <2>1. InterestOf(Slots) = SumFunction(OiAt(trade))
    <3>1. [s \in Slots |-> IF s \in Slots /\ IsTrade(s) THEN trade[s].oi ELSE 0] = OiAt(trade)
      BY DEF IsTrade, OiAt, OiOf
    <3> QED
      BY <3>1 DEF InterestOf
  <2>2. ASSUME NEW t \in Traders
        PROVE  InterestOf({t} \X (1 .. TradesPerTrader)) = SumFunction(WalletAt(trade, t))
    <3>1. \A s \in Slots : s \in {t} \X (1 .. TradesPerTrader) <=> s[1] = t
      BY DEF Slots
    <3>2. [s \in Slots |-> IF s \in {t} \X (1 .. TradesPerTrader) /\ IsTrade(s)
                           THEN trade[s].oi ELSE 0]
            = WalletAt(trade, t)
      BY <3>1 DEF IsTrade, WalletAt, OiOf
    <3> QED
      BY <3>2 DEF InterestOf
  <2>3. ASSUME NEW side \in Sides
        PROVE  InterestOf({s \in Slots : IsTrade(s) /\ trade[s].side = side})
                 = SumFunction(SideAt(trade, side))
    <3>1. [s \in Slots |-> IF /\ s \in {x \in Slots : IsTrade(x) /\ trade[x].side = side}
                              /\ IsTrade(s)
                           THEN trade[s].oi ELSE 0]
            = SideAt(trade, side)
      BY DEF IsTrade, SideAt, SideOiOf
    <3> QED
      BY <3>1 DEF InterestOf
  <2> QED
    BY <2>1, <2>2, <2>3 DEF SettlementIInv, Counted, OpenInterestExact
<1> QED
  BY <1>1, SettlementIInvAlways, PTL

\* Whatever became of leverage and collateral, the tranches have reserved what
\* a trade's closing releases.
THEOREM TradesCanAlwaysBeReleased == Spec => []TradesCanBeReleased
<1>1. SettlementIInv => TradesCanBeReleased
  <2> SUFFICES ASSUME SettlementIInv PROVE TradesCanBeReleased
    OBVIOUS
  <2>1. /\ vault \in Ledger /\ trade \in Book /\ totalOI \in Nat /\ ReservedOf(vault) \in Nat
    BY SettlementTypes DEF SettlementIInv
  <2>2. totalOI <= ReservedOf(vault) /\ totalOI = SumFunction(OiAt(trade))
    BY DEF SettlementIInv, Backed, Counted
  <2>3. ReservedOf(vault) = Reserved
    BY DEF ReservedOf, Reserved
  <2>4. ASSUME NEW s \in Slots, IsTrade(s)
        PROVE  /\ Leveraged(trade[s].coll, trade[s].lev) <= trade[s].oi
               /\ trade[s].oi <= BlockOILimit
               /\ trade[s].coll > 0 /\ Reserved > 0 =>
                    CanRelease(vault, Leveraged(trade[s].coll, trade[s].lev))
    <3> DEFINE released == Leveraged(trade[s].coll, trade[s].lev)
    <3>1. trade[s] # None
      BY <2>4 DEF IsTrade
    <3>2. trade[s].coll \in Nat /\ trade[s].lev \in Nat /\ trade[s].oi \in Nat
      BY <3>1, FieldTypes DEF SettlementIInv
    <3>3. released <= trade[s].oi /\ trade[s].oi <= BlockOILimit
      BY <3>1 DEF SettlementIInv, Backed, Within
    <3>4. released \in Nat
      BY <3>2, LeveragedType
    <3>5. trade[s].oi <= totalOI
      BY <3>1, <2>1, <2>2, InterestIsPart
    <3> HIDE DEF released
    <3>6. released <= ReservedOf(vault)
      BY <3>2, <3>3, <3>4, <3>5, <2>1, <2>2, SMT
    <3>7. 0 < ReservedOf(vault) => CanRelease(vault, released)
      BY <3>4, <3>6, <2>1, ReservedCanBeReleased
    <3>8. Reserved > 0 => 0 < ReservedOf(vault)
      BY <2>1, <2>3, SMT
    <3> QED
      BY <3>3, <3>7, <3>8 DEF released
  <2> QED
    BY <2>2, <2>3, <2>4 DEF TradesCanBeReleased
<1> QED
  BY <1>1, SettlementIInvAlways, PTL

\* TradingStorage has the USDC of every order, fee and rebate but for what is
\* named as unbacked.
THEOREM StorageAccountsAlwaysExact == Spec => []StorageAccountsExact
<1>1. SettlementIInv => StorageAccountsExact
  <2>1. Escrow = SumFunction(EscrowAt(order))
    <3>1. [s \in Slots |-> IF IsOrder(s) THEN order[s].size + order[s].execFee ELSE 0]
            = EscrowAt(order)
      BY DEF IsOrder, EscrowAt, EscrowOf
    <3> QED
      BY <3>1 DEF Escrow
  <2> QED
    BY <2>1 DEF SettlementIInv, StorageBalanced, StorageAccountsExact
<1> QED
  BY <1>1, SettlementIInvAlways, PTL

\* The vault manager has all collateral, rewards and executors' fees but for
\* what it has advanced.
THEOREM ManagerAccountsAlwaysExact == Spec => []ManagerAccountsExact
<1>1. SettlementIInv => ManagerAccountsExact
  <2> SUFFICES ASSUME SettlementIInv PROVE ManagerAccountsExact
    OBVIOUS
  <2>1. Collateral = SumFunction(CollAt(trade))
    <3>1. [s \in Slots |-> IF IsTrade(s) THEN trade[s].coll ELSE 0] = CollAt(trade)
      BY DEF IsTrade, CollAt, CollOf
    <3> QED
      BY <3>1 DEF Collateral
  <2>2. Balance(vault) + advanced = Collateral + tokensToClaim
    BY <2>1 DEF SettlementIInv, ManagerBalanced
  <2>3. /\ vault \in Ledger /\ trade \in Book /\ order \in OrderBook
        /\ tokensToClaim \in Nat /\ advanced \in Int
    BY SettlementTypes DEF SettlementIInv
  <2>4. Collateral \in Nat
    BY <2>1, <2>3, SumTypes
  <2>5. vault.cash \in Nat /\ vault.totalRewards \in Nat /\ vault.pnlRewards \in Nat
    BY <2>3 DEF Ledger
  <2>6. Balance(vault) = vault.cash - vault.totalRewards - vault.pnlRewards
    BY DEF Balance
  <2>7. (vault.cash - vault.totalRewards - vault.pnlRewards) + advanced
          = Collateral + tokensToClaim
    BY <2>2, <2>6, Zenon
  <2>8. vault.cash + advanced =
          vault.totalRewards + vault.pnlRewards + Collateral + tokensToClaim
    <3>1. /\ vault.cash \in Int /\ vault.totalRewards \in Int /\ vault.pnlRewards \in Int
          /\ advanced \in Int /\ Collateral \in Int /\ tokensToClaim \in Int
      BY <2>3, <2>4, <2>5, SMT
    <3> QED
      BY <3>1, <2>7, Z3
  <2> QED
    BY <2>8 DEF ManagerAccountsExact
<1> QED
  BY <1>1, SettlementIInvAlways, PTL
=============================================================================
