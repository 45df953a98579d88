----------------------------- MODULE VeTranche -----------------------------
(***************************************************************************)
(* VeTranche.sol: shares of a tranche locked for a time, and the rewards   *)
(* that the vault manager distributes over the locks in proportion to      *)
(* their lock points.  A distribution only raises one accumulator; what a  *)
(* lock has earned follows from the accumulator's value when it last       *)
(* claimed.  Block time is a flag of each lock: its lock time is over.     *)
(*                                                                         *)
(* Module TrancheShares has the tranche whose shares these are, composes   *)
(* the two and runs them.                                                  *)
(***************************************************************************)
EXTENDS Integers, FiniteSets, Functions

CONSTANTS
    MaxLocks,         \* bound on token ids
    Shares,           \* amounts of shares locked
    Multipliers,      \* lock points per share, in units of 1 / Precision
    EarlyWithdrawFee, \* of 1 / FeeBase
    FeeBase,          \* 1e5
    MaxDistributions, \* bound on distributions
    Precision         \* _PRECISION

ASSUME VeTrancheAssumption ==
    /\ MaxLocks \in Nat /\ MaxDistributions \in Nat
    /\ Shares \subseteq Nat \ {0} /\ Multipliers \subseteq Nat \ {0}
    /\ FeeBase \in Nat \ {0} /\ EarlyWithdrawFee \in 0 .. FeeBase
    /\ Precision \in Nat \ {0}

VARIABLES
    locks,           \* of each token id
    tokenIds,        \* the next token id
    totalLockPoints,
    perPoint,        \* rewardsDistributedPerSharePerLockPoint
    trancheShares,   \* shares of the tranche that the contract holds
    usdc,            \* USDC that the contract holds
    distributions,
    \* History, read by the properties alone: what distributions credited beyond
    \* the USDC they brought, since they share it among whole points only.
    excess

veVars == <<locks, tokenIds, totalLockPoints, perPoint, trancheShares, usdc, distributions,
            excess>>

Ids == 0 .. MaxLocks - 1
NoLock == [shares |-> 0]
LocksOf(owners) ==
    [owner : owners, shares : Nat \ {0}, multiplier : Nat, last : Nat, over : BOOLEAN]
IsLocked(id) == locks[id] # NoLock

VeInit ==
    /\ locks = [id \in Ids |-> NoLock]
    /\ tokenIds = 0 /\ totalLockPoints = 0 /\ perPoint = 0
    /\ trancheShares = 0 /\ usdc = 0 /\ distributions = 0 /\ excess = 0

Points(id) == locks[id].shares * locks[id].multiplier

\* getTotalLockPoints: in whole points.
WholePoints == totalLockPoints \div Precision

\* What _updateReward adds; a claim leaves nothing behind.
Owed(id) ==
    ((perPoint - locks[id].last) * Points(id))
      \div (Precision * Precision * Precision * Precision)

-----------------------------------------------------------------------------
Slip_Start == 0

\* Where a lock starts to earn: what was distributed before is not its.
Start == perPoint

Lock(owner, shares, multiplier) ==
    /\ tokenIds \in Ids
    /\ locks' = [locks EXCEPT ![tokenIds] =
                   [owner |-> owner, shares |-> shares, multiplier |-> multiplier,
                    last |-> Start, over |-> FALSE]]
    /\ tokenIds' = tokenIds + 1
    /\ totalLockPoints' = totalLockPoints + shares * multiplier
    /\ trancheShares' = trancheShares + shares
    /\ UNCHANGED <<perPoint, usdc, distributions, excess>>

\* Block time passes lockTimeByTokenId.
LockTimeEnds(id) ==
    /\ IsLocked(id) /\ ~locks[id].over
    /\ locks' = [locks EXCEPT ![id].over = TRUE]
    /\ UNCHANGED <<tokenIds, totalLockPoints, perPoint, trancheShares, usdc, distributions, excess>>

\* The fee is taken on top of the shares.
SlipOnTop_Release(id, fee) ==
    /\ Owed(id) <= usdc
    /\ usdc' = usdc - Owed(id)
    /\ trancheShares' = trancheShares - locks[id].shares - fee
    /\ totalLockPoints' = totalLockPoints - Points(id)
    /\ locks' = [locks EXCEPT ![id] = NoLock]
    /\ UNCHANGED <<tokenIds, perPoint, distributions, excess>>

\* The points that the fee's shares stand for remain.
Slip_Release(id, fee) ==
    /\ Owed(id) <= usdc
    /\ usdc' = usdc - Owed(id)
    /\ trancheShares' = trancheShares - locks[id].shares
    /\ totalLockPoints' = totalLockPoints - (locks[id].shares - fee) * locks[id].multiplier
    /\ locks' = [locks EXCEPT ![id] = NoLock]
    /\ UNCHANGED <<tokenIds, perPoint, distributions, excess>>

\* Rewards are claimed first, and the shares leave, those of the fee to the vault
\* manager and the others to the owner.
Release(id, fee) ==
    /\ Owed(id) <= usdc
    /\ usdc' = usdc - Owed(id)
    /\ trancheShares' = trancheShares - locks[id].shares
    /\ totalLockPoints' = totalLockPoints - Points(id)
    /\ locks' = [locks EXCEPT ![id] = NoLock]
    /\ UNCHANGED <<tokenIds, perPoint, distributions, excess>>

CeilDiv(a, b) == (a + b - 1) \div b

\* checkUnlockFee: a part of the early withdrawal fee, rounded up, for the part
\* of the time that is left.
UnlockFees(id, feesOn) ==
    LET fee == CeilDiv(locks[id].shares * EarlyWithdrawFee, FeeBase) IN
    IF locks[id].over \/ ~feesOn \/ fee = 0 THEN {0} ELSE 1 .. fee

Unlock(id, fee) == IsLocked(id) /\ Release(id, fee)

\* By a keeper.
ForceUnlock(id) == IsLocked(id) /\ locks[id].over /\ Release(id, 0)

ClaimRewards(id) ==
    /\ IsLocked(id)
    /\ Owed(id) <= usdc
    /\ usdc' = usdc - Owed(id)
    /\ locks' = [locks EXCEPT ![id].last = perPoint]
    /\ UNCHANGED <<tokenIds, totalLockPoints, perPoint, trancheShares, distributions, excess>>

\* Each of the whole points has a share in the rewards, and the fraction of a
\* point left over has it besides.
CreditedBeyond(rewards) ==
    CeilDiv(rewards * (totalLockPoints % Precision), Precision * WholePoints)

\* _distributeVeRewards: the vault manager sends the USDC and distributes it, if
\* there are points.
DistributeRewards(rewards) ==
    /\ distributions < MaxDistributions
    /\ WholePoints > 0
    /\ usdc' = usdc + rewards
    /\ perPoint' = perPoint + (rewards * Precision * Precision * Precision) \div WholePoints
    /\ distributions' = distributions + 1
    /\ excess' = excess + CreditedBeyond(rewards)
    /\ UNCHANGED <<locks, tokenIds, totalLockPoints, trancheShares>>

-----------------------------------------------------------------------------
(* Properties. *)

VeTypeOK(owners) ==
    /\ locks \in [Ids -> LocksOf(owners) \cup {NoLock}]
    /\ tokenIds \in 0 .. MaxLocks /\ distributions \in 0 .. MaxDistributions
    /\ {totalLockPoints, perPoint, trancheShares, usdc} \subseteq Nat
    /\ excess \in Nat

\* The shares and the points that the contract counts are those of the locks,
\* however they ended (VeTranche.sol:124-198).
LocksExact ==
    /\ trancheShares = SumFunction([id \in Ids |-> locks[id].shares])
    /\ totalLockPoints =
         SumFunction([id \in Ids |-> IF IsLocked(id) THEN Points(id) ELSE 0])

\* The contract has the USDC of all that the locks have earned together, but for
\* what distributions credited beyond it: the accumulator is raised by the
\* rewards over the whole points, while a lock earns on its fractions too
\* (VeTranche.sol:270-304).  With points that are whole, all of it is there.
RewardsBacked ==
    SumFunction([id \in Ids |-> IF IsLocked(id) THEN Owed(id) ELSE 0]) <= usdc + excess
=============================================================================
