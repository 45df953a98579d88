------------------------------ MODULE Referral ------------------------------
(***************************************************************************)
(* Referral.sol: who owns a referral code, the code and the tier of each   *)
(* referrer, and the code each trader uses.  The two tables of codes,      *)
(* codeOwners and codes, are kept in step by hand through registration,    *)
(* transfers offered and accepted, and reassignment by governance.         *)
(***************************************************************************)
EXTENDS Integers

CONSTANTS
    Accounts,    \* whoever sends a transaction about a code
    Traders,     \* whoever trades with one, among them or not
    Zero,        \* address(0)
    Codes,
    NoCode,      \* bytes32(0)
    TierIds      \* tiers governance gives, next to 0 and the default

DefaultTier == 1

ASSUME ReferralAssumption ==
    /\ Zero \notin Accounts /\ NoCode \notin Codes
    /\ TierIds \subseteq Nat

VARIABLES
    codeOwners, pendingCodeOwners,  \* of each code
    codes, referrerTiers,           \* of each address
    traderReferralCodes,
    \* History, read by the properties alone: the addresses whose tier is the one
    \* setReferrerTier gave, and the codes taken from an owner when governance
    \* gave address(0) another.
    graded, reclaimed

vars == <<codeOwners, pendingCodeOwners, codes, referrerTiers, traderReferralCodes,
          graded, reclaimed>>

Addresses == Accounts \cup {Zero}
AnyCode == Codes \cup {NoCode}

Init ==
    /\ codeOwners = [c \in AnyCode |-> Zero]
    /\ pendingCodeOwners = [c \in AnyCode |-> Zero]
    /\ codes = [a \in Addresses |-> NoCode]
    /\ referrerTiers = [a \in Addresses |-> 0]
    /\ traderReferralCodes = [t \in Traders |-> NoCode]
    /\ graded = {}
    /\ reclaimed = {}

-----------------------------------------------------------------------------
(* A sender is an account; governance names any address. *)

SetReferrerTier(referrer, tierId) ==
    /\ referrerTiers' = [referrerTiers EXCEPT ![referrer] = tierId]
    /\ graded' = graded \cup {referrer}
    /\ UNCHANGED <<codeOwners, pendingCodeOwners, codes, traderReferralCodes, reclaimed>>

SetTraderReferralCode(account, c) ==
    /\ traderReferralCodes' = [traderReferralCodes EXCEPT ![account] = c]
    /\ UNCHANGED <<codeOwners, pendingCodeOwners, codes, referrerTiers, graded, reclaimed>>

\* Any code that has no owner can be registered, that of nobody too.
Slip_RegisterCode(sender, c) ==
    /\ codeOwners[c] = Zero
    /\ codes[sender] = NoCode
    /\ codeOwners' = [codeOwners EXCEPT ![c] = sender]
    /\ codes' = [codes EXCEPT ![sender] = c]
    /\ referrerTiers' = [referrerTiers EXCEPT ![sender] = DefaultTier]
    /\ graded' = graded \ {sender}
    /\ UNCHANGED <<pendingCodeOwners, traderReferralCodes, reclaimed>>

RegisterCode(sender, c) ==
    /\ c # NoCode
    /\ codeOwners[c] = Zero
    /\ codes[sender] = NoCode
    /\ codeOwners' = [codeOwners EXCEPT ![c] = sender]
    /\ codes' = [codes EXCEPT ![sender] = c]
    /\ referrerTiers' = [referrerTiers EXCEPT ![sender] = DefaultTier]
    /\ graded' = graded \ {sender}
    /\ UNCHANGED <<pendingCodeOwners, traderReferralCodes, reclaimed>>

SetPendingCodeOwnershipTransfer(sender, c, newAccount) ==
    /\ c # NoCode
    /\ codeOwners[c] = sender
    /\ pendingCodeOwners' = [pendingCodeOwners EXCEPT ![c] = newAccount]
    /\ UNCHANGED <<codeOwners, codes, referrerTiers, traderReferralCodes, graded, reclaimed>>

\* The code the new owner had before keeps its owner.
Slip_AcceptCodeOwnership(sender, c) ==
    LET oldOwner == codeOwners[c] IN
    /\ pendingCodeOwners[c] = sender
    /\ codeOwners' = [codeOwners EXCEPT ![c] = sender]
    /\ codes' = [codes EXCEPT ![sender] = c]
    /\ pendingCodeOwners' = [pendingCodeOwners EXCEPT ![c] = Zero]
    /\ referrerTiers' = [referrerTiers EXCEPT ![sender] = referrerTiers[oldOwner],
                                              ![oldOwner] = 0]
    /\ graded' = graded \ {sender, oldOwner}
    /\ UNCHANGED <<traderReferralCodes, reclaimed>>

\* The new owner's former code is given up, with any offer of it.
AcceptCodeOwnership(sender, c) ==
    LET oldOwner == codeOwners[c] IN
    /\ pendingCodeOwners[c] = sender
    /\ codeOwners' = [codeOwners EXCEPT ![codes[sender]] = Zero, ![c] = sender]
    /\ codes' = [codes EXCEPT ![sender] = c, ![oldOwner] = NoCode]
    /\ pendingCodeOwners' = [pendingCodeOwners EXCEPT ![codes[sender]] = Zero, ![c] = Zero]
    /\ referrerTiers' = [referrerTiers EXCEPT ![sender] = referrerTiers[oldOwner],
                                              ![oldOwner] = 0]
    /\ graded' = graded \ {sender, oldOwner}
    /\ UNCHANGED <<traderReferralCodes, reclaimed>>

\* The codes GovSetCodeOwner takes from whoever registered them after they were
\* given to address(0).
Reclaims(cleared, newAccount) ==
    {c \in Codes : newAccount = Zero /\ c = cleared[Zero] /\ codeOwners[c] # Zero}

\* The tier stays with the former owner as well.
Slip_GovSetCodeOwner(c, newAccount) ==
    LET account == codeOwners[c]
        cleared == [codes EXCEPT ![account] = NoCode]
    IN
    /\ c # NoCode
    /\ codeOwners' = [codeOwners EXCEPT ![cleared[newAccount]] = Zero, ![c] = newAccount]
    /\ codes' = [cleared EXCEPT ![newAccount] = c]
    /\ referrerTiers' = [referrerTiers EXCEPT ![newAccount] = referrerTiers[account]]
    /\ graded' = graded \ {newAccount, account}
    /\ reclaimed' = reclaimed \cup Reclaims(cleared, newAccount)
    /\ UNCHANGED <<pendingCodeOwners, traderReferralCodes>>

\* An offer of the code is left as it is.
GovSetCodeOwner(c, newAccount) ==
    LET account == codeOwners[c]
        cleared == [codes EXCEPT ![account] = NoCode]
    IN
    /\ c # NoCode
    /\ codeOwners' = [codeOwners EXCEPT ![cleared[newAccount]] = Zero, ![c] = newAccount]
    /\ codes' = [cleared EXCEPT ![newAccount] = c]
    /\ referrerTiers' = [referrerTiers EXCEPT ![newAccount] = referrerTiers[account],
                                              ![account] = 0]
    /\ graded' = graded \ {newAccount, account}
    /\ reclaimed' = reclaimed \cup Reclaims(cleared, newAccount)
    /\ UNCHANGED <<pendingCodeOwners, traderReferralCodes>>

Next ==
    \/ \E a \in Addresses, tierId \in TierIds : SetReferrerTier(a, tierId)
    \/ \E t \in Traders, c \in AnyCode : SetTraderReferralCode(t, c)
    \/ \E a \in Accounts, c \in AnyCode :
         \/ RegisterCode(a, c)
         \/ \E b \in Addresses : SetPendingCodeOwnershipTransfer(a, c, b)
         \/ AcceptCodeOwnership(a, c)
    \/ \E c \in AnyCode, a \in Addresses : GovSetCodeOwner(c, a)

Spec == Init /\ [][Next]_vars

-----------------------------------------------------------------------------
(* Properties. *)

\* Every variable has its type, and bytes32(0), which stands for no code, has no
\* owner and is offered to nobody (Referral.sol:117, 135, 172).
TypeOK ==
    /\ codeOwners \in [AnyCode -> Addresses] /\ codeOwners[NoCode] = Zero
    /\ pendingCodeOwners \in [AnyCode -> Addresses] /\ pendingCodeOwners[NoCode] = Zero
    /\ codes \in [Addresses -> AnyCode]
    /\ referrerTiers \in [Addresses -> Nat]
    /\ traderReferralCodes \in [Traders -> AnyCode]
    /\ graded \subseteq Addresses
    /\ reclaimed \subseteq Codes

\* The referrer of a trader, as traderReferralDiscount finds it.
Referrer(account) ==
    IF traderReferralCodes[account] # NoCode THEN codeOwners[traderReferralCodes[account]]
    ELSE Zero

\* A referrer's code is his: whatever is registered, transferred or reassigned,
\* no other account ends as the owner of a code that a referrer has as his own.
\* Only a code that was given to address(0) and registered anew can be lost, to
\* the next code address(0) is given (Referral.sol:116-184).
CodeHolderOwns ==
    \A a \in Accounts :
      codes[a] # NoCode /\ codes[a] \notin reclaimed => codeOwners[codes[a]] = a

\* A discount has a source: the referrer in whose tier a trader is either has a
\* code or was put in that tier by governance.  With a code that passes to
\* another the tier goes too; a trader nobody referred, whose referrer is
\* address(0), has none unless governance gave address(0) a code or a tier
\* (Referral.sol:90-93, 116-184, 194-217, TradingStorage.sol:554-574).
DiscountsHaveASource ==
    \A account \in Traders :
      LET referrer == Referrer(account) IN
      referrerTiers[referrer] # 0 => codes[referrer] # NoCode \/ referrer \in graded
=============================================================================
