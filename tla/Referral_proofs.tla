--------------------------- MODULE Referral_proofs ---------------------------
(* Proofs about Referral, for any accounts and codes. *)
EXTENDS Referral, TLAPS

\* DiscountsHaveASource says it of the referrers traders have; it is true of all.
TiersHaveASource ==
    \A a \in Addresses : referrerTiers[a] # 0 => codes[a] # NoCode \/ a \in graded

Inv ==
    /\ TypeOK
    /\ CodeHolderOwns
    /\ TiersHaveASource

\* At the start nobody has a code or a tier.
LEMMA InitInv == Init => Inv
BY ReferralAssumption
   DEF Init, Inv, TypeOK, CodeHolderOwns, TiersHaveASource, AnyCode, Addresses

-----------------------------------------------------------------------------
(* The types. *)

\* An account is never address(0), so nobody registers, offers or accepts
\* bytes32(0).
LEMMA NextKeepsTypes ==
    ASSUME TypeOK, [Next]_vars
    PROVE  TypeOK'
<1> USE ReferralAssumption DEF AnyCode, Addresses
<1>1. ASSUME NEW a \in Addresses, NEW tierId \in TierIds, SetReferrerTier(a, tierId)
      PROVE  TypeOK'
  BY <1>1 DEF TypeOK, SetReferrerTier
<1>2. ASSUME NEW t \in Traders, NEW c \in AnyCode, SetTraderReferralCode(t, c)
      PROVE  TypeOK'
  BY <1>2 DEF TypeOK, SetTraderReferralCode
<1>3. ASSUME NEW a \in Accounts, NEW c \in AnyCode, RegisterCode(a, c) PROVE TypeOK'
  BY <1>3 DEF TypeOK, RegisterCode, DefaultTier
<1>4. ASSUME NEW a \in Accounts, NEW c \in AnyCode, NEW b \in Addresses,
             SetPendingCodeOwnershipTransfer(a, c, b)
      PROVE  TypeOK'
  BY <1>4 DEF TypeOK, SetPendingCodeOwnershipTransfer
<1>5. ASSUME NEW a \in Accounts, NEW c \in AnyCode, AcceptCodeOwnership(a, c) PROVE TypeOK'
  BY <1>5 DEF TypeOK, AcceptCodeOwnership
<1>6. ASSUME NEW c \in AnyCode, NEW a \in Addresses, GovSetCodeOwner(c, a) PROVE TypeOK'
  BY <1>6 DEF TypeOK, GovSetCodeOwner, Reclaims
<1>7. CASE UNCHANGED vars
  BY <1>7 DEF TypeOK, vars
<1> QED
  BY <1>1, <1>2, <1>3, <1>4, <1>5, <1>6, <1>7 DEF Next

\* The tables hold accounts, codes and tiers, and bytes32(0) has no owner,
\* whatever governance does (Referral.sol:117, 135, 172).
THEOREM TypeCorrect == Spec => []TypeOK
<1>1. Init => TypeOK
  BY InitInv DEF Inv
<1>2. TypeOK /\ [Next]_vars => TypeOK'
  BY NextKeepsTypes
<1> QED
  BY <1>1, <1>2, PTL DEF Spec

-----------------------------------------------------------------------------
(* Codes. *)

\* Who accepts a code gives up his own, and only the former owner loses one: of
\* two holders of a code only one could be its owner.
LEMMA AcceptKeepsHolders ==
    ASSUME TypeOK, CodeHolderOwns, NEW m \in Accounts, NEW c \in AnyCode,
           AcceptCodeOwnership(m, c)
    PROVE  CodeHolderOwns'
<1> USE ReferralAssumption DEF AnyCode, Addresses
<1> DEFINE old == codeOwners[c]
<1>1. ASSUME NEW a \in Accounts, codes'[a] # NoCode, codes'[a] \notin reclaimed'
      PROVE  codeOwners'[codes'[a]] = a
  <2>1. a # old
    BY <1>1 DEF TypeOK, AcceptCodeOwnership
  <2>2. CASE a = m
    BY <2>1, <2>2 DEF TypeOK, AcceptCodeOwnership
  <2>3. CASE a # m
    <3>1. codes'[a] = codes[a] /\ reclaimed' = reclaimed
      BY <2>1, <2>3 DEF TypeOK, AcceptCodeOwnership
    <3>2. codeOwners[codes[a]] = a /\ codes[a] # c
      BY <1>1, <2>1, <3>1 DEF CodeHolderOwns
    <3>3. codes[a] # codes[m]
      BY <1>1, <2>3, <3>1, <3>2 DEF CodeHolderOwns
    <3> QED
      BY <3>1, <3>2, <3>3 DEF TypeOK, AcceptCodeOwnership
  <2> QED
    BY <2>2, <2>3
<1> QED
  BY <1>1 DEF CodeHolderOwns

\* So it is when governance gives a code to an account.  Given to address(0), a
\* code leaves the one address(0) had before without an owner: it is reclaimed
\* if somebody has it.
LEMMA GovKeepsHolders ==
    ASSUME TypeOK, CodeHolderOwns, NEW c \in AnyCode, NEW m \in Addresses,
           GovSetCodeOwner(c, m)
    PROVE  CodeHolderOwns'
<1> USE ReferralAssumption DEF AnyCode, Addresses
<1> DEFINE account == codeOwners[c]
           cleared == [codes EXCEPT ![account] = NoCode]
<1>1. ASSUME NEW a \in Accounts, codes'[a] # NoCode, codes'[a] \notin reclaimed'
      PROVE  codeOwners'[codes'[a]] = a
  <2>1. CASE a = m
    BY <2>1 DEF TypeOK, GovSetCodeOwner
  <2>2. CASE a # m
    <3>1. a # account /\ codes'[a] = codes[a]
      BY <1>1, <2>2 DEF TypeOK, GovSetCodeOwner
    <3>2. reclaimed' = reclaimed \cup Reclaims(cleared, m)
      BY DEF GovSetCodeOwner
    <3>3. codeOwners[codes[a]] = a /\ codes[a] # c
      BY <1>1, <3>1, <3>2 DEF CodeHolderOwns
    <3>4. codes[a] # cleared[m]
      <4>1. CASE m = Zero
        BY <1>1, <3>1, <3>2, <3>3, <4>1 DEF TypeOK, Reclaims
      <4>2. CASE m # Zero
        BY <1>1, <2>2, <3>1, <3>2, <3>3, <4>2 DEF TypeOK, CodeHolderOwns
      <4> QED
        BY <4>1, <4>2
    <3> QED
      BY <3>1, <3>3, <3>4 DEF TypeOK, GovSetCodeOwner
  <2> QED
    BY <2>1, <2>2
<1> QED
  BY <1>1 DEF CodeHolderOwns

-----------------------------------------------------------------------------
(* Tiers. *)

\* Whoever loses a code loses its tier with it.
LEMMA AcceptKeepsSources ==
    ASSUME TypeOK, TiersHaveASource, NEW m \in Accounts, NEW c \in AnyCode,
           AcceptCodeOwnership(m, c)
    PROVE  TiersHaveASource'
<1> USE ReferralAssumption DEF AnyCode, Addresses
<1> DEFINE old == codeOwners[c]
<1>1. c # NoCode
  BY DEF TypeOK, AcceptCodeOwnership
<1>2. ASSUME NEW a \in Addresses, referrerTiers'[a] # 0
      PROVE  codes'[a] # NoCode \/ a \in graded'
  <2>1. a # old
    BY <1>2 DEF TypeOK, AcceptCodeOwnership
  <2>2. CASE a = m
    BY <1>1, <2>1, <2>2 DEF TypeOK, AcceptCodeOwnership
  <2>3. CASE a # m
    BY <1>2, <2>1, <2>3 DEF TypeOK, AcceptCodeOwnership, TiersHaveASource
  <2> QED
    BY <2>2, <2>3
<1> QED
  BY <1>2 DEF TiersHaveASource

\* Also when governance takes the code from him, whomever it goes to.
LEMMA GovKeepsSources ==
    ASSUME TypeOK, TiersHaveASource, NEW c \in AnyCode, NEW m \in Addresses,
           GovSetCodeOwner(c, m)
    PROVE  TiersHaveASource'
<1> USE ReferralAssumption DEF AnyCode, Addresses
<1> DEFINE account == codeOwners[c]
<1>1. ASSUME NEW a \in Addresses, referrerTiers'[a] # 0
      PROVE  codes'[a] # NoCode \/ a \in graded'
  <2>1. a # account
    BY <1>1 DEF TypeOK, GovSetCodeOwner
  <2>2. CASE a = m
    BY <2>2 DEF TypeOK, GovSetCodeOwner
  <2>3. CASE a # m
    BY <1>1, <2>1, <2>3 DEF TypeOK, GovSetCodeOwner, TiersHaveASource
  <2> QED
    BY <2>2, <2>3
<1> QED
  BY <1>1 DEF TiersHaveASource

-----------------------------------------------------------------------------
(* The theorems. *)

\* Every step keeps the invariant, whomever governance gives codes and tiers to.
LEMMA NextKeepsInv ==
    ASSUME Inv, [Next]_vars
    PROVE  Inv'
<1>0. TypeOK /\ CodeHolderOwns /\ TiersHaveASource
  BY DEF Inv
<1>1. TypeOK'
  BY <1>0, NextKeepsTypes
<1>2. ASSUME NEW a \in Addresses, NEW tierId \in TierIds, SetReferrerTier(a, tierId)
      PROVE  CodeHolderOwns' /\ TiersHaveASource'
  <2>1. CodeHolderOwns'
    BY <1>0, <1>2 DEF CodeHolderOwns, SetReferrerTier
  <2>2. TiersHaveASource'
    BY <1>0, <1>2 DEF TypeOK, TiersHaveASource, SetReferrerTier
  <2> QED
    BY <2>1, <2>2
<1>3. ASSUME NEW t \in Traders, NEW c \in AnyCode, SetTraderReferralCode(t, c)
      PROVE  CodeHolderOwns' /\ TiersHaveASource'
  BY <1>0, <1>3 DEF CodeHolderOwns, TiersHaveASource, SetTraderReferralCode
<1>4. ASSUME NEW a \in Accounts, NEW c \in AnyCode, RegisterCode(a, c)
      PROVE  CodeHolderOwns' /\ TiersHaveASource'
  <2>1. CodeHolderOwns'
    BY <1>0, <1>4, ReferralAssumption
       DEF TypeOK, CodeHolderOwns, RegisterCode, AnyCode, Addresses
  <2>2. TiersHaveASource'
    BY <1>0, <1>4 DEF TypeOK, TiersHaveASource, RegisterCode, Addresses
  <2> QED
    BY <2>1, <2>2
<1>5. ASSUME NEW a \in Accounts, NEW c \in AnyCode, NEW b \in Addresses,
             SetPendingCodeOwnershipTransfer(a, c, b)
      PROVE  CodeHolderOwns' /\ TiersHaveASource'
  BY <1>0, <1>5 DEF CodeHolderOwns, TiersHaveASource, SetPendingCodeOwnershipTransfer
<1>6. ASSUME NEW a \in Accounts, NEW c \in AnyCode, AcceptCodeOwnership(a, c)
      PROVE  CodeHolderOwns' /\ TiersHaveASource'
  BY <1>0, <1>6, AcceptKeepsHolders, AcceptKeepsSources
<1>7. ASSUME NEW c \in AnyCode, NEW a \in Addresses, GovSetCodeOwner(c, a)
      PROVE  CodeHolderOwns' /\ TiersHaveASource'
  BY <1>0, <1>7, GovKeepsHolders, GovKeepsSources
<1>8. ASSUME UNCHANGED vars PROVE CodeHolderOwns' /\ TiersHaveASource'
  BY <1>0, <1>8 DEF CodeHolderOwns, TiersHaveASource, vars
<1> QED
  BY <1>1, <1>2, <1>3, <1>4, <1>5, <1>6, <1>7, <1>8 DEF Next, Inv

\* The invariant holds in every state of every behaviour.
THEOREM InvAlways == Spec => []Inv
<1>1. Inv /\ [Next]_vars => Inv'
  BY NextKeepsInv
<1> QED
  BY <1>1, InitInv, PTL DEF Spec

\* A referrer's code is his, but for those governance reclaims from address(0).
THEOREM CodeHolderOwnsAlways == Spec => []CodeHolderOwns
<1>1. Inv => CodeHolderOwns
  BY DEF Inv
<1> QED
  BY <1>1, InvAlways, PTL

\* No trader has a discount but through a referrer with a code, or one, be it
\* address(0), that governance gave a code or a tier (Referral.sol:90, 171, 194).
THEOREM DiscountsHaveASourceAlways == Spec => []DiscountsHaveASource
<1>1. ASSUME TypeOK, NEW t \in Traders PROVE Referrer(t) \in Addresses
  BY <1>1 DEF TypeOK, Referrer, Addresses
<1>2. Inv => DiscountsHaveASource
  BY <1>1 DEF Inv, TiersHaveASource, DiscountsHaveASource
<1> QED
  BY <1>2, InvAlways, PTL
=============================================================================
