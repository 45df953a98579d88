----------------------------- MODULE MC_Referral -----------------------------
(* An instance of Referral for TLC. *)
EXTENDS Referral, TLC

CONSTANTS alice, bob, carol

AccountsSymmetry == Permutations({alice, bob, carol})
=============================================================================
