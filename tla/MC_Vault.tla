------------------------------- MODULE MC_Vault -------------------------------
(* An instance of Vault for TLC. *)
EXTENDS Vault
=============================================================================
