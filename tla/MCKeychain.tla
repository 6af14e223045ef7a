------------------------------ MODULE MCKeychain ------------------------------
(* Runs of the keychain script for TLC. *)
EXTENDS BuildKeychain, TLC

Symmetric == Permutations(Runs)
=============================================================================
