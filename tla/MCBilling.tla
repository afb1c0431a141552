------------------------------ MODULE MCBilling ------------------------------
(* Instances of Billing for TLC.                                            *)
EXTENDS Billing, TLC

Symmetry == Permutations(Calls)
===============================================================================
