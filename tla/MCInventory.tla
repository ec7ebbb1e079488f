---------------------------- MODULE MCInventory ----------------------------
(* An instance of Inventory for TLC.                                        *)
EXTENDS Inventory, TLC

CONSTANTS r1, r2, a, b

Symmetry == Permutations(Request) \cup Permutations(Order)
=============================================================================
