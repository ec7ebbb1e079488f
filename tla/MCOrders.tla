------------------------------ MODULE MCOrders ------------------------------
(* Instances of Orders for TLC.                                             *)
EXTENDS Orders, TLC

CONSTANTS q1, q2, q3, a, b, c

Symmetry == Permutations(Request) \cup Permutations(Name)
=============================================================================
