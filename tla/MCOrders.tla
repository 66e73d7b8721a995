------------------------------ MODULE MCOrders ------------------------------
(***************************************************************************)
(* Instances of Orders for TLC.                                            *)
(***************************************************************************)
EXTENDS OrdersSerial, TLC

CONSTANTS p1

\* All orders buy one piece of the same product.
MCProductOf == [o \in Orders |-> p1]
MCQuantity == [o \in Orders |-> 1]

Symmetry == Permutations(Requests) \cup Permutations(EscrowIds)
=============================================================================
