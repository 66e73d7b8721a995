---------------------------- MODULE MCInventory ----------------------------
(***************************************************************************)
(* Instances of Inventory for TLC.                                         *)
(***************************************************************************)
EXTENDS Inventory, TLC

CONSTANTS p1

\* All offers are made on the same product.
MCProductOf == [f \in Offers |-> p1]

\* A negative stock passes the schema of PATCH /products/:id.
MCStockValues == {-1, 1}

Symmetry == Permutations(Requests) \cup Permutations(OrderIds) \cup Permutations(Offers)

=============================================================================
