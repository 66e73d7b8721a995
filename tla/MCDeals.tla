------------------------------ MODULE MCDeals ------------------------------
(***************************************************************************)
(* An instance of Deals for TLC.                                           *)
(***************************************************************************)
EXTENDS Deals, TLC

\* The seller is reviewed twice, the buyer once.
MCMaxCount == [a \in Accounts |-> IF a = Seller THEN 2 ELSE 1]

Symmetry == Permutations(Handlers) \cup Permutations(ChatIds) \cup Permutations(OrderIds)
=============================================================================
