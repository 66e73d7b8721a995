-------------------------- MODULE MCVerifications --------------------------
(***************************************************************************)
(* Instances of Verifications for TLC.                                     *)
(***************************************************************************)
EXTENDS Verifications, TLC

Symmetry == Permutations(VerIds) \cup Permutations(Handlers)
=============================================================================
