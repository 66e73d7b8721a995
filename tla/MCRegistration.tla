--------------------------- MODULE MCRegistration ---------------------------
(***************************************************************************)
(* An instance of Registration for TLC.                                    *)
(***************************************************************************)
EXTENDS Registration, TLC

Symmetry == Permutations(Handlers)
=============================================================================
