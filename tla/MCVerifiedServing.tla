--------------------------- MODULE MCVerifiedServing ---------------------------
(* Symmetry for the runs that check no liveness. *)
EXTENDS VerifiedServing, TLC

RunSymmetry == Permutations(Runs)
=============================================================================
