------------------------- MODULE MCRuntimePublication -------------------------
(* Symmetry for the runs that check no liveness. *)
EXTENDS RuntimePublication, TLC

RunSymmetry == Permutations(Proofs) \cup Permutations(Masters) \cup Permutations(Others)
=============================================================================
