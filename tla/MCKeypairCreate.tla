-------------------------- MODULE MCKeypairCreate ---------------------------
(* Model checking of KeypairCreate: a few runs of -G on one pair of paths. *)
EXTENDS KeypairCreate, TLC

ProcSymmetry == Permutations(Procs)
=============================================================================
