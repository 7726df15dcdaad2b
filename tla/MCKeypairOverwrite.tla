------------------------ MODULE MCKeypairOverwrite --------------------------
(* Model checking of KeypairOverwrite: a few runs of -G --force on one pair of paths. *)
EXTENDS KeypairOverwrite, TLC

ProcSymmetry == Permutations(Procs)
=============================================================================
