---------------------------- MODULE MCAtomicFile ----------------------------
(* Model checking of AtomicFile: four writers of one path. *)
EXTENDS AtomicFile
=============================================================================
