------------------------------ MODULE MCKeypair -----------------------------
(* Model checking of Keypair: one run of -G and one of -G --force. *)
EXTENDS Keypair
=============================================================================
