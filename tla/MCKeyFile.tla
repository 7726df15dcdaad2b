----------------------------- MODULE MCKeyFile -----------------------------
(***************************************************************************)
(* The key file on a small instance.  The limits are the source's shifted  *)
(* down by 17 bits (256_000_000 / 2^24 is 15.26, the first whole memlimit  *)
(* at least that is 16); opslimit and memlimit keep libsodium's order.     *)
(***************************************************************************)
EXTENDS KeyFile, TLC

MCLogN == {3, 4, 5, 8}          \* production, over budget, overflow, no shift

\* No limits, three encodings within or over the budget, an N of 6, twice the r,
\* neither a multiple, a budget or an opslimit on its own, and zeros.
MCRottenLimits ==
  {Limits(l[1], l[2]) : l \in {<<0, 0>>, <<4, 8>>, <<8, 16>>, <<32, 64>>, <<64, 128>>,
                               <<24, 48>>, <<64, 64>>, <<33, 64>>, <<32, 65>>,
                               <<32, 128>>, <<32, 0>>, <<0, 64>>}}
Symmetry == Permutations(Process) \cup Permutations(Password)
=============================================================================
