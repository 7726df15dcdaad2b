------------------------------- MODULE Keypair ------------------------------
(***************************************************************************)
(* Runs of `minisign -G` with and without --force on the same pair of      *)
(* paths (the two branches at the end of generate_with_log_n,              *)
(* rs/src/ops/generate.rs).  The runs without --force take no lock.        *)
(***************************************************************************)
EXTENDS KeypairCreate, KeypairOverwrite

CONSTANT Creators    \* the runs without --force, a part of Procs

Forcers == Procs \ Creators

Init ==
    /\ FilesInit
    /\ LockInit
    /\ pc = [p \in Procs |-> IF p \in Creators THEN "checkSecret" ELSE "tryLock"]

Next ==
    \/ \E p \in Creators : CreateStep(p) \/ Crash(p)
    \/ \E p \in Forcers : OverwriteStep(p) \/ Crash(p)
    \/ LockAges

Spec == Init /\ [][Next]_vars

-----------------------------------------------------------------------------
(***************************************************************************)
(* A run without --force leaves the files of every other run alone         *)
(* (SECURITY.md: "Without --force ... an existing file is never            *)
(* overwritten").                                                          *)
(***************************************************************************)
CreateLeavesOthersAlone ==
    [][\A p \in Creators, path \in Path :
         pc'[p] # pc[p] /\ file'[path] # file[path] => file[path] \in {None, p}]_vars
=============================================================================
