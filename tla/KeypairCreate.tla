---------------------------- MODULE KeypairCreate ---------------------------
(***************************************************************************)
(* `minisign -G` without --force: write_keypair_files_create_new           *)
(* (rs/src/ops/generate.rs).  The run takes no lock.  It stages both files *)
(* under temporary names, hard-links the secret key into place and then    *)
(* the public key, and removes by name what it linked when a later step    *)
(* fails.                                                                  *)
(***************************************************************************)
EXTENDS KeypairFiles

(***************************************************************************)
(* Path::exists on each final path: a diagnostic, not the guarantee.       *)
(***************************************************************************)
CheckAbsent(p) ==
    /\ \/ /\ pc[p] = "checkSecret"
          /\ Goto(p, IF file["secret"] = None THEN "checkPublic" ELSE "err")
       \/ /\ pc[p] = "checkPublic"
          /\ Goto(p, IF file["public"] = None THEN "stageSecret" ELSE "err")
    /\ UNCHANGED <<file, lock, then, polls, tmp, bak, told, faults>>

Stage(p) ==
    \/ pc[p] = "stageSecret" /\ WriteTemp(p, "secret", "stagePublic", "err", "err")
    \/ pc[p] = "stagePublic" /\ WriteTemp(p, "public", "linkSecret", "dropStagedSecret", "err")

\* Bug: rename(tmp, path), which replaces what is there.
LinkReplacing(p, path, next, onError) ==
    /\ \/ /\ Works
          /\ file' = [file EXCEPT ![path] = p]
          /\ Goto(p, next) /\ UNCHANGED then
       \/ Fails /\ GotoThen(p, onError, "err") /\ UNCHANGED file
    /\ UNCHANGED <<lock, polls, tmp, bak, told>>

(***************************************************************************)
(* hard_link(tmp, path) fails when anything is at path.                    *)
(***************************************************************************)
Link(p, path, next, onError) ==
    /\ \/ /\ Works /\ file[path] = None
          /\ file' = [file EXCEPT ![path] = p]
          /\ Goto(p, next) /\ UNCHANGED then
       \/ /\ (Works /\ file[path] # None) \/ Fails
          /\ GotoThen(p, onError, "err") /\ UNCHANGED file
    /\ UNCHANGED <<lock, polls, tmp, bak, told>>

\* Bug: a lost race is undone like a late failure.
LinkSecretThenUndo(p) == pc[p] = "linkSecret" /\ Link(p, "secret", "syncSecret", "undoSecret")

\* Bug: the secret key stays when the public key cannot be linked.
LinkPublicNoUndo(p) == pc[p] = "linkPublic" /\ Link(p, "public", "syncPublic", "dropSecretTmp")

LinkSecret(p) == pc[p] = "linkSecret" /\ Link(p, "secret", "syncSecret", "dropSecretTmp")
SyncSecret(p) == pc[p] = "syncSecret" /\ SyncParent(p, "linkPublic", "undoSecret", "err")
LinkPublic(p) == pc[p] = "linkPublic" /\ Link(p, "public", "syncPublic", "undoSecret")

\* Bug: only the secret key is undone.
SyncPublicHalfUndone(p) ==
    /\ pc[p] = "syncPublic"
    /\ \/ Works /\ GotoThen(p, "dropSecretTmp", "ok")
       \/ Fails /\ GotoThen(p, "undoSecret", "err")
    /\ UNCHANGED <<file, lock, polls, tmp, bak, told>>

\* Bug: the public key is removed once more at the end.
SyncPublicUndoneTwice(p) ==
    /\ pc[p] = "syncPublic"
    /\ \/ Works /\ GotoThen(p, "dropSecretTmp", "ok")
       \/ Fails /\ GotoThen(p, "undoPublic", "undoPublic")
    /\ UNCHANGED <<file, lock, polls, tmp, bak, told>>

\* The last sync decides: on success the temporary names go and the run is Ok.
SyncPublic(p) ==
    /\ pc[p] = "syncPublic"
    /\ \/ Works /\ GotoThen(p, "dropSecretTmp", "ok")
       \/ Fails /\ GotoThen(p, "undoPublic", "err")
    /\ UNCHANGED <<file, lock, polls, tmp, bak, told>>

(***************************************************************************)
(* The error paths: the public key goes first, then the secret key, then   *)
(* the temporary files.                                                    *)
(***************************************************************************)
UndoPublic(p) == pc[p] = "undoPublic" /\ RemoveFinal(p, "public", "undoSecret", "fileLeft")
UndoSecret(p) == pc[p] = "undoSecret" /\ RemoveFinal(p, "secret", "dropSecretTmp", "fileLeft")

CreateStep(p) ==
    \/ CheckAbsent(p) \/ Stage(p)
    \/ LinkSecret(p) \/ SyncSecret(p) \/ LinkPublic(p) \/ SyncPublic(p)
    \/ UndoPublic(p) \/ UndoSecret(p)
    \/ DropTemps(p)

CreateLabels ==
    {"checkSecret", "checkPublic", "stageSecret", "stagePublic", "linkSecret",
     "syncSecret", "linkPublic", "syncPublic", "undoPublic", "undoSecret",
     "dropSecretTmp", "dropPublicTmp", "dropStagedSecret"} \union Ended

CreateInit ==
    /\ FilesInit
    /\ lock = NoLock
    /\ pc = [p \in Procs |-> "checkSecret"]

CreateNext == \E p \in Procs : CreateStep(p) \/ Crash(p)

CreateSpec == CreateInit /\ [][CreateNext]_vars

-----------------------------------------------------------------------------
CreateTypeOK ==
    /\ file \in [Path -> Contents]
    /\ lock = NoLock
    /\ pc \in [Procs -> CreateLabels]
    /\ then \in [Procs -> {"ok", "err"}]
    /\ polls = [p \in Procs |-> 0]
    /\ tmp \in [Procs -> SUBSET Path]
    /\ bak = [p \in Procs |-> NoBackup]
    /\ told \in [Procs -> SUBSET Messages]
    /\ faults \in Nat

(***************************************************************************)
(* A run never overwrites or removes a file it did not itself put there:   *)
(* what leaves a final path leaves it by a step of the run that made it.   *)
(* (SECURITY.md: "an existing file is never overwritten"; the undo by name *)
(* after a lost race must not remove the winner's key.)                    *)
(***************************************************************************)
ForeignFileKept ==
    [][\A path \in Path :
         file[path] # None /\ file'[path] # file[path] =>
            /\ file'[path] = None
            /\ file[path] \in Procs
            /\ pc[file[path]] \in {"undoSecret", "undoPublic"}
            /\ pc'[file[path]] # pc[file[path]]]_vars

(***************************************************************************)
(* A run that returned Ok has both files of its pair in place, and they    *)
(* stay there whatever the other runs go on to do.                         *)
(***************************************************************************)
OkMeansInstalled ==
    \A p \in Procs : pc[p] = "ok" => \A path \in Path : file[path] = p

(***************************************************************************)
(* A run that failed, and did not say that a removal failed, has left      *)
(* neither file at a final path (the orphaned key of                       *)
(* test_no_force_pubkey_fail_removes_secret_key).                          *)
(***************************************************************************)
FailureLeavesNoKey ==
    \A p \in Procs : pc[p] = "err" /\ Quiet(p) => \A path \in Path : file[path] # p

(***************************************************************************)
(* No interleaving leaves the files of two different pairs side by side,   *)
(* and a public key of a run is there only while its secret key is, unless *)
(* the run said that a removal failed.                                     *)
(***************************************************************************)
NeverMixed ==
    /\ \/ Matched
       \/ \E path \in Path : file[path] = None
       \/ \E p \in Procs : ~Quiet(p)
    /\ \A p \in Procs : file["public"] = p /\ Quiet(p) => file["secret"] = p

(***************************************************************************)
(* Of any number of runs that race for an empty directory, and meet no     *)
(* fault, exactly one succeeds (test_concurrent_key_generation_same_path). *)
(* An old file, once there, stays (ForeignFileKept), so a directory        *)
(* without one now was empty at the start.                                 *)
(***************************************************************************)
ExactlyOneWinner ==
    /\ \A p \in Procs : pc[p] \in {"ok", "err"}
    /\ faults = 0
    /\ \A path \in Path : file[path] # Old
    => Cardinality({p \in Procs : pc[p] = "ok"}) = 1
=============================================================================
