---------------------------- MODULE KeypairFiles ----------------------------
(***************************************************************************)
(* The directory that two or more `minisign -G` processes write the same   *)
(* key pair into, and the steps that both ways of writing it share         *)
(* (rs/src/ops/generate.rs).  KeypairCreate adds the steps of a run        *)
(* without --force, KeypairOverwrite those of a run with --force, and      *)
(* Keypair composes them.                                                  *)
(*                                                                         *)
(* Every process is one run of write_keypair_files_create_new or           *)
(* write_keypair_files_with_overwrite; every action is one call of the     *)
(* file system, so the steps of two processes interleave between any two   *)
(* calls.  A file is named by the path it is at and holds the pair of the  *)
(* process that generated it: contents are never taken apart.              *)
(***************************************************************************)
EXTENDS Naturals, FiniteSets

CONSTANTS
    Procs,       \* the runs of minisign -G
    None,        \* no file at a path
    Old,         \* a pair that was there before any of the runs started
    MaxFaults,   \* bound on the file system calls that fail for no modelled reason
    Crashable    \* the runs that may be killed between two calls

Path == {"secret", "public"}
Pairs == Procs \union {Old}
Contents == Pairs \union {None}

ASSUME PairNames == None # Old /\ None \notin Procs /\ Old \notin Procs
ASSUME FaultBound == MaxFaults \in Nat
ASSUME CrashableProcs == Crashable \subseteq Procs

VARIABLES
    file,    \* file[path]: whose pair is at the final secret or public path
    lock,    \* the .force.lock file: who created it, and is it old enough to be stale
    pc,      \* pc[p]: the call process p makes next, or how p ended
    then,    \* then[p]: where p goes on once its temporary files are dropped
    polls,   \* polls[p]: how often p slept while waiting for the lock
    tmp,     \* tmp[p]: the temporary files of p that exist
    bak,     \* bak[p][path]: what p renamed away from the path to its .bak name
    told,    \* told[p]: the kinds of message p has written to stderr
    faults   \* the failed calls so far

vars == <<file, lock, pc, then, polls, tmp, bak, told, faults>>

NoLock == [by |-> None, age |-> "young"]
NoBackup == [path \in Path |-> None]
Messages == {"tempLeft", "fileLeft", "lockLeft", "critical"}
Ended == {"ok", "err", "crashed"}

(***************************************************************************)
(* A call fails, for a reason outside the model (ENOSPC, EIO, EACCES).     *)
(***************************************************************************)
Fails == faults < MaxFaults /\ faults' = faults + 1
Works == UNCHANGED faults

Goto(p, label) == pc' = [pc EXCEPT ![p] = label]
GotoThen(p, label, after) == Goto(p, label) /\ then' = [then EXCEPT ![p] = after]
Tell(p, message) == told' = [told EXCEPT ![p] = @ \union {message}]

(***************************************************************************)
(* write_temp_file: create_new under a fresh random name, write_all,       *)
(* sync_all.  Each of the three can fail; the file is left behind when it  *)
(* is the write or the sync.                                               *)
(***************************************************************************)
WriteTemp(p, path, next, onError, after) ==
    /\ \/ /\ Works
          /\ tmp' = [tmp EXCEPT ![p] = @ \union {path}]
          /\ Goto(p, next) /\ UNCHANGED then
       \/ /\ Fails
          /\ \/ UNCHANGED tmp
             \/ tmp' = [tmp EXCEPT ![p] = @ \union {path}]
          /\ GotoThen(p, onError, after)
    /\ UNCHANGED <<file, lock, polls, bak, told>>

(***************************************************************************)
(* sync_parent_directory, for a path that names its directory.             *)
(***************************************************************************)
SyncParent(p, next, onError, after) ==
    /\ \/ Works /\ Goto(p, next) /\ UNCHANGED then
       \/ Fails /\ GotoThen(p, onError, after)
    /\ UNCHANGED <<file, lock, polls, tmp, bak, told>>

(***************************************************************************)
(* warn_cleanup_failure(tmp, remove_file(tmp)): the removal of a temporary *)
(* file may fail, also because the file was renamed away; that is a        *)
(* warning and no more.                                                    *)
(***************************************************************************)
DropTemp(p, path, next) ==
    /\ \/ /\ Works /\ path \in tmp[p]
          /\ tmp' = [tmp EXCEPT ![p] = @ \ {path}]
          /\ UNCHANGED told
       \/ /\ (Works /\ path \notin tmp[p]) \/ Fails
          /\ Tell(p, "tempLeft") /\ UNCHANGED tmp
    /\ Goto(p, next)
    /\ UNCHANGED <<file, lock, then, polls, bak>>

\* Both temporary files, the secret one first, or only the secret one.
DropTemps(p) ==
    \/ pc[p] = "dropSecretTmp" /\ DropTemp(p, "secret", "dropPublicTmp")
    \/ pc[p] = "dropPublicTmp" /\ DropTemp(p, "public", then[p])
    \/ pc[p] = "dropStagedSecret" /\ DropTemp(p, "secret", then[p])

(***************************************************************************)
(* remove_file at a final path removes whatever is at that name.           *)
(***************************************************************************)
RemoveFinal(p, path, next, message) ==
    /\ \/ /\ Works /\ file[path] # None
          /\ file' = [file EXCEPT ![path] = None]
          /\ UNCHANGED told
       \/ /\ (Works /\ file[path] = None) \/ Fails
          /\ Tell(p, message) /\ UNCHANGED file
    /\ Goto(p, next)
    /\ UNCHANGED <<lock, then, polls, tmp, bak>>

(***************************************************************************)
(* The process is killed: nothing of it runs any more and every file stays.*)
(***************************************************************************)
Crash(p) ==
    /\ p \in Crashable
    /\ pc[p] \notin Ended
    /\ Goto(p, "crashed")
    /\ UNCHANGED <<file, lock, then, polls, tmp, bak, told, faults>>

(***************************************************************************)
(* The directory holds an old pair, one old file, or nothing.              *)
(***************************************************************************)
FilesInit ==
    /\ file \in [Path -> {None, Old}]
    /\ then = [p \in Procs |-> "err"]
    /\ polls = [p \in Procs |-> 0]
    /\ tmp = [p \in Procs |-> {}]
    /\ bak = [p \in Procs |-> NoBackup]
    /\ told = [p \in Procs |-> {}]
    /\ faults = 0

-----------------------------------------------------------------------------
\* Run p has not warned that a file it created at a final path could not be removed.
Quiet(p) == "fileLeft" \notin told[p]

\* The two final files belong to one pair.
Matched == file["secret"] = file["public"]
=============================================================================
