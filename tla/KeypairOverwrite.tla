--------------------------- MODULE KeypairOverwrite -------------------------
(***************************************************************************)
(* `minisign -G --force`: write_keypair_files_with_overwrite and what it   *)
(* calls (rs/src/ops/generate.rs).  Runs exclude each other by a lock file *)
(* that only create_new can create; a lock file older than twice the       *)
(* timeout is taken to be a crashed run's and removed.  Under the lock the *)
(* old files are renamed aside, the new ones renamed in, public key first, *)
(* and any failure renames the old ones back.                              *)
(***************************************************************************)
EXTENDS KeypairFiles

CONSTANTS
    MaxPolls,      \* bound on the sleeps of one run while it waits for the lock
    LockLeftOver,  \* may a lock file of a run that was killed earlier be there?
    SlowHolders    \* may a live run hold the lock for more than twice the timeout?

ASSUME PollBound == MaxPolls \in Nat
ASSUME LockSwitches == LockLeftOver \in BOOLEAN /\ SlowHolders \in BOOLEAN

-----------------------------------------------------------------------------
(* acquire_force_overwrite_lock                                            *)

\* Bug: create without create_new.
TryLockPlain(p) ==
    /\ pc[p] = "tryLock"
    /\ \/ /\ Works
          /\ lock' = [by |-> p, age |-> "young"]
          /\ Goto(p, "stageSecret")
       \/ Fails /\ Goto(p, "err") /\ UNCHANGED lock
    /\ UNCHANGED <<file, then, polls, tmp, bak, told>>

\* Bug: AlreadyExists is retried at once.
TryLockSpinning(p) ==
    /\ pc[p] = "tryLock"
    /\ \/ /\ Works /\ lock.by = None
          /\ lock' = [by |-> p, age |-> "young"]
          /\ Goto(p, "stageSecret")
       \/ Works /\ lock.by # None /\ UNCHANGED <<pc, lock>>
       \/ Fails /\ Goto(p, "err") /\ UNCHANGED lock
    /\ UNCHANGED <<file, then, polls, tmp, bak, told>>

\* create_new: the lock is p's, or somebody's, or cannot be had.
TryLock(p) ==
    /\ pc[p] = "tryLock"
    /\ \/ /\ Works /\ lock.by = None
          /\ lock' = [by |-> p, age |-> "young"]
          /\ Goto(p, "stageSecret")
       \/ Works /\ lock.by # None /\ Goto(p, "statLock") /\ UNCHANGED lock
       \/ Fails /\ Goto(p, "err") /\ UNCHANGED lock
    /\ UNCHANGED <<file, then, polls, tmp, bak, told>>

\* lock_is_stale: the age is read here and acted on a call later.
StatLock(p) ==
    /\ pc[p] = "statLock"
    /\ Goto(p, IF lock.by # None /\ lock.age = "stale" THEN "breakLock" ELSE "pollLock")
    /\ UNCHANGED <<file, lock, then, polls, tmp, bak, told, faults>>

\* remove_file by name: whichever lock file is there by now.
BreakLock(p) ==
    /\ pc[p] = "breakLock"
    /\ \/ Works /\ lock.by # None /\ lock' = NoLock /\ Goto(p, "tryLock")
       \/ /\ (Works /\ lock.by = None) \/ Fails
          /\ Goto(p, "pollLock") /\ UNCHANGED lock
    /\ UNCHANGED <<file, then, polls, tmp, bak, told>>

\* The timeout may have passed at any poll; the model sleeps at most MaxPolls times.
PollLock(p) ==
    /\ pc[p] = "pollLock"
    /\ \/ Goto(p, "err") /\ UNCHANGED polls
       \/ /\ polls[p] < MaxPolls
          /\ polls' = [polls EXCEPT ![p] = @ + 1]
          /\ Goto(p, "tryLock")
    /\ UNCHANGED <<file, lock, then, tmp, bak, told, faults>>

\* ForceOverwriteLockGuard::drop: remove_file by name, whoever created it.
Unlock(p) ==
    /\ \E result \in {"ok", "err"} :
          /\ pc[p] = IF result = "ok" THEN "unlockOk" ELSE "unlockErr"
          /\ Goto(p, result)
    /\ \/ Works /\ lock.by # None /\ lock' = NoLock /\ UNCHANGED told
       \/ /\ (Works /\ lock.by = None) \/ Fails
          /\ Tell(p, "lockLeft") /\ UNCHANGED lock
    /\ UNCHANGED <<file, then, polls, tmp, bak>>

(***************************************************************************)
(* Time passes until a lock file counts as stale.  Nothing refreshes it,   *)
(* so with SlowHolders it can also happen under a live run.                *)
(***************************************************************************)
LockAges ==
    /\ lock.by # None /\ lock.age = "young"
    /\ SlowHolders \/ lock.by \notin {p \in Procs : pc[p] \notin Ended}
    /\ lock' = [lock EXCEPT !.age = "stale"]
    /\ UNCHANGED <<file, pc, then, polls, tmp, bak, told, faults>>

-----------------------------------------------------------------------------
(* write_keypair_files_with_overwrite                                      *)

StageTemps(p) ==
    \/ /\ pc[p] = "stageSecret"
       /\ WriteTemp(p, "secret", "stagePublic", "unlockErr", "unlockErr")
    \/ /\ pc[p] = "stagePublic"
       /\ WriteTemp(p, "public", "probeSecret", "dropStagedSecret", "unlockErr")

\* Path::exists decides whether there is anything to back up.
Probe(p, path, present, absent) ==
    /\ Goto(p, IF file[path] # None THEN present ELSE absent)
    /\ UNCHANGED <<file, lock, then, polls, tmp, bak, told, faults>>

\* Bug: the old file is removed, not renamed aside.
BackupByRemoval(p, path, next, after) ==
    /\ \/ /\ Works /\ file[path] # None
          /\ file' = [file EXCEPT ![path] = None]
          /\ Goto(p, next) /\ UNCHANGED then
       \/ /\ (Works /\ file[path] = None) \/ Fails
          /\ GotoThen(p, "dropSecretTmp", after) /\ UNCHANGED file
    /\ UNCHANGED <<lock, polls, tmp, bak, told>>

\* rename(path, backup)
Backup(p, path, next, after) ==
    /\ \/ /\ Works /\ file[path] # None
          /\ bak' = [bak EXCEPT ![p][path] = file[path]]
          /\ file' = [file EXCEPT ![path] = None]
          /\ Goto(p, next) /\ UNCHANGED then
       \/ /\ (Works /\ file[path] = None) \/ Fails
          /\ GotoThen(p, "dropSecretTmp", after) /\ UNCHANGED <<file, bak>>
    /\ UNCHANGED <<lock, polls, tmp, told>>

BackupSecret(p) ==
    \/ pc[p] = "probeSecret" /\ Probe(p, "secret", "backupSecret", "probePublic")
    \/ pc[p] = "backupSecret" /\ Backup(p, "secret", "syncBackupSecret", "unlockErr")
    \/ /\ pc[p] = "syncBackupSecret"
       /\ SyncParent(p, "probePublic", "dropSecretTmp", "unbackSecret")

\* Bug: its failure does not bring the secret key back.
BackupPublicOnly(p) ==
    \/ pc[p] = "probePublic" /\ Probe(p, "public", "backupPublic", "commitPublic")
    \/ pc[p] = "backupPublic" /\ Backup(p, "public", "syncBackupPublic", "unlockErr")
    \/ /\ pc[p] = "syncBackupPublic"
       /\ SyncParent(p, "commitPublic", "dropSecretTmp", "unbackPublic")

BackupPublic(p) ==
    \/ pc[p] = "probePublic" /\ Probe(p, "public", "backupPublic", "commitPublic")
    \/ pc[p] = "backupPublic" /\ Backup(p, "public", "syncBackupPublic", "unbackSecret")
    \/ /\ pc[p] = "syncBackupPublic"
       /\ SyncParent(p, "commitPublic", "dropSecretTmp", "unbackPublic")

\* rename(backup, path), when there is a backup; it replaces what is at path.
Restore(p, path, next) ==
    /\ \/ /\ Works /\ bak[p][path] # None
          /\ file' = [file EXCEPT ![path] = bak[p][path]]
          /\ bak' = [bak EXCEPT ![p][path] = None]
          /\ UNCHANGED told
       \/ Works /\ bak[p][path] = None /\ UNCHANGED <<file, bak, told>>
       \/ /\ Fails /\ bak[p][path] # None
          /\ Tell(p, "critical") /\ UNCHANGED <<file, bak>>
    /\ Goto(p, next)
    /\ UNCHANGED <<lock, then, polls, tmp>>

\* A failure before the commit: what was renamed aside goes back.
Unback(p) ==
    \/ pc[p] = "unbackPublic" /\ Restore(p, "public", "unbackSecret")
    \/ pc[p] = "unbackSecret" /\ Restore(p, "secret", "unlockErr")

-----------------------------------------------------------------------------
(* commit_keypair_files                                                    *)

\* rename(tmp, path): replaces whatever is at path.
Commit(p, path, next, stage) ==
    /\ \/ /\ Works
          /\ file' = [file EXCEPT ![path] = p]
          /\ tmp' = [tmp EXCEPT ![p] = @ \ {path}]
          /\ Goto(p, next) /\ UNCHANGED then
       \/ Fails /\ GotoThen(p, "dropSecretTmp", stage) /\ UNCHANGED <<file, tmp>>
    /\ UNCHANGED <<lock, polls, bak, told>>

\* The stage an error is returned with is the first step of the rollback it needs.
Started == "restoreSecret"
PublicRenamed == "rollbackPublic"
SecretRenamed == "rollbackSecret"

\* Bug: the backups go when the public key is in place.
CommitPublicAlone(p) ==
    \/ pc[p] = "commitPublic" /\ Commit(p, "public", "syncCommitPublic", Started)
    \/ /\ pc[p] = "syncCommitPublic"
       /\ SyncParent(p, "dropSecretBak", "dropSecretTmp", PublicRenamed)

CommitPublic(p) ==
    \/ pc[p] = "commitPublic" /\ Commit(p, "public", "syncCommitPublic", Started)
    \/ /\ pc[p] = "syncCommitPublic"
       /\ SyncParent(p, "commitSecret", "dropSecretTmp", PublicRenamed)

\* Bug: a failed rename is reported at the first stage.
CommitSecretWrongStage(p) ==
    \/ pc[p] = "commitSecret" /\ Commit(p, "secret", "syncCommitSecret", Started)
    \/ /\ pc[p] = "syncCommitSecret"
       /\ SyncParent(p, "dropSecretBak", "dropSecretTmp", SecretRenamed)

\* Bug: a failed sync does not count.
CommitSecretUnsynced(p) ==
    \/ pc[p] = "commitSecret" /\ Commit(p, "secret", "syncCommitSecret", PublicRenamed)
    \/ /\ pc[p] = "syncCommitSecret"
       /\ SyncParent(p, "dropSecretBak", "dropSecretTmp", "unlockOk")

CommitSecret(p) ==
    \/ pc[p] = "commitSecret" /\ Commit(p, "secret", "syncCommitSecret", PublicRenamed)
    \/ /\ pc[p] = "syncCommitSecret"
       /\ SyncParent(p, "dropSecretBak", "dropSecretTmp", SecretRenamed)

\* rollback_keypair_commit, entered at the step of the stage.
Rollback(p) ==
    \/ /\ pc[p] = SecretRenamed
       /\ RemoveFinal(p, "secret", PublicRenamed, "critical")
    \/ /\ pc[p] = PublicRenamed
       /\ RemoveFinal(p, "public", Started, "critical")
    \/ pc[p] = Started /\ Restore(p, "secret", "restorePublic")
    \/ pc[p] = "restorePublic" /\ Restore(p, "public", "unlockErr")

\* The commit is complete: the backups go, a failure is a warning.
DropBackup(p, path, next) ==
    /\ \/ Works /\ bak' = [bak EXCEPT ![p][path] = None] /\ UNCHANGED told
       \/ /\ Fails /\ bak[p][path] # None
          /\ Tell(p, "tempLeft") /\ UNCHANGED bak
    /\ Goto(p, next)
    /\ UNCHANGED <<file, lock, then, polls, tmp>>

DropBackups(p) ==
    \/ pc[p] = "dropSecretBak" /\ DropBackup(p, "secret", "dropPublicBak")
    \/ pc[p] = "dropPublicBak" /\ DropBackup(p, "public", "unlockOk")

-----------------------------------------------------------------------------
OverwriteStep(p) ==
    \/ TryLock(p) \/ StatLock(p) \/ BreakLock(p) \/ PollLock(p) \/ Unlock(p)
    \/ StageTemps(p) \/ BackupSecret(p) \/ BackupPublic(p)
    \/ CommitPublic(p) \/ CommitSecret(p) \/ DropBackups(p)
    \/ DropTemps(p) \/ Unback(p) \/ Rollback(p)

Waiting == {"tryLock", "statLock", "breakLock", "pollLock"}
Holding ==
    {"stageSecret", "stagePublic", "probeSecret", "backupSecret", "syncBackupSecret",
     "probePublic", "backupPublic", "syncBackupPublic", "commitPublic",
     "syncCommitPublic", "commitSecret", "syncCommitSecret", "dropSecretBak",
     "dropPublicBak", "dropSecretTmp", "dropPublicTmp", "dropStagedSecret",
     "unbackPublic", "unbackSecret", "rollbackSecret", "rollbackPublic",
     "restoreSecret", "restorePublic", "unlockOk", "unlockErr"}
OverwriteLabels == Waiting \union Holding \union Ended

LockInit ==
    \/ lock = NoLock
    \/ LockLeftOver /\ lock = [by |-> Old, age |-> "young"]

OverwriteInit ==
    /\ FilesInit
    /\ LockInit
    /\ pc = [p \in Procs |-> "tryLock"]

OverwriteNext ==
    \/ \E p \in Procs : OverwriteStep(p) \/ Crash(p)
    \/ LockAges

OverwriteSpec == OverwriteInit /\ [][OverwriteNext]_vars

\* A process with a next call keeps running, and time keeps passing.
FairOverwriteSpec ==
    OverwriteSpec /\ (\A p \in Procs : WF_vars(OverwriteStep(p))) /\ WF_vars(LockAges)

-----------------------------------------------------------------------------
OverwriteTypeOK ==
    /\ file \in [Path -> Contents]
    /\ lock \in [by : Contents, age : {"young", "stale"}]
    /\ pc \in [Procs -> OverwriteLabels]
    /\ then \in [Procs -> {"err", "unlockErr", "unbackSecret", "unbackPublic",
                           Started, PublicRenamed, SecretRenamed}]
    /\ polls \in [Procs -> 0..MaxPolls]
    /\ tmp \in [Procs -> SUBSET Path]
    /\ bak \in [Procs -> [Path -> Contents]]
    /\ told \in [Procs -> SUBSET Messages]
    /\ faults \in Nat

(***************************************************************************)
(* At most one run is between taking the lock and giving it back.          *)
(***************************************************************************)
MutualExclusion ==
    \A p, q \in Procs : pc[p] \in Holding /\ pc[q] \in Holding => p = q

\* The steps of a run that take back its own new files.
Withdrawing == {SecretRenamed, PublicRenamed, Started, "restorePublic"}

\* x's file of this kind is at its final path or under a backup name.
Kept(x, path) == file[path] = x \/ \E p \in Procs : bak[p][path] = x

(***************************************************************************)
(* Whatever runs, fails or is killed, and wherever it stops: a key file    *)
(* that is destroyed, so that it is neither at its final path nor under a  *)
(* backup name, was superseded by another run's pair that is completely in *)
(* place, or is withdrawn by the run that made it.  ("backs up existing    *)
(* files and rolls back on failure", SECURITY.md.)                         *)
(***************************************************************************)
KeyNotDestroyed ==
    [][\A x \in Pairs, path \in Path :
         Kept(x, path) /\ ~Kept(x, path)' =>
            \/ x \in Procs /\ pc[x] \in Withdrawing
            \/ \E p \in Procs \ {x} : \A other \in Path : file[other] = p]_vars

(***************************************************************************)
(* A secret key and another pair's public key stand side by side only      *)
(* after a run has printed CRITICAL.                                       *)
(***************************************************************************)
MixedOnlyAfterCritical ==
    \/ Matched
    \/ \E path \in Path : file[path] = None
    \/ \E p \in Procs : "critical" \in told[p]

(***************************************************************************)
(* A run that failed without printing CRITICAL has undone itself: nothing  *)
(* of its own is at a final path and it keeps nothing aside                *)
(* (test_force_secret_key_fail_restores_keypair).                          *)
(***************************************************************************)
FailedOverwriteUndone ==
    \A p \in Procs :
        pc[p] \in {"unlockErr", "err"} /\ "critical" \notin told[p] =>
            \A path \in Path : file[path] # p /\ bak[p][path] = None

(***************************************************************************)
(* A run about to return Ok has both its files in place.                   *)
(***************************************************************************)
CommittedPairInPlace ==
    \A p \in Procs : pc[p] = "unlockOk" => \A path \in Path : file[path] = p

(***************************************************************************)
(* A lock file that is not yet stale goes only with the run that created   *)
(* it ("a lock younger than the stale threshold must not be removed",      *)
(* rs/tests/unit/ops/generate.rs).                                         *)
(***************************************************************************)
YoungLockKept ==
    [][lock.by # None /\ lock.age = "young" /\ lock'.by # lock.by =>
         lock.by \in Procs /\ pc'[lock.by] # pc[lock.by]]_vars

\* Every run ends: it gets the lock in time or gives up.
EveryOverwriteEnds == <>(\A p \in Procs : pc[p] \in Ended)
=============================================================================
