------------------------ MODULE KeypairOverwriteProofs ----------------------
(***************************************************************************)
(* Proofs about KeypairOverwrite, for every set of runs, every number of   *)
(* faults and every set of runs that may be killed, as long as no run is   *)
(* about to remove a lock file as stale while another run is under the     *)
(* lock.  Nothing in the code sees to that: with a lock file that a killed *)
(* run has left and two runs that wait for it the statements are false,    *)
(* see the run stale_lock.  Of two runs, with no such file to begin with   *)
(* and none that holds the lock for too long, it is a theorem.             *)
(***************************************************************************)
EXTENDS KeypairOverwrite, TLAPS

(***************************************************************************)
(* A run that has found the lock file stale, and removes it next, is the   *)
(* only one that thinks it may enter: nobody is under the lock.            *)
(***************************************************************************)
RightlyStale ==
    \A p, q \in Procs : pc[p] = "breakLock" => pc[q] \notin Holding

(***************************************************************************)
(* A run in its critical section created the lock file that is there.      *)
(***************************************************************************)
LockInv == \A p \in Procs : pc[p] \in Holding => lock.by = p

\* The step of the protocol p is at, or goes on with once its temporary files are dropped.
At(p) ==
    IF pc[p] \in {"dropSecretTmp", "dropPublicTmp", "dropStagedSecret"}
    THEN then[p] ELSE pc[p]

(***************************************************************************)
(* What is at the final paths at each step of a run.                       *)
(***************************************************************************)
SecretInv(p) ==
    /\ At(p) \in {"syncBackupSecret", "probePublic", "backupPublic", "syncBackupPublic",
                  "commitPublic", "syncCommitPublic", "commitSecret",
                  "unbackPublic", "unbackSecret"} => file["secret"] = None
    /\ At(p) \in {"syncCommitSecret", "dropSecretBak", "dropPublicBak", "unlockOk",
                  "rollbackSecret"} => file["secret"] = p
    /\ At(p) \in {"rollbackPublic", "restoreSecret"} => file["secret"] \in {None, p}

PublicInv(p) ==
    /\ At(p) \in {"syncBackupPublic", "commitPublic", "unbackPublic"} => file["public"] = None
    /\ At(p) \in {"syncCommitPublic", "commitSecret", "syncCommitSecret", "dropSecretBak",
                  "dropPublicBak", "unlockOk", "rollbackSecret", "rollbackPublic"}
          => file["public"] = p
    /\ At(p) \in {"restoreSecret", "restorePublic"} => file["public"] \in {None, p}

\* A backup name is used once.
BackupInv(p) ==
    /\ pc[p] \in Waiting \union {"stageSecret", "stagePublic", "probeSecret", "backupSecret"}
          => bak[p]["secret"] = None
    /\ pc[p] \in Waiting \union {"stageSecret", "stagePublic", "probeSecret", "backupSecret",
                                 "syncBackupSecret", "probePublic", "backupPublic"}
          => bak[p]["public"] = None

RunInv(p) == SecretInv(p) /\ PublicInv(p) /\ BackupInv(p)

OverwriteInv == OverwriteTypeOK /\ LockInv /\ \A p \in Procs : RunInv(p)

-----------------------------------------------------------------------------
LEMMA OverwriteTypeInit == OverwriteInit => OverwriteTypeOK
  BY FaultBound, PollBound
     DEF OverwriteInit, OverwriteTypeOK, FilesInit, LockInit, NoLock, NoBackup, Contents,
         Pairs, OverwriteLabels, Waiting, Started, PublicRenamed, SecretRenamed

LEMMA OverwriteTypeStep ==
  ASSUME OverwriteTypeOK, [OverwriteNext]_vars
  PROVE  OverwriteTypeOK'
<1> USE DEF OverwriteTypeOK, OverwriteLabels, Waiting, Holding, Ended, Messages, Contents,
            Pairs, Path, Started, PublicRenamed, SecretRenamed, Goto, GotoThen, Tell,
            Works, Fails
<1>1. CASE UNCHANGED vars
  BY <1>1 DEF vars
<1>2. CASE LockAges
  BY <1>2 DEF LockAges
<1>3. ASSUME NEW p \in Procs, TryLock(p) PROVE OverwriteTypeOK'
  BY <1>3 DEF TryLock
<1>4. ASSUME NEW p \in Procs, StatLock(p) \/ BreakLock(p) PROVE OverwriteTypeOK'
  BY <1>4 DEF StatLock, BreakLock, NoLock
<1>5. ASSUME NEW p \in Procs, PollLock(p) PROVE OverwriteTypeOK'
  BY <1>5, PollBound DEF PollLock
<1>6. ASSUME NEW p \in Procs, Unlock(p) PROVE OverwriteTypeOK'
  BY <1>6 DEF Unlock, NoLock
<1>7. ASSUME NEW p \in Procs, StageTemps(p) PROVE OverwriteTypeOK'
  <2>1. CASE pc[p] = "stageSecret"
    BY <1>7, <2>1 DEF StageTemps, WriteTemp
  <2>2. CASE pc[p] = "stagePublic"
    BY <1>7, <2>2 DEF StageTemps, WriteTemp
  <2>3. QED BY <1>7, <2>1, <2>2 DEF StageTemps
<1>8. ASSUME NEW p \in Procs, BackupSecret(p) PROVE OverwriteTypeOK'
  <2>1. CASE pc[p] = "probeSecret"
    BY <1>8, <2>1 DEF BackupSecret, Probe
  <2>2. CASE pc[p] = "backupSecret"
    BY <1>8, <2>2 DEF BackupSecret, Backup
  <2>3. CASE pc[p] = "syncBackupSecret"
    BY <1>8, <2>3 DEF BackupSecret, SyncParent
  <2>4. QED BY <1>8, <2>1, <2>2, <2>3 DEF BackupSecret
<1>9. ASSUME NEW p \in Procs, BackupPublic(p) PROVE OverwriteTypeOK'
  <2>1. CASE pc[p] = "probePublic"
    BY <1>9, <2>1 DEF BackupPublic, Probe
  <2>2. CASE pc[p] = "backupPublic"
    BY <1>9, <2>2 DEF BackupPublic, Backup
  <2>3. CASE pc[p] = "syncBackupPublic"
    BY <1>9, <2>3 DEF BackupPublic, SyncParent
  <2>4. QED BY <1>9, <2>1, <2>2, <2>3 DEF BackupPublic
<1>10. ASSUME NEW p \in Procs, CommitPublic(p) \/ CommitSecret(p) PROVE OverwriteTypeOK'
  <2>1. CASE CommitPublic(p)
    BY <2>1 DEF CommitPublic, Commit, SyncParent
  <2>2. CASE CommitSecret(p)
    BY <2>2 DEF CommitSecret, Commit, SyncParent
  <2>3. QED BY <1>10, <2>1, <2>2
<1>11. ASSUME NEW p \in Procs, DropBackups(p) PROVE OverwriteTypeOK'
  <2>1. PICK path \in Path, next \in {"dropPublicBak", "unlockOk"} : DropBackup(p, path, next)
    BY <1>11 DEF DropBackups
  <2>2. bak' \in [Procs -> [Path -> Contents]]
    BY <2>1 DEF DropBackup
  <2>3. pc' \in [Procs -> OverwriteLabels]
    BY <2>1 DEF DropBackup
  <2>4. told' \in [Procs -> SUBSET Messages] /\ faults' \in Nat
    BY <2>1 DEF DropBackup
  <2>5. UNCHANGED <<file, lock, then, polls, tmp>>
    BY <2>1 DEF DropBackup
  <2>6. QED BY <2>2, <2>3, <2>4, <2>5
<1>12. ASSUME NEW p \in Procs, DropTemps(p) PROVE OverwriteTypeOK'
  BY <1>12 DEF DropTemps, DropTemp
<1>13. ASSUME NEW p \in Procs, Unback(p) PROVE OverwriteTypeOK'
  BY <1>13 DEF Unback, Restore
<1>14. ASSUME NEW p \in Procs, Rollback(p) PROVE OverwriteTypeOK'
  BY <1>14 DEF Rollback, Restore, RemoveFinal
<1>15. ASSUME NEW p \in Procs, Crash(p) PROVE OverwriteTypeOK'
  BY <1>15 DEF Crash
<1>16. QED
  BY <1>1, <1>2, <1>3, <1>4, <1>5, <1>6, <1>7, <1>8, <1>9, <1>10, <1>11, <1>12, <1>13,
     <1>14, <1>15 DEF OverwriteNext, OverwriteStep

(***************************************************************************)
(* Every state of KeypairOverwrite has the shape OverwriteTypeOK says.     *)
(***************************************************************************)
THEOREM OverwriteTypeCorrect == OverwriteSpec => []OverwriteTypeOK
<1>1. OverwriteInit => OverwriteTypeOK BY OverwriteTypeInit
<1>2. OverwriteTypeOK /\ [OverwriteNext]_vars => OverwriteTypeOK' BY OverwriteTypeStep
<1>3. QED BY <1>1, <1>2, PTL DEF OverwriteSpec

-----------------------------------------------------------------------------
LEMMA OverwriteInvInit == OverwriteInit => OverwriteInv
<1> SUFFICES ASSUME OverwriteInit PROVE OverwriteInv OBVIOUS
<1>1. OverwriteTypeOK BY OverwriteTypeInit
<1>2. \A p \in Procs : pc[p] = "tryLock" /\ bak[p] = NoBackup
  BY DEF OverwriteInit, FilesInit
<1>3. LockInv
  BY <1>2 DEF LockInv, Holding
<1>4. \A p \in Procs : RunInv(p)
  BY <1>2 DEF RunInv, SecretInv, PublicInv, BackupInv, At, NoBackup, Path
<1>5. QED BY <1>1, <1>3, <1>4 DEF OverwriteInv

\* The steps taken under the lock, and those that wait for it or give it back.
CriticalStep(p) ==
    \/ StageTemps(p) \/ BackupSecret(p) \/ BackupPublic(p)
    \/ CommitPublic(p) \/ CommitSecret(p) \/ DropBackups(p)
    \/ DropTemps(p) \/ Unback(p) \/ Rollback(p)

WaitStep(p) == TryLock(p) \/ StatLock(p) \/ BreakLock(p) \/ PollLock(p)

(***************************************************************************)
(* A critical step is taken by the holder, changes nothing of the lock or  *)
(* of another run, and keeps the holder in the critical section.           *)
(***************************************************************************)
LEMMA CriticalFrame ==
  ASSUME OverwriteTypeOK, NEW p \in Procs, CriticalStep(p)
  PROVE  /\ pc[p] \in Holding
         /\ pc'[p] # "breakLock"
         /\ lock' = lock
         /\ \A q \in Procs \ {p} : pc'[q] = pc[q] /\ then'[q] = then[q] /\ bak'[q] = bak[q]
<1> USE DEF OverwriteTypeOK, Holding, Goto, GotoThen, Started, PublicRenamed, SecretRenamed
<1>1. CASE StageTemps(p)
  BY <1>1 DEF StageTemps, WriteTemp
<1>2. CASE BackupSecret(p)
  BY <1>2 DEF BackupSecret, Probe, Backup, SyncParent
<1>3. CASE BackupPublic(p)
  BY <1>3 DEF BackupPublic, Probe, Backup, SyncParent
<1>4. CASE CommitPublic(p)
  BY <1>4 DEF CommitPublic, Commit, SyncParent
<1>5. CASE CommitSecret(p)
  BY <1>5 DEF CommitSecret, Commit, SyncParent
<1>6. CASE DropBackups(p)
  BY <1>6 DEF DropBackups, DropBackup
<1>7. CASE DropTemps(p)
  BY <1>7 DEF DropTemps, DropTemp
<1>8. CASE Unback(p)
  BY <1>8 DEF Unback, Restore
<1>9. CASE Rollback(p)
  BY <1>9 DEF Rollback, Restore, RemoveFinal
<1>10. QED
  BY <1>1, <1>2, <1>3, <1>4, <1>5, <1>6, <1>7, <1>8, <1>9 DEF CriticalStep

\* The other steps leave the final paths and the backups alone.
LEMMA QuietFrame ==
  ASSUME OverwriteTypeOK, NEW p \in Procs, WaitStep(p) \/ Unlock(p) \/ Crash(p)
  PROVE  /\ file' = file /\ then' = then /\ bak' = bak
         /\ \A q \in Procs \ {p} : pc'[q] = pc[q]
<1> USE DEF OverwriteTypeOK, Goto
<1>1. CASE WaitStep(p)
  BY <1>1 DEF WaitStep, TryLock, StatLock, BreakLock, PollLock
<1>2. CASE Unlock(p)
  BY <1>2 DEF Unlock
<1>3. CASE Crash(p)
  BY <1>3 DEF Crash
<1>4. QED BY <1>1, <1>2, <1>3

LEMMA LockStep ==
  ASSUME OverwriteInv, RightlyStale, [OverwriteNext]_vars
  PROVE  LockInv'
<1> USE DEF OverwriteInv
<1>1. CASE UNCHANGED vars
  BY <1>1 DEF vars, LockInv
<1>2. CASE LockAges
  BY <1>2 DEF LockAges, LockInv, OverwriteTypeOK
<1>3. ASSUME NEW p \in Procs, CriticalStep(p) PROVE LockInv'
  BY <1>3, CriticalFrame DEF LockInv
<1>4. ASSUME NEW p \in Procs, WaitStep(p) PROVE LockInv'
  <2> USE DEF LockInv, OverwriteTypeOK, Holding, Goto
  <2>1. CASE TryLock(p)
    BY <2>1, PairNames DEF TryLock
  <2>2. CASE StatLock(p)
    BY <2>2 DEF StatLock
  <2>3. CASE BreakLock(p)
    BY <2>3 DEF BreakLock, RightlyStale
  <2>4. CASE PollLock(p)
    BY <2>4 DEF PollLock
  <2>5. QED BY <1>4, <2>1, <2>2, <2>3, <2>4 DEF WaitStep
<1>5. ASSUME NEW p \in Procs, Unlock(p) PROVE LockInv'
  <2>1. pc[p] \in Holding /\ pc'[p] \in {"ok", "err"}
    BY <1>5 DEF Unlock, Goto, Holding, OverwriteTypeOK
  <2>2. \A q \in Procs \ {p} : pc'[q] = pc[q] /\ pc[q] \notin Holding
    BY <1>5, <2>1, QuietFrame DEF LockInv
  <2>3. QED
    BY <2>1, <2>2 DEF LockInv, Holding
<1>6. ASSUME NEW p \in Procs, Crash(p) PROVE LockInv'
  BY <1>6 DEF Crash, Goto, LockInv, Holding, OverwriteTypeOK
<1>7. QED
  BY <1>1, <1>2, <1>3, <1>4, <1>5, <1>6
     DEF OverwriteNext, OverwriteStep, CriticalStep, WaitStep

\* Another run's step cannot disturb what holds of q: under the lock q is alone.
LEMMA OthersKeepRunInv ==
  ASSUME OverwriteInv, NEW p \in Procs, CriticalStep(p), NEW q \in Procs \ {p}
  PROVE  RunInv(q)'
<1>1. pc[q] \notin Holding
  BY CriticalFrame DEF OverwriteInv, LockInv
<1>2. pc'[q] = pc[q] /\ then'[q] = then[q] /\ bak'[q] = bak[q]
  BY CriticalFrame DEF OverwriteInv
<1>3. At(q)' = pc[q] /\ pc'[q] \notin Holding
  BY <1>1, <1>2 DEF At, Holding
<1>4. SecretInv(q)' /\ PublicInv(q)'
  BY <1>3, <1>1 DEF SecretInv, PublicInv, Holding
<1>5. BackupInv(q)'
  BY <1>2 DEF BackupInv, OverwriteInv, RunInv
<1>6. QED BY <1>4, <1>5 DEF RunInv

LEMMA CriticalKeepsRunInv ==
  ASSUME OverwriteInv, NEW p \in Procs, CriticalStep(p)
  PROVE  RunInv(p)'
<1> USE PairNames
    DEF OverwriteInv, OverwriteTypeOK, RunInv, SecretInv, PublicInv, BackupInv, At, Waiting,
        Goto, GotoThen, Started, PublicRenamed, SecretRenamed, Path
<1>1. CASE StageTemps(p)
  BY <1>1 DEF StageTemps, WriteTemp
<1>2. CASE BackupSecret(p)
  BY <1>2 DEF BackupSecret, Probe, Backup, SyncParent
<1>3. CASE BackupPublic(p)
  BY <1>3 DEF BackupPublic, Probe, Backup, SyncParent
<1>4. CASE CommitPublic(p)
  BY <1>4 DEF CommitPublic, Commit, SyncParent
<1>5. CASE CommitSecret(p)
  BY <1>5 DEF CommitSecret, Commit, SyncParent
<1>6. CASE DropBackups(p)
  BY <1>6 DEF DropBackups, DropBackup
<1>7. CASE DropTemps(p)
  BY <1>7 DEF DropTemps, DropTemp
<1>8. CASE Unback(p)
  BY <1>8 DEF Unback, Restore
<1>9. CASE Rollback(p)
  BY <1>9 DEF Rollback, Restore, RemoveFinal
<1>10. QED
  BY <1>1, <1>2, <1>3, <1>4, <1>5, <1>6, <1>7, <1>8, <1>9 DEF CriticalStep

LEMMA OverwriteInvStep ==
  ASSUME OverwriteInv, RightlyStale, [OverwriteNext]_vars
  PROVE  OverwriteInv'
<1>1. OverwriteTypeOK'
  BY OverwriteTypeStep DEF OverwriteInv
<1>2. LockInv'
  BY LockStep
<1>3. \A q \in Procs : RunInv(q)'
  <2>1. CASE UNCHANGED vars
    BY <2>1 DEF vars, OverwriteInv, RunInv, SecretInv, PublicInv, BackupInv, At
  <2>2. CASE LockAges
    BY <2>2 DEF LockAges, OverwriteInv, RunInv, SecretInv, PublicInv, BackupInv, At
  <2>3. ASSUME NEW p \in Procs, CriticalStep(p) PROVE \A q \in Procs : RunInv(q)'
    BY <2>3, OthersKeepRunInv, CriticalKeepsRunInv
  <2>4. ASSUME NEW p \in Procs, WaitStep(p) \/ Unlock(p) \/ Crash(p)
        PROVE  \A q \in Procs : RunInv(q)'
    <3>1. file' = file /\ then' = then /\ bak' = bak /\ \A q \in Procs \ {p} : pc'[q] = pc[q]
      BY <2>4, QuietFrame DEF OverwriteInv
    <3>2. ASSUME NEW q \in Procs \ {p} PROVE RunInv(q)'
      BY <3>1 DEF OverwriteInv, RunInv, SecretInv, PublicInv, BackupInv, At
    <3>3. SecretInv(p)' /\ PublicInv(p)'
      <4>1. pc'[p] \in Waiting \union Ended \union {"stageSecret"}
        BY <2>4 DEF WaitStep, TryLock, StatLock, BreakLock, PollLock, Unlock, Crash, Goto,
                    Waiting, Ended, OverwriteInv, OverwriteTypeOK
      <4>2. QED
        BY <4>1 DEF SecretInv, PublicInv, At, Waiting, Ended
    <3>4. BackupInv(p)'
      BY <2>4, <3>1
         DEF WaitStep, TryLock, StatLock, BreakLock, PollLock, Unlock, Crash, Goto, Waiting,
             OverwriteInv, OverwriteTypeOK, RunInv, BackupInv
    <3>5. QED
      BY <3>2, <3>3, <3>4 DEF RunInv
  <2>5. QED
    BY <2>1, <2>2, <2>3, <2>4 DEF OverwriteNext, OverwriteStep, CriticalStep, WaitStep
<1>4. QED
  BY <1>1, <1>2, <1>3 DEF OverwriteInv

LEMMA OverwriteInvariant == OverwriteSpec /\ []RightlyStale => []OverwriteInv
<1>1. OverwriteInit => OverwriteInv BY OverwriteInvInit
<1>2. OverwriteInv /\ RightlyStale /\ [OverwriteNext]_vars => OverwriteInv'
  BY OverwriteInvStep
<1>3. QED BY <1>1, <1>2, PTL DEF OverwriteSpec

-----------------------------------------------------------------------------
(***************************************************************************)
(* While nobody is about to remove the lock file of a run that is under    *)
(* the lock, at most one run of -G --force is in its critical section.     *)
(***************************************************************************)
THEOREM LockExcludes == OverwriteSpec /\ []RightlyStale => []MutualExclusion
<1>1. OverwriteInv => MutualExclusion
  BY DEF OverwriteInv, LockInv, MutualExclusion
<1>2. QED BY <1>1, OverwriteInvariant, PTL

(***************************************************************************)
(* Then a run that is about to return Ok has its own pair in place.        *)
(***************************************************************************)
THEOREM CommitIsComplete == OverwriteSpec /\ []RightlyStale => []CommittedPairInPlace
<1>1. OverwriteInv => CommittedPairInPlace
  BY DEF OverwriteInv, RunInv, SecretInv, PublicInv, At, CommittedPairInPlace, Path
<1>2. QED BY <1>1, OverwriteInvariant, PTL

\* One critical step destroys nothing but what the property allows.
LEMMA CriticalDestroys ==
  ASSUME OverwriteInv, NEW p \in Procs, CriticalStep(p),
         NEW x \in Pairs, NEW path \in Path, Kept(x, path), ~Kept(x, path)'
  PROVE  \/ x \in Procs /\ pc[x] \in Withdrawing
         \/ \E q \in Procs \ {x} : \A other \in Path : file[other] = q
<1> USE PairNames DEF OverwriteInv, OverwriteTypeOK, Kept, Path, Pairs, Contents
<1>1. CASE StageTemps(p) \/ DropTemps(p)
  BY <1>1 DEF StageTemps, WriteTemp, DropTemps, DropTemp
<1>2. CASE BackupSecret(p)
  <2>1. CASE pc[p] = "backupSecret"
    <3>1. bak[p]["secret"] = None
      BY <2>1 DEF RunInv, BackupInv
    <3>2. Backup(p, "secret", "syncBackupSecret", "unlockErr")
      BY <1>2, <2>1 DEF BackupSecret
    <3>3. QED
      BY <3>1, <3>2 DEF Backup
  <2>2. CASE pc[p] # "backupSecret"
    BY <1>2, <2>2 DEF BackupSecret, Probe, SyncParent
  <2>3. QED BY <2>1, <2>2
<1>3. CASE BackupPublic(p)
  <2>1. CASE pc[p] = "backupPublic"
    <3>1. bak[p]["public"] = None
      BY <2>1 DEF RunInv, BackupInv
    <3>2. Backup(p, "public", "syncBackupPublic", "unbackSecret")
      BY <1>3, <2>1 DEF BackupPublic
    <3>3. QED
      BY <3>1, <3>2 DEF Backup
  <2>2. CASE pc[p] # "backupPublic"
    BY <1>3, <2>2 DEF BackupPublic, Probe, SyncParent
  <2>3. QED BY <2>1, <2>2
<1>4. CASE CommitPublic(p)
  BY <1>4 DEF CommitPublic, Commit, SyncParent, RunInv, PublicInv, At
<1>5. CASE CommitSecret(p)
  BY <1>5 DEF CommitSecret, Commit, SyncParent, RunInv, SecretInv, At
<1>6. CASE DropBackups(p)
  <2>1. file["secret"] = p /\ file["public"] = p
    BY <1>6 DEF DropBackups, RunInv, SecretInv, PublicInv, At
  <2>2. x # p
    BY <1>6, <2>1 DEF DropBackups, DropBackup
  <2>3. QED
    BY <2>1, <2>2
<1>7. CASE Unback(p)
  BY <1>7 DEF Unback, Restore, RunInv, SecretInv, PublicInv, At
<1>8. CASE Rollback(p)
  <2>1. pc[p] \in Withdrawing
    BY <1>8 DEF Rollback, Withdrawing
  <2>2. x = p
    BY <1>8 DEF Rollback, Restore, RemoveFinal, RunInv, SecretInv, PublicInv, At, Started,
                PublicRenamed, SecretRenamed
  <2>3. QED
    BY <2>1, <2>2
<1>9. QED
  BY <1>1, <1>2, <1>3, <1>4, <1>5, <1>6, <1>7, <1>8 DEF CriticalStep

(***************************************************************************)
(* Then no key file is destroyed before another run's pair is completely   *)
(* in place, except by the run that made it and withdraws it.              *)
(***************************************************************************)
THEOREM KeysSurvive == OverwriteSpec /\ []RightlyStale => KeyNotDestroyed
<1> DEFINE Survives ==
      \A x \in Pairs, path \in Path :
         Kept(x, path) /\ ~Kept(x, path)' =>
            \/ x \in Procs /\ pc[x] \in Withdrawing
            \/ \E p \in Procs \ {x} : \A other \in Path : file[other] = p
<1>1. OverwriteInv /\ RightlyStale /\ [OverwriteNext]_vars => [Survives]_vars
  <2>1. SUFFICES ASSUME OverwriteInv, OverwriteNext PROVE Survives
    OBVIOUS
  <2>2. CASE LockAges
    BY <2>2 DEF LockAges, Kept
  <2>3. ASSUME NEW p \in Procs, CriticalStep(p) PROVE Survives
    BY <2>1, <2>3, CriticalDestroys
  <2>4. ASSUME NEW p \in Procs, WaitStep(p) \/ Unlock(p) \/ Crash(p) PROVE Survives
    BY <2>1, <2>4, QuietFrame DEF OverwriteInv, Kept
  <2>5. QED
    BY <2>1, <2>2, <2>3, <2>4 DEF OverwriteNext, OverwriteStep, CriticalStep, WaitStep
<1>2. QED
  BY <1>1, OverwriteInvariant, PTL DEF OverwriteSpec, KeyNotDestroyed

-----------------------------------------------------------------------------
(***************************************************************************)
(* What a run that fails has undone: before its first rename nothing of it *)
(* is anywhere, and every step of the way back that works takes one thing  *)
(* of it away; one that does not prints CRITICAL.                          *)
(***************************************************************************)
Early ==
    Waiting \union
    {"stageSecret", "stagePublic", "probeSecret", "backupSecret", "syncBackupSecret",
     "probePublic", "backupPublic", "syncBackupPublic", "commitPublic",
     "unbackPublic", "unbackSecret"}

Quietly(p) == "critical" \notin told[p]

\* Nobody has renamed a file of p aside.
NotAsideInv(p) ==
    pc[p] \in Waiting \union Holding \/ (pc[p] = "err" /\ Quietly(p)) =>
        \A q \in Procs, path \in Path : bak[q][path] # p

NotInPlaceInv(p) ==
    /\ At(p) \in Early \union {"syncCommitPublic", "commitSecret"} => file["secret"] # p
    /\ At(p) \in {PublicRenamed, Started, "restorePublic", "unlockErr", "err"} /\ Quietly(p)
          => file["secret"] # p
    /\ At(p) \in Early => file["public"] # p
    /\ At(p) \in {Started, "restorePublic", "unlockErr", "err"} /\ Quietly(p)
          => file["public"] # p

PutBackInv(p) ==
    Quietly(p) =>
        /\ At(p) \in {"unbackSecret", "unlockErr", "err"} => bak[p]["public"] = None
        /\ At(p) \in {"restorePublic", "unlockErr", "err"} => bak[p]["secret"] = None

UndoneInv(p) == NotAsideInv(p) /\ NotInPlaceInv(p) /\ PutBackInv(p)

\* Only p speaks for p, and nobody takes back what was said.
LEMMA ToldFrame ==
  ASSUME OverwriteTypeOK, NEW p \in Procs, CriticalStep(p) \/ WaitStep(p) \/ Unlock(p) \/ Crash(p)
  PROVE  /\ \A q \in Procs \ {p} : told'[q] = told[q]
         /\ told[p] \subseteq told'[p]
<1> USE DEF OverwriteTypeOK, Tell
<1>1. CASE StageTemps(p) \/ BackupSecret(p) \/ BackupPublic(p)
  BY <1>1 DEF StageTemps, WriteTemp, BackupSecret, BackupPublic, Probe, Backup, SyncParent
<1>2. CASE CommitPublic(p) \/ CommitSecret(p) \/ DropBackups(p)
  BY <1>2 DEF CommitPublic, CommitSecret, Commit, SyncParent, DropBackups, DropBackup
<1>3. CASE DropTemps(p) \/ Unback(p) \/ Rollback(p)
  BY <1>3 DEF DropTemps, DropTemp, Unback, Rollback, Restore, RemoveFinal
<1>4. CASE WaitStep(p) \/ Unlock(p) \/ Crash(p)
  BY <1>4 DEF WaitStep, TryLock, StatLock, BreakLock, PollLock, Unlock, Crash
<1>5. QED
  BY <1>1, <1>2, <1>3, <1>4 DEF CriticalStep

\* The step of the holder leaves it where it still holds the lock.
LEMMA CriticalKeepsUndone ==
  ASSUME OverwriteInv, NEW p \in Procs, CriticalStep(p), UndoneInv(p)
  PROVE  UndoneInv(p)'
<1> USE PairNames
    DEF OverwriteInv, OverwriteTypeOK, RunInv, SecretInv, PublicInv, BackupInv, At, Waiting,
        Goto, GotoThen, Tell, Started, PublicRenamed, SecretRenamed, Path,
        UndoneInv, NotAsideInv, NotInPlaceInv, PutBackInv, Quietly, Early, Holding
<1>1. CASE StageTemps(p)
  BY <1>1 DEF StageTemps, WriteTemp
<1>2. CASE BackupSecret(p)
  <2>1. CASE pc[p] = "probeSecret"
    BY <1>2, <2>1 DEF BackupSecret, Probe
  <2>2. CASE pc[p] = "backupSecret"
    BY <1>2, <2>2 DEF BackupSecret, Backup
  <2>3. CASE pc[p] = "syncBackupSecret"
    BY <1>2, <2>3 DEF BackupSecret, SyncParent
  <2>4. QED
    BY <1>2, <2>1, <2>2, <2>3 DEF BackupSecret
<1>3. CASE BackupPublic(p)
  BY <1>3 DEF BackupPublic, Probe, Backup, SyncParent
<1>4. CASE CommitPublic(p)
  BY <1>4 DEF CommitPublic, Commit, SyncParent
<1>5. CASE CommitSecret(p)
  BY <1>5 DEF CommitSecret, Commit, SyncParent
<1>6. CASE DropBackups(p)
  BY <1>6 DEF DropBackups, DropBackup
<1>7. CASE DropTemps(p)
  BY <1>7 DEF DropTemps, DropTemp
<1>8. CASE Unback(p)
  BY <1>8 DEF Unback, Restore
<1>9. CASE Rollback(p)
  BY <1>9 DEF Rollback, Restore, RemoveFinal
<1>10. QED
  BY <1>1, <1>2, <1>3, <1>4, <1>5, <1>6, <1>7, <1>8, <1>9 DEF CriticalStep

\* A run that does not hold the lock does not gain a file by what the holder does.
LEMMA OthersKeepUndone ==
  ASSUME OverwriteInv, NEW p \in Procs, CriticalStep(p), UndoneInv(p),
         NEW q \in Procs \ {p}, UndoneInv(q)
  PROVE  UndoneInv(q)'
<1>1. pc[q] \notin Holding /\ pc[p] \in Holding
  BY CriticalFrame DEF OverwriteInv, LockInv
<1>2. pc'[q] = pc[q] /\ then'[q] = then[q] /\ bak'[q] = bak[q] /\ told'[q] = told[q]
  BY CriticalFrame, ToldFrame DEF OverwriteInv
<1>3. At(q) = pc[q] /\ At(q)' = pc[q]
  BY <1>1, <1>2 DEF At, Holding
<1>4. \A path \in Path :
         /\ file'[path] \in {file[path], None, p, bak[p][path]}
         /\ bak'[p][path] \in {bak[p][path], None, file[path]}
         /\ \A r \in Procs \ {p} : bak'[r] = bak[r]
  <2> USE DEF OverwriteInv, OverwriteTypeOK, Path
  <2>1. CASE StageTemps(p) \/ DropTemps(p)
    BY <2>1 DEF StageTemps, WriteTemp, DropTemps, DropTemp
  <2>2. CASE BackupSecret(p) \/ BackupPublic(p)
    BY <2>2 DEF BackupSecret, BackupPublic, Probe, Backup, SyncParent
  <2>3. CASE CommitPublic(p) \/ CommitSecret(p)
    BY <2>3 DEF CommitPublic, CommitSecret, Commit, SyncParent
  <2>4. CASE DropBackups(p)
    BY <2>4 DEF DropBackups, DropBackup
  <2>5. CASE Unback(p) \/ Rollback(p)
    BY <2>5 DEF Unback, Rollback, Restore, RemoveFinal
  <2>6. QED
    BY <2>1, <2>2, <2>3, <2>4, <2>5 DEF CriticalStep
<1>5. None # q /\ p # q
  BY PairNames
<1>6. CASE pc[q] \in Waiting \/ (pc[q] = "err" /\ Quietly(q))
  <2>1. \A path \in Path : file[path] # q /\ \A r \in Procs : bak[r][path] # q
    BY <1>3, <1>6 DEF UndoneInv, NotAsideInv, NotInPlaceInv, Early, Path
  <2>2. \A path \in Path : file'[path] # q /\ \A r \in Procs : bak'[r][path] # q
    BY <1>4, <1>5, <2>1
  <2>3. QED
    BY <1>2, <1>3, <2>2
       DEF UndoneInv, NotAsideInv, NotInPlaceInv, PutBackInv, Quietly, Path
<1>7. CASE pc[q] \notin Waiting /\ ~(pc[q] = "err" /\ Quietly(q))
  <2>1. pc'[q] \notin Waiting /\ pc'[q] \notin Holding /\ ~(pc'[q] = "err" /\ Quietly(q)')
    BY <1>1, <1>2, <1>7 DEF Quietly
  <2>2. QED
    BY <1>3, <1>2, <2>1
       DEF UndoneInv, NotAsideInv, NotInPlaceInv, PutBackInv, Early, Holding, Quietly, Started,
           PublicRenamed
<1>8. QED
  BY <1>6, <1>7

LEMMA QuietKeepsUndone ==
  ASSUME OverwriteInv, NEW p \in Procs, WaitStep(p) \/ Unlock(p) \/ Crash(p),
         NEW q \in Procs, UndoneInv(q)
  PROVE  UndoneInv(q)'
<1>1. file' = file /\ then' = then /\ bak' = bak /\ \A r \in Procs \ {p} : pc'[r] = pc[r]
  BY QuietFrame DEF OverwriteInv
<1>2. CASE q # p
  <2>1. pc'[q] = pc[q] /\ told'[q] = told[q]
    BY <1>1, <1>2, ToldFrame DEF OverwriteInv
  <2>2. QED
    BY <1>1, <2>1 DEF UndoneInv, NotAsideInv, NotInPlaceInv, PutBackInv, Quietly, At
<1>3. CASE q = p
  <2>1. told[p] \subseteq told'[p]
    BY ToldFrame DEF OverwriteInv
  <2> USE DEF OverwriteInv, OverwriteTypeOK, Goto, UndoneInv, NotAsideInv, NotInPlaceInv,
              PutBackInv, Quietly, At, Early, Waiting, Holding, Started, PublicRenamed,
              RunInv, BackupInv, Path
  <2>2. CASE Crash(p)
    BY <1>1, <1>3, <2>1, <2>2 DEF Crash
  <2>3. CASE Unlock(p)
    BY <1>1, <1>3, <2>1, <2>3 DEF Unlock
  <2>4. CASE WaitStep(p)
    BY <1>1, <1>3, <2>1, <2>4 DEF WaitStep, TryLock, StatLock, BreakLock, PollLock
  <2>5. QED
    BY <2>2, <2>3, <2>4
<1>4. QED
  BY <1>2, <1>3

LEMMA UndoneInit == OverwriteInit => \A p \in Procs : UndoneInv(p)
  BY PairNames
     DEF OverwriteInit, FilesInit, NoBackup, Path, UndoneInv, NotAsideInv, NotInPlaceInv,
         PutBackInv, At, Started, PublicRenamed

LEMMA UndoneStep ==
  ASSUME OverwriteInv, [OverwriteNext]_vars, \A p \in Procs : UndoneInv(p)
  PROVE  \A p \in Procs : UndoneInv(p)'
<1>1. CASE UNCHANGED vars
  BY <1>1 DEF vars, UndoneInv, NotAsideInv, NotInPlaceInv, PutBackInv, Quietly, At
<1>2. CASE LockAges
  BY <1>2 DEF LockAges, UndoneInv, NotAsideInv, NotInPlaceInv, PutBackInv, Quietly, At
<1>3. ASSUME NEW p \in Procs, CriticalStep(p) PROVE \A q \in Procs : UndoneInv(q)'
  BY <1>3, CriticalKeepsUndone, OthersKeepUndone
<1>4. ASSUME NEW p \in Procs, WaitStep(p) \/ Unlock(p) \/ Crash(p)
      PROVE  \A q \in Procs : UndoneInv(q)'
  BY <1>4, QuietKeepsUndone
<1>5. QED
  BY <1>1, <1>2, <1>3, <1>4 DEF OverwriteNext, OverwriteStep, CriticalStep, WaitStep

LEMMA UndoneInvariant == OverwriteSpec /\ []RightlyStale => [](\A p \in Procs : UndoneInv(p))
<1>1. OverwriteInit => \A p \in Procs : UndoneInv(p) BY UndoneInit
<1>2. OverwriteInv /\ [OverwriteNext]_vars /\ (\A p \in Procs : UndoneInv(p))
        => (\A p \in Procs : UndoneInv(p))'
  BY UndoneStep
<1>3. QED BY <1>1, <1>2, OverwriteInvariant, PTL DEF OverwriteSpec

(***************************************************************************)
(* Then a run that failed without printing CRITICAL has nothing of its own *)
(* at a final path and keeps nothing of anybody's aside.                   *)
(***************************************************************************)
THEOREM FailureUndone == OverwriteSpec /\ []RightlyStale => []FailedOverwriteUndone
<1>1. (\A p \in Procs : UndoneInv(p)) => FailedOverwriteUndone
  <2> SUFFICES ASSUME NEW p \in Procs, UndoneInv(p), pc[p] \in {"unlockErr", "err"}, Quietly(p)
               PROVE  \A path \in Path : file[path] # p /\ bak[p][path] = None
    BY DEF FailedOverwriteUndone, Quietly
  <2>1. At(p) = pc[p]
    BY DEF At
  <2>2. QED
    BY <2>1 DEF UndoneInv, NotInPlaceInv, PutBackInv, Path
<1>2. QED BY <1>1, UndoneInvariant, PTL

-----------------------------------------------------------------------------
(***************************************************************************)
(* What is aside and what is in place belong together, as long as nobody   *)
(* has printed CRITICAL.                                                   *)
(***************************************************************************)
Fits(a, b) == a = b \/ a = None \/ b = None

AllQuiet == \A p \in Procs : Quietly(p)

PairInv(p) ==
    /\ At(p) \in {"syncBackupSecret", "probePublic", "backupPublic", "unbackSecret"} =>
          Fits(bak[p]["secret"], file["public"])
    /\ At(p) \in {"syncBackupPublic", "commitPublic", "syncCommitPublic", "commitSecret",
                  "syncCommitSecret", SecretRenamed, PublicRenamed, Started, "unbackPublic"} =>
          Fits(bak[p]["secret"], bak[p]["public"])
    /\ At(p) = "restorePublic" => Fits(file["secret"], bak[p]["public"])

MixInv ==
    AllQuiet => /\ Fits(file["secret"], file["public"])
                /\ \A p \in Procs : PairInv(p)

LEMMA CriticalKeepsPairs ==
  ASSUME OverwriteInv, NEW p \in Procs, CriticalStep(p), UndoneInv(p), PairInv(p),
         Fits(file["secret"], file["public"]), Quietly(p)'
  PROVE  PairInv(p)' /\ Fits(file["secret"], file["public"])'
<1> USE PairNames
    DEF OverwriteInv, OverwriteTypeOK, RunInv, SecretInv, PublicInv, BackupInv, At, Waiting,
        Goto, GotoThen, Tell, Started, PublicRenamed, SecretRenamed, Path, Fits, PairInv,
        UndoneInv, NotAsideInv, NotInPlaceInv, PutBackInv, Quietly, Early
<1>1. CASE StageTemps(p)
  BY <1>1 DEF StageTemps, WriteTemp
<1>2. CASE BackupSecret(p)
  <2>1. CASE pc[p] = "probeSecret"
    BY <1>2, <2>1 DEF BackupSecret, Probe
  <2>2. CASE pc[p] = "backupSecret"
    BY <1>2, <2>2 DEF BackupSecret, Backup
  <2>3. CASE pc[p] = "syncBackupSecret"
    BY <1>2, <2>3 DEF BackupSecret, SyncParent
  <2>4. QED
    BY <1>2, <2>1, <2>2, <2>3 DEF BackupSecret
<1>3. CASE BackupPublic(p)
  <2>1. CASE pc[p] = "probePublic"
    BY <1>3, <2>1 DEF BackupPublic, Probe
  <2>2. CASE pc[p] = "backupPublic"
    BY <1>3, <2>2 DEF BackupPublic, Backup
  <2>3. CASE pc[p] = "syncBackupPublic"
    BY <1>3, <2>3 DEF BackupPublic, SyncParent
  <2>4. QED
    BY <1>3, <2>1, <2>2, <2>3 DEF BackupPublic
<1>4. CASE CommitPublic(p)
  BY <1>4 DEF CommitPublic, Commit, SyncParent
<1>5. CASE CommitSecret(p)
  BY <1>5 DEF CommitSecret, Commit, SyncParent
<1>6. CASE DropBackups(p)
  BY <1>6 DEF DropBackups, DropBackup
<1>7. CASE DropTemps(p)
  BY <1>7 DEF DropTemps, DropTemp
<1>8. CASE Unback(p)
  BY <1>8 DEF Unback, Restore
<1>9. CASE Rollback(p)
  BY <1>9 DEF Rollback, Restore, RemoveFinal
<1>10. QED
  BY <1>1, <1>2, <1>3, <1>4, <1>5, <1>6, <1>7, <1>8, <1>9 DEF CriticalStep

LEMMA OthersKeepPairs ==
  ASSUME OverwriteInv, NEW p \in Procs, CriticalStep(p), NEW q \in Procs \ {p}
  PROVE  PairInv(q)'
<1>1. pc'[q] = pc[q] /\ pc[q] \notin Holding
  BY CriticalFrame DEF OverwriteInv, LockInv
<1>2. At(q)' = pc'[q]
  BY <1>1 DEF At, Holding
<1>3. QED
  BY <1>1, <1>2 DEF PairInv, Holding, Started, PublicRenamed, SecretRenamed

LEMMA QuietKeepsPairs ==
  ASSUME OverwriteInv, NEW p \in Procs, WaitStep(p) \/ Unlock(p) \/ Crash(p),
         NEW q \in Procs, PairInv(q)
  PROVE  PairInv(q)'
<1>1. file' = file /\ then' = then /\ bak' = bak /\ \A r \in Procs \ {p} : pc'[r] = pc[r]
  BY QuietFrame DEF OverwriteInv
<1>2. CASE q # p
  BY <1>1, <1>2 DEF PairInv, At
<1>3. CASE q = p
  <2>1. pc'[p] \in Waiting \union {"stageSecret"} \union Ended
    <3> USE DEF OverwriteInv, OverwriteTypeOK, Goto, Waiting, Ended
    <3>1. CASE Crash(p)
      BY <3>1 DEF Crash
    <3>2. CASE Unlock(p)
      BY <3>2 DEF Unlock
    <3>3. CASE WaitStep(p)
      BY <3>3 DEF WaitStep, TryLock, StatLock, BreakLock, PollLock
    <3>4. QED
      BY <3>1, <3>2, <3>3
  <2>2. At(p)' = pc'[p]
    BY <2>1 DEF At, Waiting, Ended
  <2>3. QED
    BY <1>3, <2>1, <2>2
       DEF PairInv, Waiting, Ended, Started, PublicRenamed, SecretRenamed
<1>4. QED
  BY <1>2, <1>3

LEMMA MixInit == OverwriteInit => MixInv
<1> SUFFICES ASSUME OverwriteInit PROVE MixInv
  OBVIOUS
<1>1. Fits(file["secret"], file["public"])
  BY DEF OverwriteInit, FilesInit, Fits, Path
<1>2. \A p \in Procs : At(p) = "tryLock"
  BY DEF OverwriteInit, At
<1>3. \A p \in Procs : PairInv(p)
  BY <1>2 DEF PairInv, Started, PublicRenamed, SecretRenamed
<1>4. QED
  BY <1>1, <1>3 DEF MixInv

LEMMA MixStep ==
  ASSUME OverwriteInv, \A p \in Procs : UndoneInv(p), MixInv, [OverwriteNext]_vars
  PROVE  MixInv'
<1>1. CASE UNCHANGED vars
  BY <1>1 DEF vars, MixInv, AllQuiet, Quietly, PairInv, At
<1>2. CASE LockAges
  BY <1>2 DEF LockAges, MixInv, AllQuiet, Quietly, PairInv, At
<1>3. ASSUME NEW p \in Procs, CriticalStep(p) \/ WaitStep(p) \/ Unlock(p) \/ Crash(p),
             AllQuiet'
      PROVE  Fits(file["secret"], file["public"])' /\ \A q \in Procs : PairInv(q)'
  <2>1. AllQuiet
    BY <1>3, ToldFrame DEF OverwriteInv, AllQuiet, Quietly
  <2>2. Fits(file["secret"], file["public"]) /\ \A q \in Procs : PairInv(q)
    BY <2>1 DEF MixInv
  <2>3. CASE CriticalStep(p)
    <3>1. Quietly(p)'
      BY <1>3 DEF AllQuiet
    <3>2. PairInv(p)' /\ Fits(file["secret"], file["public"])'
      BY <2>2, <2>3, <3>1, CriticalKeepsPairs
    <3>3. QED
      BY <2>3, <3>2, OthersKeepPairs
  <2>4. CASE WaitStep(p) \/ Unlock(p) \/ Crash(p)
    <3>1. file' = file
      BY <2>4, QuietFrame DEF OverwriteInv
    <3>2. QED
      BY <2>2, <2>4, <3>1, QuietKeepsPairs
  <2>5. QED
    BY <1>3, <2>3, <2>4
<1>4. QED
  BY <1>1, <1>2, <1>3
     DEF MixInv, OverwriteNext, OverwriteStep, CriticalStep, WaitStep

(***************************************************************************)
(* The two final files are of different pairs only after a run has printed *)
(* CRITICAL, that is, after a call of its own rollback has failed.         *)
(***************************************************************************)
THEOREM MixNeedsCritical == OverwriteSpec /\ []RightlyStale => []MixedOnlyAfterCritical
<1>1. OverwriteInit => MixInv
  BY MixInit
<1>2. OverwriteInv /\ (\A p \in Procs : UndoneInv(p)) /\ MixInv /\ [OverwriteNext]_vars
        => MixInv'
  BY MixStep
<1>3. MixInv => MixedOnlyAfterCritical
  BY DEF MixInv, AllQuiet, Quietly, Fits, MixedOnlyAfterCritical, Matched, Path
<1>4. QED
  BY <1>1, <1>2, <1>3, OverwriteInvariant, UndoneInvariant, PTL DEF OverwriteSpec

-----------------------------------------------------------------------------
(***************************************************************************)
(* Two runs, a lock file that only one of them can have left behind, and   *)
(* none that holds the lock for too long.                                  *)
(***************************************************************************)
TwoRuns(a, b) == Procs = {a, b} /\ ~LockLeftOver /\ ~SlowHolders

\* A stale lock file is that of a run that has ended, and then only the other one can see it.
BreakInv ==
    /\ lock.by # Old
    /\ lock.age = "stale" => lock.by \in Procs /\ pc[lock.by] \in Ended
    /\ \A p \in Procs : pc[p] = "breakLock" => \A q \in Procs \ {p} : pc[q] \in Ended

LEMMA BreakStep ==
  ASSUME NEW a, NEW b, TwoRuns(a, b), OverwriteTypeOK, BreakInv, [OverwriteNext]_vars
  PROVE  BreakInv'
<1> USE DEF BreakInv, OverwriteTypeOK
<1>1. CASE UNCHANGED vars
  BY <1>1 DEF vars
<1>2. CASE LockAges
  BY <1>2 DEF LockAges, TwoRuns, Contents, Pairs
<1>3. ASSUME NEW p \in Procs, CriticalStep(p) PROVE BreakInv'
  <2>1. /\ pc[p] \notin Ended /\ pc'[p] # "breakLock"
        /\ lock' = lock
        /\ \A q \in Procs \ {p} : pc'[q] = pc[q]
    BY <1>3, CriticalFrame DEF Holding, Ended
  <2>2. lock'.age = "stale" => lock'.by \in Procs /\ pc'[lock'.by] \in Ended
    BY <2>1
  <2>3. \A q \in Procs : pc'[q] = "breakLock" => pc[q] = "breakLock" /\ q # p
    BY <2>1
  <2>4. \A q \in Procs : pc'[q] # "breakLock"
    BY <2>1, <2>3
  <2>5. QED
    BY <2>1, <2>2, <2>4
<1>4. ASSUME NEW p \in Procs, WaitStep(p) PROVE BreakInv'
  <2> USE DEF Goto, Ended
  <2>1. CASE TryLock(p)
    <3>1. \A q \in Procs \ {p} : pc'[q] = pc[q]
      BY <2>1 DEF TryLock
    <3>2. pc[p] = "tryLock" /\ pc'[p] \in {"stageSecret", "statLock", "err"}
      BY <2>1 DEF TryLock
    <3>3. lock' = lock \/ lock' = [by |-> p, age |-> "young"]
      BY <2>1 DEF TryLock
    <3>4. lock'.by # Old
      BY <3>3, PairNames
    <3>5. lock'.age = "stale" => lock' = lock
      BY <3>3
    <3>6. lock'.age = "stale" => lock'.by \in Procs /\ pc'[lock'.by] \in Ended
      BY <3>1, <3>2, <3>5
    <3>7. \A q \in Procs : pc'[q] # "breakLock"
      BY <3>1, <3>2
    <3>8. QED
      BY <3>4, <3>6, <3>7
  <2>2. CASE StatLock(p)
    <3>1. CASE lock.by # None /\ lock.age = "stale"
      <4>1. \A q \in Procs \ {p} : pc[q] \in Ended
        BY <2>2, <3>1 DEF StatLock, TwoRuns
      <4>2. QED
        BY <2>2, <4>1 DEF StatLock
    <3>2. CASE ~(lock.by # None /\ lock.age = "stale")
      BY <2>2, <3>2 DEF StatLock
    <3>3. QED BY <3>1, <3>2
  <2>3. CASE BreakLock(p)
    <3>1. \A q \in Procs \ {p} : pc'[q] = pc[q]
      BY <2>3 DEF BreakLock
    <3>2. pc[p] = "breakLock" /\ pc'[p] \in {"tryLock", "pollLock"}
      BY <2>3 DEF BreakLock
    <3>3. lock' = lock \/ lock' = NoLock
      BY <2>3 DEF BreakLock
    <3>4. lock'.by # Old
      BY <3>3, PairNames DEF NoLock
    <3>5. lock'.age = "stale" => lock'.by \in Procs /\ pc'[lock'.by] \in Ended
      BY <3>1, <3>2, <3>3 DEF NoLock
    <3>6. \A q \in Procs : pc'[q] # "breakLock"
      BY <3>1, <3>2
    <3>7. QED
      BY <3>4, <3>5, <3>6
  <2>4. CASE PollLock(p)
    BY <2>4 DEF PollLock
  <2>5. QED BY <1>4, <2>1, <2>2, <2>3, <2>4 DEF WaitStep
<1>5. ASSUME NEW p \in Procs, Unlock(p) PROVE BreakInv'
  BY <1>5, PairNames DEF Unlock, NoLock, Goto, Ended
<1>6. ASSUME NEW p \in Procs, Crash(p) PROVE BreakInv'
  BY <1>6 DEF Crash, Goto, Ended
<1>7. QED
  BY <1>1, <1>2, <1>3, <1>4, <1>5, <1>6
     DEF OverwriteNext, OverwriteStep, CriticalStep, WaitStep

(***************************************************************************)
(* Of two runs one removes a lock file as stale only when the other has    *)
(* ended: nobody is under the lock, whichever run was killed and whichever *)
(* calls failed.                                                           *)
(***************************************************************************)
THEOREM TwoRunsBreakRightly ==
  ASSUME NEW a, NEW b, TwoRuns(a, b)
  PROVE  OverwriteSpec => []RightlyStale
<1>1. OverwriteInit => BreakInv
  BY PairNames DEF OverwriteInit, LockInit, NoLock, TwoRuns, BreakInv
<1>2. OverwriteTypeOK /\ BreakInv /\ [OverwriteNext]_vars => BreakInv'
  BY BreakStep
<1>3. BreakInv => RightlyStale
  BY DEF BreakInv, RightlyStale, Ended, Holding
<1>4. QED
  BY <1>1, <1>2, <1>3, OverwriteTypeCorrect, PTL DEF OverwriteSpec

(***************************************************************************)
(* So two runs of -G --force, each of which may fail at any call or be     *)
(* killed at any point, exclude each other, leave complete pairs, destroy  *)
(* no key and undo what fails, with nothing assumed of how they meet.      *)
(***************************************************************************)
THEOREM TwoRunsOverwriteSafely ==
  ASSUME NEW a, NEW b, TwoRuns(a, b)
  PROVE  OverwriteSpec =>
           /\ []MutualExclusion
           /\ []CommittedPairInPlace
           /\ KeyNotDestroyed
           /\ []FailedOverwriteUndone
           /\ []MixedOnlyAfterCritical
  BY TwoRunsBreakRightly, LockExcludes, CommitIsComplete, KeysSurvive, FailureUndone,
     MixNeedsCritical
=============================================================================
