------------------------- MODULE KeypairCreateProofs ------------------------
(***************************************************************************)
(* Proofs about KeypairCreate, for every set of runs, every bound on the   *)
(* faults and every set of runs that may be killed.                        *)
(***************************************************************************)
EXTENDS KeypairCreate, FiniteSetTheorems, TLAPS

Before == {"checkSecret", "checkPublic", "stageSecret", "stagePublic", "linkSecret",
           "dropStagedSecret"}

Has(p, path) == file[path] = p

(***************************************************************************)
(* What run p owns at each point of its program.                           *)
(***************************************************************************)
OwnsNothing(p) == ~Has(p, "secret") /\ ~Has(p, "public")
OwnsPair(p) == Has(p, "secret") /\ Has(p, "public")
Withdrawn(p) == Quiet(p) => OwnsNothing(p)

OwnInv(p) ==
    /\ pc[p] \in Before => OwnsNothing(p)
    /\ pc[p] \in {"syncSecret", "linkPublic"} => Has(p, "secret") /\ ~Has(p, "public")
    /\ pc[p] \in {"syncPublic", "undoPublic", "ok"} => OwnsPair(p)
    /\ pc[p] = "undoSecret" => Has(p, "secret") /\ (Quiet(p) => ~Has(p, "public"))
    /\ pc[p] \in {"dropSecretTmp", "dropPublicTmp"} =>
          IF then[p] = "ok" THEN OwnsPair(p) ELSE Withdrawn(p)
    /\ pc[p] = "err" => Withdrawn(p)
    /\ pc[p] = "crashed" /\ Quiet(p) /\ Has(p, "public") => Has(p, "secret")
    /\ then[p] = "ok" => pc[p] \in {"dropSecretTmp", "dropPublicTmp", "ok", "crashed"}

\* An old public key is seen by the check, so no run that met one goes on.
OldPublicInv ==
    file["public"] = Old =>
        \A p \in Procs :
            /\ pc[p] \in {"checkSecret", "checkPublic", "err", "crashed"}
            /\ ~Has(p, "secret")

CreateInv == CreateTypeOK /\ (\A p \in Procs : OwnInv(p)) /\ OldPublicInv

-----------------------------------------------------------------------------
LEMMA CreateTypeInit == CreateInit => CreateTypeOK
  BY FaultBound DEF CreateInit, CreateTypeOK, FilesInit, Contents, Pairs, CreateLabels

LEMMA CreateTypeStep ==
  ASSUME CreateTypeOK, [CreateNext]_vars
  PROVE  CreateTypeOK'
<1> USE DEF CreateTypeOK, CreateLabels, Ended, Messages, Contents, Pairs, Path
<1>1. CASE UNCHANGED vars
  BY <1>1 DEF vars
<1>2. ASSUME NEW p \in Procs, CheckAbsent(p) PROVE CreateTypeOK'
  BY <1>2 DEF CheckAbsent, Goto
<1>3. ASSUME NEW p \in Procs, Stage(p) PROVE CreateTypeOK'
  BY <1>3 DEF Stage, WriteTemp, Goto, GotoThen, Works, Fails
<1>4. ASSUME NEW p \in Procs, LinkSecret(p) \/ LinkPublic(p) PROVE CreateTypeOK'
  BY <1>4 DEF LinkSecret, LinkPublic, Link, Goto, GotoThen, Works, Fails
<1>5. ASSUME NEW p \in Procs, SyncSecret(p) \/ SyncPublic(p) PROVE CreateTypeOK'
  BY <1>5 DEF SyncSecret, SyncPublic, SyncParent, Goto, GotoThen, Works, Fails
<1>6. ASSUME NEW p \in Procs, UndoPublic(p) \/ UndoSecret(p) PROVE CreateTypeOK'
  BY <1>6 DEF UndoPublic, UndoSecret, RemoveFinal, Goto, Tell, Works, Fails
<1>7. ASSUME NEW p \in Procs, DropTemps(p) PROVE CreateTypeOK'
  BY <1>7 DEF DropTemps, DropTemp, Goto, Tell, Works, Fails
<1>8. ASSUME NEW p \in Procs, Crash(p) PROVE CreateTypeOK'
  BY <1>8 DEF Crash, Goto
<1>9. QED
  BY <1>1, <1>2, <1>3, <1>4, <1>5, <1>6, <1>7, <1>8 DEF CreateNext, CreateStep

(***************************************************************************)
(* Every state of KeypairCreate has the shape CreateTypeOK says.           *)
(***************************************************************************)
THEOREM CreateTypeCorrect == CreateSpec => []CreateTypeOK
<1>1. CreateInit => CreateTypeOK BY CreateTypeInit
<1>2. CreateTypeOK /\ [CreateNext]_vars => CreateTypeOK' BY CreateTypeStep
<1>3. QED BY <1>1, <1>2, PTL DEF CreateSpec

-----------------------------------------------------------------------------
LEMMA CreateInvInit == CreateInit => CreateInv
<1> SUFFICES ASSUME CreateInit PROVE CreateInv OBVIOUS
<1>1. CreateTypeOK BY CreateTypeInit
<1>2. ASSUME NEW p \in Procs PROVE OwnInv(p)
  BY <1>2, PairNames
     DEF CreateInit, FilesInit, OwnInv, Before, OwnsNothing, Has, Path
<1>3. OldPublicInv
  BY PairNames DEF CreateInit, FilesInit, OldPublicInv, Has, Path
<1>4. QED BY <1>1, <1>2, <1>3 DEF CreateInv

(***************************************************************************)
(* A step changes a final path only from nothing to the file of the run    *)
(* that takes it, or from that run's file to nothing.                      *)
(***************************************************************************)
LEMMA OwnFilesOnly ==
  ASSUME CreateInv, NEW p \in Procs, CreateStep(p) \/ Crash(p)
  PROVE  /\ \A path \in Path :
               \/ file'[path] = file[path]
               \/ file[path] = None /\ file'[path] = p
               \/ /\ file[path] = p /\ file'[path] = None
                  /\ pc[p] \in {"undoSecret", "undoPublic"}
                  /\ pc'[p] # pc[p]
         /\ \A q \in Procs \ {p} :
               pc'[q] = pc[q] /\ then'[q] = then[q] /\ told'[q] = told[q]
<1> USE DEF CreateInv, CreateTypeOK, Path
<1>1. CASE CheckAbsent(p)
  BY <1>1 DEF CheckAbsent, Goto
<1>2. CASE Stage(p)
  BY <1>2 DEF Stage, WriteTemp, Goto, GotoThen
<1>3. CASE LinkSecret(p) \/ LinkPublic(p)
  BY <1>3 DEF LinkSecret, LinkPublic, Link, Goto, GotoThen
<1>4. CASE SyncSecret(p) \/ SyncPublic(p)
  BY <1>4 DEF SyncSecret, SyncPublic, SyncParent, Goto, GotoThen
<1>5. CASE UndoPublic(p) \/ UndoSecret(p)
  BY <1>5 DEF UndoPublic, UndoSecret, RemoveFinal, Goto, Tell, OwnInv, OwnsPair, Has
<1>6. CASE DropTemps(p)
  BY <1>6 DEF DropTemps, DropTemp, Goto, Tell
<1>7. CASE Crash(p)
  BY <1>7 DEF Crash, Goto
<1>8. QED
  BY <1>1, <1>2, <1>3, <1>4, <1>5, <1>6, <1>7 DEF CreateStep

\* So the step of one run leaves alone what holds of another.
LEMMA OthersKeepInv ==
  ASSUME CreateInv, NEW p \in Procs, CreateStep(p) \/ Crash(p),
         NEW q \in Procs, q # p
  PROVE  OwnInv(q)'
<1>1. \A path \in Path : Has(q, path)' <=> Has(q, path)
  BY OwnFilesOnly, PairNames DEF Has
<1>2. pc'[q] = pc[q] /\ then'[q] = then[q] /\ told'[q] = told[q]
  BY OwnFilesOnly
<1>3. (Quiet(q))' <=> Quiet(q)
  BY <1>2 DEF Quiet
<1>4. OwnInv(q)
  BY DEF CreateInv
<1>5. QED
  BY <1>1, <1>2, <1>3, <1>4 DEF OwnInv, OwnsNothing, OwnsPair, Withdrawn, Path, Before

LEMMA OwnStepKeepsInv ==
  ASSUME CreateInv, NEW p \in Procs, CreateStep(p) \/ Crash(p)
  PROVE  OwnInv(p)'
<1> USE PairNames DEF CreateInv, CreateTypeOK, Path, OwnInv, Before, OwnsNothing, OwnsPair,
                      Withdrawn, Has, Quiet
<1>1. CASE CheckAbsent(p)
  BY <1>1 DEF CheckAbsent, Goto
<1>2. CASE Stage(p)
  BY <1>2 DEF Stage, WriteTemp, Goto, GotoThen
<1>3. CASE LinkSecret(p)
  BY <1>3 DEF LinkSecret, Link, Goto, GotoThen
<1>4. CASE LinkPublic(p)
  BY <1>4 DEF LinkPublic, Link, Goto, GotoThen
<1>5. CASE SyncSecret(p) \/ SyncPublic(p)
  BY <1>5 DEF SyncSecret, SyncPublic, SyncParent, Goto, GotoThen
<1>6. CASE UndoPublic(p)
  BY <1>6 DEF UndoPublic, RemoveFinal, Goto, Tell
<1>7. CASE UndoSecret(p)
  BY <1>7 DEF UndoSecret, RemoveFinal, Goto, Tell
<1>8. CASE DropTemps(p)
  BY <1>8 DEF DropTemps, DropTemp, Goto, Tell
<1>9. CASE Crash(p)
  BY <1>9 DEF Crash, Goto, Ended, CreateLabels
<1>10. QED
  BY <1>1, <1>2, <1>3, <1>4, <1>5, <1>6, <1>7, <1>8, <1>9 DEF CreateStep

LEMMA OldPublicStep ==
  ASSUME CreateInv, NEW p \in Procs, CreateStep(p) \/ Crash(p)
  PROVE  OldPublicInv'
<1> SUFFICES ASSUME file'["public"] = Old
             PROVE  \A q \in Procs :
                        /\ pc'[q] \in {"checkSecret", "checkPublic", "err", "crashed"}
                        /\ file'["secret"] # q
  BY DEF OldPublicInv, Has
<1>1. file["public"] = Old
  BY OwnFilesOnly, PairNames DEF Path
<1>2. \A q \in Procs : /\ pc[q] \in {"checkSecret", "checkPublic", "err", "crashed"}
                       /\ file["secret"] # q
  BY <1>1 DEF CreateInv, OldPublicInv, Has
<1>3. /\ pc'[p] \in {"checkSecret", "checkPublic", "err", "crashed"}
      /\ file' = file
  <2>1. CheckAbsent(p) \/ Crash(p)
    BY <1>2 DEF CreateStep, Stage, LinkSecret, SyncSecret, LinkPublic, SyncPublic,
                UndoPublic, UndoSecret, DropTemps
  <2>2. QED
    BY <1>1, <1>2, <2>1, PairNames
       DEF CheckAbsent, Crash, Goto, CreateInv, CreateTypeOK
<1>4. QED
  BY <1>2, <1>3, OwnFilesOnly

LEMMA CreateInvStep ==
  ASSUME CreateInv, [CreateNext]_vars
  PROVE  CreateInv'
<1>1. CreateTypeOK'
  BY CreateTypeStep DEF CreateInv
<1>2. CASE UNCHANGED vars
  BY <1>1, <1>2
     DEF vars, CreateInv, OwnInv, OldPublicInv, OwnsNothing, OwnsPair, Withdrawn, Has, Quiet
<1>3. ASSUME NEW p \in Procs, CreateStep(p) \/ Crash(p)
      PROVE  CreateInv'
  <2>1. \A q \in Procs : OwnInv(q)'
    BY <1>3, OthersKeepInv, OwnStepKeepsInv
  <2>2. OldPublicInv'
    BY <1>3, OldPublicStep
  <2>3. QED
    BY <1>1, <2>1, <2>2 DEF CreateInv
<1>4. QED
  BY <1>2, <1>3 DEF CreateNext

LEMMA CreateInvariant == CreateSpec => []CreateInv
<1>1. CreateInit => CreateInv BY CreateInvInit
<1>2. CreateInv /\ [CreateNext]_vars => CreateInv' BY CreateInvStep
<1>3. QED BY <1>1, <1>2, PTL DEF CreateSpec

-----------------------------------------------------------------------------
(***************************************************************************)
(* A run without --force that returned Ok has its pair in place for good,  *)
(* however many other runs race with it, fail or are killed.               *)
(***************************************************************************)
THEOREM OkStaysInstalled == CreateSpec => []OkMeansInstalled
<1>1. CreateInv => OkMeansInstalled
  BY DEF CreateInv, OwnInv, OwnsPair, Has, OkMeansInstalled, Path
<1>2. QED BY <1>1, CreateInvariant, PTL

(***************************************************************************)
(* A run that failed leaves no key file behind unless it warned of it.     *)
(***************************************************************************)
THEOREM FailureIsClean == CreateSpec => []FailureLeavesNoKey
<1>1. CreateInv => FailureLeavesNoKey
  BY DEF CreateInv, OwnInv, Withdrawn, OwnsNothing, Has, FailureLeavesNoKey, Path
<1>2. QED BY <1>1, CreateInvariant, PTL

(***************************************************************************)
(* Two pairs never end up side by side, and no public key without its      *)
(* secret key, unless a run warned that a removal failed.                  *)
(***************************************************************************)
THEOREM PairsNeverMixed == CreateSpec => []NeverMixed
<1>1. ASSUME CreateInv PROVE NeverMixed
  <2>1. ASSUME NEW p \in Procs, Has(p, "public"), Quiet(p) PROVE Has(p, "secret")
    BY <1>1, <2>1
       DEF CreateInv, CreateTypeOK, CreateLabels, Ended, OwnInv, Before, OwnsNothing,
           OwnsPair, Withdrawn
  <2>2. ASSUME file["public"] = Old, file["secret"] # None PROVE file["secret"] = Old
    <3>1. SUFFICES ASSUME NEW p \in Procs, file["secret"] = p PROVE FALSE
      BY <1>1, <2>2 DEF CreateInv, CreateTypeOK, Contents, Pairs, Path
    <3>2. QED
      BY <1>1, <2>2, <3>1 DEF CreateInv, OldPublicInv, Has
  <2>3. QED
    BY <1>1, <2>1, <2>2 DEF NeverMixed, Matched, Has, CreateInv, CreateTypeOK, Contents,
                            Pairs, Path
<1>2. QED BY <1>1, CreateInvariant, PTL

(***************************************************************************)
(* Whatever leaves a final path was put there by the run that removes it.  *)
(***************************************************************************)
THEOREM ForeignFilesAreKept == CreateSpec => ForeignFileKept
<1> DEFINE Kept ==
      \A path \in Path :
         file[path] # None /\ file'[path] # file[path] =>
            /\ file'[path] = None
            /\ file[path] \in Procs
            /\ pc[file[path]] \in {"undoSecret", "undoPublic"}
            /\ pc'[file[path]] # pc[file[path]]
<1>1. CreateInv /\ [CreateNext]_vars => [Kept]_vars
  <2>1. SUFFICES ASSUME CreateInv, CreateNext PROVE Kept
    OBVIOUS
  <2>2. PICK p \in Procs : CreateStep(p) \/ Crash(p)
    BY <2>1 DEF CreateNext
  <2>3. QED
    BY <2>1, <2>2, OwnFilesOnly
<1>2. QED
  BY <1>1, CreateInvariant, PTL DEF CreateSpec, ForeignFileKept

-----------------------------------------------------------------------------
(***************************************************************************)
(* A race in an empty directory without a fault: until a run has linked    *)
(* its secret key nobody fails, and the run that has done so goes through. *)
(***************************************************************************)
Race ==
    /\ faults = 0
    /\ \A p \in Procs : pc[p] # "crashed"
    /\ \A path \in Path : file[path] # Old

Going == {"checkSecret", "checkPublic", "stageSecret", "stagePublic", "linkSecret"}

Winning(p) ==
    \/ pc[p] \in {"syncSecret", "linkPublic"} /\ file["public"] = None
    \/ pc[p] \in {"syncPublic", "ok"}
    \/ pc[p] \in {"dropSecretTmp", "dropPublicTmp"} /\ then[p] = "ok"

RaceInv ==
    Race => \/ /\ \A path \in Path : file[path] = None
               /\ \A p \in Procs : pc[p] \in Going
            \/ file["secret"] \in Procs /\ Winning(file["secret"])

\* While nobody has a file in place, a step either links the secret key or fails nowhere.
LEMMA UndecidedStep ==
  ASSUME CreateInv, NEW p \in Procs, CreateStep(p), faults' = 0,
         \A path \in Path : file[path] = None, pc[p] \in Going
  PROVE  \/ file' = file /\ pc'[p] \in Going
         \/ file'["secret"] = p /\ pc'[p] = "syncSecret" /\ file'["public"] = None
<1> USE DEF CreateInv, CreateTypeOK, Going, Path
<1>1. CASE CheckAbsent(p)
  BY <1>1 DEF CheckAbsent, Goto
<1>2. CASE Stage(p)
  BY <1>2 DEF Stage, WriteTemp, Goto, GotoThen, Fails
<1>3. CASE LinkSecret(p)
  BY <1>3 DEF LinkSecret, Link, Goto, GotoThen, Fails
<1>4. QED
  BY <1>1, <1>2, <1>3 DEF CreateStep, SyncSecret, LinkPublic, SyncPublic, UndoPublic,
                          UndoSecret, DropTemps

\* The run whose secret key is in place gets its public key into place as well.
LEMMA WinnerStep ==
  ASSUME CreateInv, NEW p \in Procs, CreateStep(p), faults' = 0,
         file["secret"] = p, Winning(p)
  PROVE  file'["secret"] = p /\ Winning(p)'
<1> USE DEF CreateInv, CreateTypeOK, Winning, Path
<1>1. CASE SyncSecret(p)
  BY <1>1 DEF SyncSecret, SyncParent, Goto, GotoThen, Fails
<1>2. CASE LinkPublic(p)
  BY <1>2 DEF LinkPublic, Link, Goto, GotoThen, Fails
<1>3. CASE SyncPublic(p)
  BY <1>3 DEF SyncPublic, SyncParent, Goto, GotoThen, Fails
<1>4. CASE DropTemps(p)
  BY <1>4 DEF DropTemps, DropTemp, Goto, Tell, Fails
<1>5. QED
  BY <1>1, <1>2, <1>3, <1>4 DEF CreateStep, CheckAbsent, Stage, LinkSecret, UndoPublic,
                                UndoSecret

\* Meanwhile a run that has nothing in place puts nothing there.
LEMMA LoserStep ==
  ASSUME CreateInv, NEW q \in Procs, file["secret"] = q, Winning(q),
         NEW p \in Procs \ {q}, CreateStep(p), faults' = 0
  PROVE  file'["secret"] = q /\ Winning(q)'
<1>1. pc'[q] = pc[q] /\ then'[q] = then[q]
  BY OwnFilesOnly
<1>2. pc[p] \notin {"syncSecret", "linkPublic", "syncPublic", "undoPublic", "undoSecret"}
  BY PairNames DEF CreateInv, OwnInv, OwnsPair, Has
<1>3. file' = file
  <2> USE <1>2, PairNames DEF CreateInv, CreateTypeOK, Path
  <2>1. CASE CheckAbsent(p) \/ Stage(p) \/ DropTemps(p)
    BY <2>1 DEF CheckAbsent, Stage, WriteTemp, DropTemps, DropTemp
  <2>2. CASE LinkSecret(p)
    BY <2>2 DEF LinkSecret, Link
  <2>3. QED
    BY <2>1, <2>2 DEF CreateStep, SyncSecret, LinkPublic, SyncPublic, UndoPublic, UndoSecret
<1>4. QED
  BY <1>1, <1>3 DEF Winning

LEMMA RaceStep ==
  ASSUME CreateInv, RaceInv, [CreateNext]_vars
  PROVE  RaceInv'
<1>1. CASE UNCHANGED vars
  BY <1>1 DEF vars, RaceInv, Race, Winning
<1>2. ASSUME NEW p \in Procs, CreateStep(p) \/ Crash(p), Race'
      PROVE  RaceInv'
  <2>1. CreateStep(p)
    BY <1>2 DEF Crash, Goto, Race, CreateInv, CreateTypeOK
  <2>2. faults' = 0 /\ faults = 0
    <3>1. faults' = faults \/ faults' = faults + 1
      BY <2>1 DEF CreateStep, CheckAbsent, Stage, WriteTemp, LinkSecret, LinkPublic, Link,
                  SyncSecret, SyncPublic, SyncParent, UndoPublic, UndoSecret, RemoveFinal,
                  DropTemps, DropTemp, Works, Fails
    <3>2. QED
      BY <1>2, <3>1 DEF Race, CreateInv, CreateTypeOK
  <2>3. Race
    <3>1. \A q \in Procs : pc[q] # "crashed"
      BY <1>2, <2>1, OwnFilesOnly
         DEF Race, CreateStep, CheckAbsent, Stage, LinkSecret, LinkPublic, SyncSecret,
             SyncPublic, UndoPublic, UndoSecret, DropTemps
    <3>2. \A path \in Path : file[path] # Old
      BY <1>2, OwnFilesOnly, PairNames DEF Race
    <3>3. QED
      BY <2>2, <3>1, <3>2 DEF Race
  <2>4. CASE (\A path \in Path : file[path] = None) /\ \A q \in Procs : pc[q] \in Going
    BY <2>1, <2>2, <2>4, UndecidedStep, OwnFilesOnly DEF RaceInv, Winning, Path
  <2>5. CASE file["secret"] \in Procs /\ Winning(file["secret"])
    BY <2>1, <2>2, <2>5, WinnerStep, LoserStep DEF RaceInv
  <2>6. QED
    BY <2>3, <2>4, <2>5 DEF RaceInv
<1>3. QED
  BY <1>1, <1>2 DEF CreateNext, RaceInv

(***************************************************************************)
(* Of any runs that race for an empty directory without a fault, one wins. *)
(***************************************************************************)
THEOREM RaceHasOneWinner ==
  ASSUME Procs # {}
  PROVE  CreateSpec => []ExactlyOneWinner
<1>1. CreateInit => RaceInv
  BY PairNames DEF CreateInit, FilesInit, RaceInv, Race, Going, Path
<1>2. CreateInv /\ RaceInv /\ [CreateNext]_vars => RaceInv'
  BY RaceStep
<1>3. ASSUME CreateInv, RaceInv PROVE ExactlyOneWinner
  <2> SUFFICES ASSUME \A p \in Procs : pc[p] \in {"ok", "err"},
                      faults = 0, \A path \in Path : file[path] # Old
               PROVE  Cardinality({p \in Procs : pc[p] = "ok"}) = 1
    BY DEF ExactlyOneWinner
  <2>1. Race
    BY DEF Race
  <2>2. file["secret"] \in Procs /\ pc[file["secret"]] = "ok"
    BY <1>3, <2>1 DEF RaceInv, Winning, Going
  <2>3. \A p \in Procs : pc[p] = "ok" => p = file["secret"]
    BY <1>3 DEF CreateInv, OwnInv, OwnsPair, Has
  <2>4. {p \in Procs : pc[p] = "ok"} = {file["secret"]}
    BY <2>2, <2>3
  <2>5. QED
    BY <2>4, FS_Singleton
<1>4. QED
  BY <1>1, <1>2, <1>3, CreateInvariant, PTL DEF CreateSpec
=============================================================================
