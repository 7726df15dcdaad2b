--------------------------- MODULE AtomicFileProofs --------------------------
(***************************************************************************)
(* Proofs about AtomicFile, for any number of writers of each kind, any    *)
(* number of failing calls, kills and power losses.                        *)
(***************************************************************************)
EXTENDS AtomicFile, TLAPS

\* Which writers are at which calls.
RoleInv(w) ==
    /\ pc[w] = "checkLink" => w \in Replacers
    /\ pc[w] \in {"create", "fill"} => w \in Plain
    /\ pc[w] \in {"open", "write", "sync", "install", "syncDir", "dropTmp"} => w \in Staged

\* A temporary file exists from open to the rename or to its removal.
TmpInv(w) ==
    /\ pc[w] \in {"checkLink", "open"} => w \notin tmp
    /\ pc[w] = "syncDir" /\ w \notin Linkers => w \notin tmp
    /\ w \in Staged /\ pc[w] \in {"ok", "err"} => w \notin tmp \/ w \in warned

CleanInv == TypeOK /\ \A w \in Writers : RoleInv(w) /\ TmpInv(w)

\* What w has written, and what of it has reached the path.
FileInv(w) ==
    /\ pc[w] \in {"checkLink", "open", "write", "sync", "install", "create"} => w \notin Seen
    /\ pc[w] \in {"sync", "install"} => w \in written
    /\ pc[w] = "install" => w \in synced
    /\ w \in Staged \cap Seen => w \in written \cap synced
    /\ pc[w] \in {"syncDir", "fill"} => w \in Seen

\* A staged writer that returned Ok, or is about to, is on disk.
Done(w) == w \in Staged /\ (pc[w] = "ok" \/ (pc[w] = "dropTmp" /\ result[w] = "ok"))
OnDisk(w) == \E i \in 1..durable : entries[i] = w
DiskInv(w) == Done(w) => OnDisk(w)

PromiseInv == CleanInv /\ \A w \in Writers : FileInv(w) /\ DiskInv(w)

-----------------------------------------------------------------------------
LEMMA WritersApart ==
  /\ None \notin Writers /\ Torn \notin Writers /\ Before \cap Writers = {}
  /\ Linkers \subseteq Staged /\ Plain \cap Staged = {} /\ Replacers \subseteq Staged
  /\ Overwriters \subseteq Staged /\ Linkers \cap Replacers = {}
  /\ Staged \subseteq Writers /\ Writers = Staged \union Plain /\ Creators = Linkers \union Plain
  /\ Creators \cap Replacers = {} /\ Creators \cap Overwriters = {}
BY DistinctContents, OneKindEach DEF Writers, Staged, Creators, Before

LEMMA CleanInit == Init => CleanInv
<1> SUFFICES ASSUME Init PROVE CleanInv OBVIOUS
<1>1. PICK x \in Before : entries = <<x>>
  BY DEF Init
<1>2. entries \in Seq(Writers \union Before) /\ Len(entries) = 1
  BY <1>1
<1>3. TypeOK BY <1>2, Switches DEF Init, TypeOK, Ended
<1>4. ASSUME NEW w \in Writers PROVE RoleInv(w) /\ TmpInv(w)
  BY <1>4, WritersApart DEF Init, RoleInv, TmpInv
<1>5. QED BY <1>3, <1>4 DEF CleanInv

\* No call of w changes where another writer is, or the fate of its temporary file.
LEMMA OthersStay ==
  ASSUME TypeOK, NEW w \in Writers, Step(w) \/ Kill(w), NEW v \in Writers, v # w
  PROVE  /\ pc'[v] = pc[v] /\ result'[v] = result[v]
         /\ v \in tmp' <=> v \in tmp
         /\ v \in warned' <=> v \in warned
         /\ v \in written' <=> v \in written
         /\ v \in synced' <=> v \in synced
<1> USE DEF TypeOK, Goto, Return
<1>1. CASE CheckLink(w) BY <1>1 DEF CheckLink
<1>2. CASE OpenTmp(w) BY <1>2 DEF OpenTmp
<1>3. CASE WriteTmp(w) BY <1>3 DEF WriteTmp
<1>4. CASE SyncTmp(w) BY <1>4 DEF SyncTmp
<1>5. CASE Rename(w) BY <1>5 DEF Rename
<1>6. CASE Link(w) BY <1>6 DEF Link
<1>7. CASE SyncDir(w) BY <1>7 DEF SyncDir
<1>8. CASE DropTmp(w) BY <1>8 DEF DropTmp
<1>9. CASE Create(w) BY <1>9 DEF Create
<1>10. CASE Fill(w) BY <1>10 DEF Fill
<1>11. CASE Kill(w) BY <1>11 DEF Kill
<1>12. QED BY <1>1, <1>2, <1>3, <1>4, <1>5, <1>6, <1>7, <1>8, <1>9, <1>10, <1>11 DEF Step

LEMMA CleanStep ==
  ASSUME CleanInv, [Next]_vars
  PROVE  CleanInv'
<1>0. TypeOK /\ \A w \in Writers : RoleInv(w) /\ TmpInv(w)
  BY DEF CleanInv
<1>1. CASE UNCHANGED vars
  BY <1>0, <1>1 DEF vars, CleanInv, TypeOK, RoleInv, TmpInv, Ended
<1>2. CASE PowerLoss
  <2>1. PICK i \in durable..Len(entries) : entries' = SubSeq(entries, 1, i)
    BY <1>2 DEF PowerLoss
  <2>2. entries' \in Seq(Writers \union Before) /\ Len(entries') = i /\ i \in Nat \ {0}
    BY <1>0, <2>1 DEF TypeOK
  <2>3. written' \subseteq Writers /\ durable' \in 1..Len(entries')
    BY <1>0, <1>2, <2>2 DEF PowerLoss, TypeOK
  <2>4. TypeOK'
    BY <1>0, <1>2, <2>2, <2>3 DEF PowerLoss, TypeOK, Ended
  <2>5. ASSUME NEW w \in Writers PROVE RoleInv(w)' /\ TmpInv(w)'
    BY <1>0, <1>2, <2>5 DEF PowerLoss, TypeOK, RoleInv, TmpInv, Ended
  <2>6. QED BY <2>4, <2>5 DEF CleanInv
<1>3. ASSUME NEW w \in Writers, Step(w) \/ Kill(w) PROVE CleanInv'
  <2> USE DEF Goto, Return, Works, Fails
  <2>0. TypeOK /\ RoleInv(w) /\ TmpInv(w) BY <1>0
  <2>1. TypeOK'
    <3> USE <2>0, WritersApart DEF TypeOK, Ended, RoleInv
    <3>0. /\ Append(entries, w) \in Seq(Writers \union Before)
          /\ Len(Append(entries, w)) = Len(entries) + 1
      OBVIOUS
    <3>1. CASE CheckLink(w) BY <3>1 DEF CheckLink
    <3>2. CASE OpenTmp(w) BY <3>2 DEF OpenTmp
    <3>3. CASE WriteTmp(w) BY <3>3 DEF WriteTmp
    <3>4. CASE SyncTmp(w) BY <3>4 DEF SyncTmp
    <3>5. CASE Rename(w)
      <4>1. CASE entries' = Append(entries, w)
        BY <3>0, <3>5, <4>1 DEF Rename
      <4>2. CASE entries' = entries
        BY <3>5, <4>2 DEF Rename
      <4>3. QED BY <3>5, <4>1, <4>2 DEF Rename
    <3>6. CASE Link(w) BY <3>6 DEF Link
    <3>7. CASE SyncDir(w) BY <3>7 DEF SyncDir
    <3>8. CASE DropTmp(w) BY <3>8 DEF DropTmp
    <3>9. CASE Create(w)
      <4>1. CASE entries' = Append(entries, w)
        BY <3>0, <3>9, <4>1 DEF Create
      <4>2. CASE entries' = entries
        BY <3>9, <4>2 DEF Create
      <4>3. QED BY <3>9, <4>1, <4>2 DEF Create
    <3>10. CASE Fill(w) BY <3>10 DEF Fill
    <3>11. CASE Kill(w) BY <3>11 DEF Kill
    <3>12. QED
      BY <1>3, <3>1, <3>2, <3>3, <3>4, <3>5, <3>6, <3>7, <3>8, <3>9, <3>10, <3>11 DEF Step
  <2>2. RoleInv(w)' /\ TmpInv(w)'
    <3> USE <2>0, WritersApart DEF TypeOK, RoleInv, TmpInv
    <3>1. CASE CheckLink(w) BY <3>1 DEF CheckLink
    <3>2. CASE OpenTmp(w) BY <3>2 DEF OpenTmp
    <3>3. CASE WriteTmp(w) BY <3>3 DEF WriteTmp
    <3>4. CASE SyncTmp(w) BY <3>4 DEF SyncTmp
    <3>5. CASE Rename(w) BY <3>5 DEF Rename
    <3>6. CASE Link(w) BY <3>6 DEF Link
    <3>7. CASE SyncDir(w) BY <3>7 DEF SyncDir
    <3>8. CASE DropTmp(w) BY <3>8 DEF DropTmp
    <3>9. CASE Create(w) BY <3>9 DEF Create
    <3>10. CASE Fill(w) BY <3>10 DEF Fill
    <3>11. CASE Kill(w) BY <3>11 DEF Kill
    <3>12. QED
      BY <1>3, <3>1, <3>2, <3>3, <3>4, <3>5, <3>6, <3>7, <3>8, <3>9, <3>10, <3>11 DEF Step
  <2>3. ASSUME NEW v \in Writers, v # w PROVE RoleInv(v)' /\ TmpInv(v)'
    BY <1>0, <1>3, <2>0, <2>3, OthersStay DEF RoleInv, TmpInv
  <2>4. QED BY <2>1, <2>2, <2>3 DEF CleanInv
<1>4. QED BY <1>1, <1>2, <1>3 DEF Next

LEMMA CleanAlways == Spec => []CleanInv
<1>1. Init => CleanInv BY CleanInit
<1>2. CleanInv /\ [Next]_vars => CleanInv' BY CleanStep
<1>3. QED BY <1>1, <1>2, PTL DEF Spec

(***************************************************************************)
(* Every state of AtomicFile has the shape TypeOK says; that a temporary   *)
(* file belongs to a staging writer takes the program position of each.    *)
(***************************************************************************)
THEOREM AtomicTypeCorrect == Spec => []TypeOK
<1>1. CleanInv => TypeOK BY DEF CleanInv
<1>2. QED BY <1>1, CleanAlways, PTL

(***************************************************************************)
(* A writer that returned has removed its temporary file or warned, at     *)
(* whatever call it failed.                                                *)
(***************************************************************************)
THEOREM WritersAreTidy == Spec => []FailureLeavesNoTmp
<1>1. CleanInv => FailureLeavesNoTmp
  BY WritersApart DEF CleanInv, TmpInv, FailureLeavesNoTmp
<1>2. QED BY <1>1, CleanAlways, PTL

-----------------------------------------------------------------------------
LEMMA SeenAppend ==
  ASSUME TypeOK, NEW w \in Writers, entries' = Append(entries, w)
  PROVE  /\ Len(entries') = Len(entries) + 1 /\ entries'[Len(entries')] = w
         /\ \A i \in 1..Len(entries) : entries'[i] = entries[i]
         /\ Seen' = Seen \union {w}
<1> USE DEF TypeOK
<1>0. entries \in Seq(Writers \union Before) /\ w \in Writers \union Before
  OBVIOUS
<1>1. Len(entries') = Len(entries) + 1
  BY <1>0
<1>6. entries'[Len(entries) + 1] = w
  BY <1>0
<1>2. \A i \in 1..Len(entries) : entries'[i] = entries[i]
  BY <1>0
<1>3. Len(entries) \in Nat
  OBVIOUS
<1>4. 1..Len(entries') = 1..Len(entries) \union {Len(entries) + 1}
  BY <1>1, <1>3
<1>5. QED BY <1>1, <1>2, <1>3, <1>4, <1>6 DEF Seen

\* The calls of w leave the path alone or put its own file there.
LEMMA PathStep ==
  ASSUME TypeOK, NEW w \in Writers, Step(w) \/ Kill(w)
  PROVE  /\ entries' = entries \/ entries' = Append(entries, w)
         /\ durable' = durable \/ (durable' = Len(entries) /\ entries' = entries)
<1>1. CASE Kill(w) BY <1>1 DEF Kill
<1>2. CASE \/ CheckLink(w) \/ OpenTmp(w) \/ WriteTmp(w) \/ SyncTmp(w)
           \/ DropTmp(w) \/ Fill(w)
  BY <1>2 DEF CheckLink, OpenTmp, WriteTmp, SyncTmp, DropTmp, Fill
<1>4. CASE SyncDir(w) BY <1>4 DEF SyncDir
<1>5. CASE Rename(w) BY <1>5 DEF Rename
<1>6. CASE Link(w) BY <1>6 DEF Link
<1>7. CASE Create(w) BY <1>7 DEF Create
<1>8. QED BY <1>1, <1>2, <1>4, <1>5, <1>6, <1>7 DEF Step

\* So does the disk: what it holds of another writer stays there.
LEMMA OthersKeep ==
  ASSUME TypeOK, NEW w \in Writers, Step(w) \/ Kill(w), NEW v \in Writers
  PROVE  /\ OnDisk(v) => OnDisk(v)'
         /\ v # w => (v \in Seen' <=> v \in Seen)
<1>1. CASE entries' = entries
  <2>1. durable' \in Nat /\ durable \in Nat /\ durable <= durable'
    BY PathStep DEF TypeOK
  <2>2. QED BY <1>1, <2>1 DEF OnDisk, Seen
<1>2. CASE entries' = Append(entries, w) /\ durable' = durable
  <2>1. durable \in 1..Len(entries) /\ Len(entries) \in Nat
    BY DEF TypeOK
  <2>2. \A i \in 1..durable : entries'[i] = entries[i]
    BY <1>2, <2>1, SeenAppend
  <2>3. OnDisk(v) => OnDisk(v)'
    BY <1>2, <2>2 DEF OnDisk
  <2>4. Seen' = Seen \union {w}
    BY <1>2, SeenAppend
  <2>5. QED BY <2>3, <2>4
<1>3. QED BY <1>1, <1>2, PathStep

LEMMA PromiseInit == Init => PromiseInv
<1> SUFFICES ASSUME Init PROVE PromiseInv OBVIOUS
<1>1. PICK x \in Before : entries = <<x>>
  BY DEF Init
<1>2. Seen = {x}
  BY <1>1 DEF Seen
<1>3. ASSUME NEW w \in Writers PROVE FileInv(w) /\ DiskInv(w)
  BY <1>2, <1>3, WritersApart DEF Init, FileInv, DiskInv, Done
<1>4. QED BY <1>3, CleanInit DEF PromiseInv

LEMMA FileStep ==
  ASSUME CleanInv, NEW w \in Writers, FileInv(w), Step(w) \/ Kill(w)
  PROVE  FileInv(w)'
<1> USE WritersApart DEF Goto, Return, Works, Fails
<1>0. TypeOK /\ RoleInv(w)
  BY DEF CleanInv
<1> USE <1>0 DEF RoleInv, FileInv
<1>a. entries' = entries => Seen' = Seen
  BY DEF Seen
<1>b. entries' = Append(entries, w) => Seen' = Seen \union {w}
  BY SeenAppend
<1>1. CASE CheckLink(w) BY <1>a, <1>1 DEF CheckLink, TypeOK
<1>2. CASE OpenTmp(w) BY <1>a, <1>2 DEF OpenTmp, TypeOK
<1>3. CASE WriteTmp(w) BY <1>a, <1>3 DEF WriteTmp, TypeOK
<1>4. CASE SyncTmp(w) BY <1>a, <1>4 DEF SyncTmp, TypeOK
<1>5. CASE Rename(w) BY <1>a, <1>b, <1>5 DEF Rename, TypeOK
<1>6. CASE Link(w) BY <1>a, <1>b, <1>6 DEF Link, TypeOK
<1>7. CASE SyncDir(w) BY <1>a, <1>7 DEF SyncDir, TypeOK
<1>8. CASE DropTmp(w) BY <1>a, <1>8 DEF DropTmp, TypeOK
<1>9. CASE Create(w) BY <1>a, <1>b, <1>9 DEF Create, TypeOK
<1>10. CASE Fill(w) BY <1>a, <1>10 DEF Fill, TypeOK
<1>11. CASE Kill(w) BY <1>a, <1>11 DEF Kill, TypeOK
<1>12. QED BY <1>1, <1>2, <1>3, <1>4, <1>5, <1>6, <1>7, <1>8, <1>9, <1>10, <1>11 DEF Step

\* Only a directory sync makes w done, and it puts all of the present on disk.
LEMMA DiskStep ==
  ASSUME BareName = FALSE, CleanInv, NEW w \in Writers, FileInv(w), DiskInv(w),
         Step(w) \/ Kill(w)
  PROVE  DiskInv(w)'
<1> USE WritersApart DEF Goto, Return, Works, Fails
<1>0. TypeOK /\ RoleInv(w)
  BY DEF CleanInv
<1>a. OnDisk(w) => OnDisk(w)'
  BY <1>0, OthersKeep
<1>b. ~SyncDir(w) /\ Done(w)' => Done(w)
  <2> USE <1>0 DEF RoleInv, Done, TypeOK
  <2>1. CASE CheckLink(w) BY <2>1 DEF CheckLink
  <2>2. CASE OpenTmp(w) BY <2>2 DEF OpenTmp
  <2>3. CASE WriteTmp(w) BY <2>3 DEF WriteTmp
  <2>4. CASE SyncTmp(w) BY <2>4 DEF SyncTmp
  <2>5. CASE Rename(w) BY <2>5 DEF Rename
  <2>6. CASE Link(w) BY <2>6 DEF Link
  <2>7. CASE DropTmp(w) BY <2>7 DEF DropTmp
  <2>8. CASE Create(w) BY <2>8 DEF Create
  <2>9. CASE Fill(w) BY <2>9 DEF Fill
  <2>10. CASE Kill(w) BY <2>10 DEF Kill
  <2>11. QED BY <2>1, <2>2, <2>3, <2>4, <2>5, <2>6, <2>7, <2>8, <2>9, <2>10 DEF Step
<1>c. SyncDir(w) /\ Done(w)' => OnDisk(w)'
  <2> SUFFICES ASSUME SyncDir(w), Done(w)' PROVE OnDisk(w)'
    OBVIOUS
  <2>1. durable' = Len(entries) /\ entries' = entries
    BY <1>0 DEF SyncDir, Done, TypeOK
  <2>2. w \in Seen
    BY DEF SyncDir, FileInv
  <2>3. QED BY <2>1, <2>2 DEF Seen, OnDisk
<1>1. QED BY <1>a, <1>b, <1>c DEF DiskInv

LEMMA LossKeeps ==
  ASSUME TypeOK, PowerLoss
  PROVE  /\ Seen' \subseteq Seen
         /\ \A v \in Writers : OnDisk(v) => OnDisk(v)' /\ v \in Seen'
         /\ written \cap synced \subseteq written' /\ synced' = synced
         /\ \E j \in 1..Len(entries) :
               /\ entries' = SubSeq(entries, 1, j) /\ Len(entries') = j
               /\ \A k \in 1..j : entries'[k] = entries[k]
<1> USE DEF TypeOK
<1>1. PICK j \in durable..Len(entries) : entries' = SubSeq(entries, 1, j)
  BY DEF PowerLoss
<1>2. j \in 1..Len(entries) /\ durable \in Nat /\ j \in Nat /\ durable <= j /\ Len(entries) \in Nat
  OBVIOUS
<1>3. Len(entries') = j /\ \A k \in 1..j : entries'[k] = entries[k]
  BY <1>1, <1>2
<1>4. durable' = j
  BY <1>3 DEF PowerLoss
<1>5. Seen' \subseteq Seen
  BY <1>2, <1>3 DEF Seen
<1>6. ASSUME NEW v \in Writers, OnDisk(v) PROVE OnDisk(v)' /\ v \in Seen'
  <2>1. PICK k \in 1..durable : entries[k] = v
    BY <1>6 DEF OnDisk
  <2>2. k \in 1..j /\ entries'[k] = v
    BY <1>2, <1>3, <2>1
  <2>3. QED BY <1>3, <1>4, <2>2 DEF OnDisk, Seen
<1>7. written \cap synced \subseteq written' /\ synced' = synced
  BY DEF PowerLoss
<1>8. QED BY <1>1, <1>2, <1>3, <1>5, <1>6, <1>7

LEMMA PromiseStep ==
  ASSUME BareName = FALSE, PromiseInv, [Next]_vars
  PROVE  PromiseInv'
<1>0. CleanInv /\ TypeOK /\ CleanInv' /\ \A w \in Writers : FileInv(w) /\ DiskInv(w)
  BY CleanStep DEF PromiseInv, CleanInv
<1>1. CASE UNCHANGED vars
  BY <1>0, <1>1 DEF vars, PromiseInv, FileInv, DiskInv, Done, OnDisk, Seen
<1>2. CASE PowerLoss
  <2>1. ASSUME NEW w \in Writers PROVE FileInv(w)' /\ DiskInv(w)'
    <3>0. /\ RoleInv(w) /\ FileInv(w) /\ DiskInv(w)
          /\ pc'[w] = IF pc[w] \in Ended THEN pc[w] ELSE "killed"
          /\ result' = result
      BY <1>0, <1>2 DEF PowerLoss, CleanInv
    <3>1. FileInv(w)'
      BY <1>0, <1>2, <3>0, LossKeeps, WritersApart DEF FileInv, Ended
    <3>2. DiskInv(w)'
      BY <1>0, <1>2, <3>0, LossKeeps DEF DiskInv, Done, Ended
    <3>3. QED BY <3>1, <3>2
  <2>2. QED BY <1>0, <2>1 DEF PromiseInv
<1>3. ASSUME NEW w \in Writers, Step(w) \/ Kill(w) PROVE PromiseInv'
  <2>1. FileInv(w)' /\ DiskInv(w)'
    BY <1>0, <1>3, FileStep, DiskStep
  <2>2. ASSUME NEW v \in Writers, v # w PROVE FileInv(v)' /\ DiskInv(v)'
    <3>1. FileInv(v)'
      BY <1>0, <1>3, <2>2, OthersStay, OthersKeep DEF FileInv
    <3>2. DiskInv(v)'
      BY <1>0, <1>3, <2>2, OthersStay, OthersKeep DEF DiskInv, Done
    <3>3. QED BY <3>1, <3>2
  <2>3. QED BY <1>0, <2>1, <2>2 DEF PromiseInv
<1>4. QED BY <1>1, <1>2, <1>3 DEF Next

-----------------------------------------------------------------------------
\* What the calls of one writer do to the outcomes.
LEMMA OutcomeFacts ==
  ASSUME TypeOK, NEW w \in Writers
  PROVE  /\ Outcomes[w] = "running" <=> pc[w] \notin Ended
         /\ Outcomes[w] = "ok" <=> pc[w] = "ok"
<1> QED BY DEF TypeOK, Outcomes, Outcome, Ended

LEMMA OutcomeStep ==
  ASSUME TypeOK, NEW w \in Writers, NEW label, Goto(w, label), pc[w] \notin Ended
  PROVE  /\ label \notin Ended => Outcomes' = Outcomes
         /\ label \in {"ok", "err"} => Outcomes' = [Outcomes EXCEPT ![w] = label]
         /\ label = "killed" => Outcomes' = [Outcomes EXCEPT ![w] = "lost"]
<1>1. pc'[w] = label /\ \A v \in Writers : v # w => pc'[v] = pc[v]
  BY DEF Goto, TypeOK
<1>2. \A v \in Writers : v # w => Outcome(v)' = Outcome(v)
  BY <1>1 DEF Outcome
<1>3. Outcome(w) = "running"
  BY DEF Outcome, Ended
<1>4. /\ label \notin Ended => Outcome(w)' = "running"
      /\ label \in {"ok", "err"} => Outcome(w)' = label
      /\ label = "killed" => Outcome(w)' = "lost"
  BY <1>1 DEF Outcome, Ended
<1>5. Outcomes' = [v \in Writers |-> Outcome(v)'] /\ Outcomes = [v \in Writers |-> Outcome(v)]
  BY DEF Outcomes
<1>6. QED BY <1>2, <1>3, <1>4, <1>5

\* A file that the path has named is whole, so the history does not tear.
LEMMA HistoryFacts ==
  ASSUME PromiseInv
  PROVE  /\ Len(History) = Len(entries) /\ History \in Seq(Writers \union Before)
         /\ \A i \in 1..Len(entries) : History[i] = entries[i]
<1>1. entries \in Seq(Writers \union Before) /\ \A w \in Writers : FileInv(w)
  BY DEF PromiseInv, CleanInv, TypeOK
<1>2. ASSUME NEW i \in 1..Len(entries) PROVE Contents(entries[i]) = entries[i]
  BY <1>1, <1>2, WritersApart DEF Contents, FileInv, Seen
<1>3. History = [i \in 1..Len(entries) |-> entries[i]]
  BY <1>2 DEF History
<1>4. QED BY <1>1, <1>3

\* So the history is the entries.
LEMMA HistoryIsEntries ==
  ASSUME PromiseInv
  PROVE  /\ History = entries
         /\ \A w \in Writers : w \in Promise!Happened(History) <=> w \in Seen
<1>1. entries \in Seq(Writers \union Before)
  BY DEF PromiseInv, CleanInv, TypeOK
<1>2. History = entries
  BY <1>1, HistoryFacts
<1>3. QED BY <1>2 DEF Promise!Happened, Seen

LEMMA WholeHistory == PromiseInv => History = entries
  BY HistoryIsEntries

LEMMA WholeHistoryNext == (PromiseInv => History = entries)'
  BY WholeHistory, PTL

LEMMA RefinesInit == Init => Promise!Init
<1> SUFFICES ASSUME Init PROVE Promise!Init OBVIOUS
<1>1. History = entries
  BY PromiseInit, HistoryIsEntries
<1>2. Outcomes = [w \in Writers |-> "running"]
  BY DEF Init, Outcomes, Outcome
<1>3. QED BY <1>1, <1>2 DEF Init, Promise!Init

\* Putting the file at the path is taking effect, and nothing else is.
LEMMA InstallRefines ==
  ASSUME PromiseInv, PromiseInv', NEW w \in Writers, Rename(w) \/ Link(w) \/ Create(w),
         entries' = Append(entries, w), NEW label, Goto(w, label), label \notin Ended
  PROVE  Promise!TakeEffect(w)
<1>0. TypeOK /\ FileInv(w)
  BY DEF PromiseInv, CleanInv
<1>1. History = entries /\ History' = entries'
  BY WholeHistory, WholeHistoryNext
<1>2. pc[w] \in {"install", "create"}
  BY DEF Rename, Link, Create
<1>3. Outcomes' = Outcomes /\ Outcomes[w] = "running"
  BY <1>0, <1>2, OutcomeStep, OutcomeFacts DEF Ended
<1>4. w \notin Promise!Happened(History)
  BY <1>0, <1>2, HistoryIsEntries DEF FileInv
<1>5. w \in Creators => Present = None
  <2>1. w \in Creators => ~Rename(w)
    BY <1>0, WritersApart DEF Rename, CleanInv, RoleInv, PromiseInv
  <2>2. entries' # entries
    BY <1>0, SeenAppend DEF TypeOK
  <2>3. QED BY <2>1, <2>2 DEF Link, Create
<1>6. QED BY <1>1, <1>3, <1>4, <1>5 DEF Promise!TakeEffect, Promise!Now, Present

\* Every other call leaves the path alone: it ends the call of w or is invisible.
LEMMA EndRefines ==
  ASSUME PromiseInv, PromiseInv', NEW w \in Writers, entries' = entries,
         NEW label, Goto(w, label), pc[w] \notin Ended, label = "ok" => w \in Seen
  PROVE  [Promise!Succeed(w) \/ Promise!GiveUp(w)]_<<History, Outcomes>>
<1>0. TypeOK
  BY DEF PromiseInv, CleanInv
<1>1. History' = History
  BY WholeHistory, WholeHistoryNext
<1>2. Outcomes[w] = "running"
  BY <1>0, OutcomeFacts
<1>3. CASE label \notin Ended
  BY <1>0, <1>1, <1>3, OutcomeStep
<1>4. CASE label = "ok"
  <2>1. Outcomes' = [Outcomes EXCEPT ![w] = "ok"]
    BY <1>0, <1>4, OutcomeStep
  <2>2. w \in Promise!Happened(History)
    BY <1>4, HistoryIsEntries
  <2>3. QED BY <1>1, <1>2, <2>1, <2>2 DEF Promise!Succeed
<1>5. CASE label = "err" \/ label = "killed"
  <2>1. \E how \in {"err", "lost"} : Outcomes' = [Outcomes EXCEPT ![w] = how]
    BY <1>0, <1>5, OutcomeStep
  <2>2. QED BY <1>1, <1>2, <2>1 DEF Promise!GiveUp
<1>6. QED BY <1>3, <1>4, <1>5 DEF Ended

LEMMA StepRefines ==
  ASSUME PromiseInv, PromiseInv', NEW w \in Writers, Step(w) \/ Kill(w)
  PROVE  [Promise!Next]_<<History, Outcomes>>
<1>0. TypeOK /\ RoleInv(w) /\ FileInv(w)
  BY DEF PromiseInv, CleanInv
<1>1. \/ Promise!TakeEffect(w)
      \/ [Promise!Succeed(w) \/ Promise!GiveUp(w)]_<<History, Outcomes>>
  <2> USE DEF Return
  <2>1. CASE CheckLink(w)
    <3>1. PICK label \in {"err", "open"} : Goto(w, label)
      BY <2>1 DEF CheckLink
    <3>2. QED BY <2>1, <3>1, EndRefines DEF CheckLink, Ended
  <2>2. CASE OpenTmp(w)
    <3>1. PICK label \in {"write", "dropTmp"} : Goto(w, label)
      BY <2>2 DEF OpenTmp
    <3>2. QED BY <2>2, <3>1, EndRefines DEF OpenTmp, Ended
  <2>3. CASE WriteTmp(w)
    <3>1. PICK label \in {"sync", "dropTmp"} : Goto(w, label)
      BY <2>3 DEF WriteTmp
    <3>2. QED BY <2>3, <3>1, EndRefines DEF WriteTmp, Ended
  <2>4. CASE SyncTmp(w)
    <3>1. PICK label \in {"install", "dropTmp"} : Goto(w, label)
      BY <2>4 DEF SyncTmp
    <3>2. QED BY <2>4, <3>1, EndRefines DEF SyncTmp, Ended
  <2>5. CASE Rename(w)
    <3>1. CASE entries' = Append(entries, w) /\ Goto(w, "syncDir")
      BY <2>5, <3>1, InstallRefines DEF Ended
    <3>2. CASE entries' = entries /\ Goto(w, "dropTmp")
      BY <2>5, <3>2, EndRefines DEF Rename, Ended
    <3>3. QED BY <2>5, <3>1, <3>2 DEF Rename
  <2>6. CASE Link(w)
    <3>1. CASE entries' = Append(entries, w) /\ Goto(w, "syncDir")
      BY <2>6, <3>1, InstallRefines DEF Ended
    <3>2. CASE entries' = entries /\ Goto(w, "dropTmp")
      BY <2>6, <3>2, EndRefines DEF Link, Ended
    <3>3. QED BY <2>6, <3>1, <3>2 DEF Link
  <2>7. CASE SyncDir(w)
    <3>1. PICK label \in {"dropTmp", "ok", "err"} : Goto(w, label)
      BY <2>7 DEF SyncDir
    <3>2. w \in Seen
      BY <1>0, <2>7 DEF SyncDir, FileInv
    <3>3. QED BY <2>7, <3>1, <3>2, EndRefines DEF SyncDir, Ended
  <2>8. CASE DropTmp(w)
    <3>1. result[w] = "ok" => w \in Seen
      <4>1. DiskInv(w) /\ w \in Staged /\ pc[w] = "dropTmp"
        BY <1>0, <2>8 DEF DropTmp, RoleInv, PromiseInv
      <4>2. durable \in 1..Len(entries) /\ Len(entries) \in Nat
        BY <1>0 DEF TypeOK
      <4>3. QED BY <4>1, <4>2 DEF DiskInv, Done, OnDisk, Seen
    <3>2. Goto(w, result[w]) /\ result[w] \in {"ok", "err"} /\ entries' = entries
      BY <1>0, <2>8 DEF DropTmp, TypeOK
    <3>3. QED BY <2>8, <3>1, <3>2, EndRefines DEF DropTmp, Ended
  <2>9. CASE Create(w)
    <3>1. CASE entries' = Append(entries, w) /\ Goto(w, "fill")
      BY <2>9, <3>1, InstallRefines DEF Ended
    <3>2. CASE entries' = entries /\ Goto(w, "err")
      BY <2>9, <3>2, EndRefines DEF Create, Ended
    <3>3. QED BY <2>9, <3>1, <3>2 DEF Create
  <2>10. CASE Fill(w)
    <3>1. PICK label \in {"ok", "err"} : Goto(w, label)
      BY <2>10 DEF Fill
    <3>2. w \in Seen
      BY <1>0, <2>10 DEF Fill, FileInv
    <3>3. QED BY <2>10, <3>1, <3>2, EndRefines DEF Fill, Ended
  <2>11. CASE Kill(w)
    BY <2>11, EndRefines DEF Kill
  <2>12. QED
    BY <2>1, <2>2, <2>3, <2>4, <2>5, <2>6, <2>7, <2>8, <2>9, <2>10, <2>11 DEF Step
<1>2. QED BY <1>1 DEF Promise!Next

LEMMA LossRefines ==
  ASSUME PromiseInv, PromiseInv', PowerLoss
  PROVE  Promise!PowerLoss
<1>0. TypeOK /\ \A w \in Writers : DiskInv(w)
  BY DEF PromiseInv, CleanInv
<1>1. History = entries /\ History' = entries'
  BY WholeHistory, WholeHistoryNext
<1>2. \E i \in 1..Len(History) : History' = SubSeq(History, 1, i)
  BY <1>0, <1>1, LossKeeps
<1>3. ASSUME NEW w \in Staged, Outcomes[w] = "ok" PROVE w \in Promise!Happened(History')
  <2>1. w \in Seen'
    BY <1>0, <1>3, WritersApart, OutcomeFacts, LossKeeps DEF DiskInv, Done
  <2>2. QED BY <1>1, <2>1 DEF Promise!Happened, Seen
<1>4. Outcomes' = [w \in Writers |-> IF Outcomes[w] = "running" THEN "lost" ELSE Outcomes[w]]
  BY <1>0 DEF PowerLoss, TypeOK, Outcomes, Outcome, Ended
<1>5. QED BY <1>2, <1>3, <1>4 DEF Promise!PowerLoss

(***************************************************************************)
(* Unless the path is a bare name, the writers of file_utils.rs keep the   *)
(* promise of OutputFile: the contents of the path change as a whole, a    *)
(* creating writer replaces nothing, and what a staged writer reported as  *)
(* written outlives a power loss.                                          *)
(***************************************************************************)
THEOREM WritersKeepPromise ==
  ASSUME BareName = FALSE
  PROVE  Spec => KeepsPromise
<1>1. Init => PromiseInv BY PromiseInit
<1>2. PromiseInv /\ [Next]_vars => PromiseInv' BY PromiseStep
<1>3. Init => Promise!Init BY RefinesInit
<1>4. PromiseInv /\ PromiseInv' /\ [Next]_vars => [Promise!Next]_<<History, Outcomes>>
  <2> SUFFICES ASSUME PromiseInv, PromiseInv', [Next]_vars
               PROVE  [Promise!Next]_<<History, Outcomes>>
    OBVIOUS
  <2>1. CASE UNCHANGED vars
    BY <2>1 DEF vars, History, Outcomes, Outcome, Contents
  <2>2. CASE PowerLoss BY <2>2, LossRefines DEF Promise!Next
  <2>3. ASSUME NEW w \in Writers, Step(w) \/ Kill(w)
        PROVE  [Promise!Next]_<<History, Outcomes>>
    BY <2>3, StepRefines
  <2>4. QED BY <2>1, <2>2, <2>3 DEF Next
<1>5. QED BY <1>1, <1>2, <1>3, <1>4, PTL
      DEF Spec, KeepsPromise, Promise!Spec, Promise!abstractVars
=============================================================================
