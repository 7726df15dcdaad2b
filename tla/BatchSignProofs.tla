-------------------------- MODULE BatchSignProofs --------------------------
(***************************************************************************)
(* Proofs about BatchSign, for any runs, names, directories and jobs, and  *)
(* any number of failing calls.                                            *)
(***************************************************************************)
EXTENDS BatchSign, FiniteSetTheorems, WellFoundedInduction, TLAPS

Reached == {"read", "signed", "failed"}

\* What the state variables hold, more exactly than TypeOK.
ShapeInv ==
    /\ DOMAIN file = Locs
    /\ \A l \in Locs :
          /\ file[l].kind \in {"none", "data", "link", "sig", "partial"}
          /\ file[l].kind = "none" => file[l] = Nothing
          /\ file[l].kind = "link" => file[l].to \in Locs
          /\ file[l].kind = "sig" => file[l].by \in Runs
    /\ keyLoc \in KeyLocs
    /\ [r \in Runs |-> [names |-> batch[r], mode |-> mode[r]]] \in Jobs
    /\ pc \in [Runs -> {"check", "work"} \union Ended]
    /\ DOMAIN status = Runs /\ DOMAIN got = Runs
    /\ \A r \in Runs :
          /\ status[r] \in [Items(r) -> {"todo", "dropped", "read", "signed", "failed"}]
          /\ DOMAIN got[r] = Items(r)
    /\ faults \in Nat

\* Nothing is read before the batch is checked.
OrderInv(r) ==
    pc[r] = "check" => \A i \in Items(r) : status[r][i] = "todo"

\* The items that r works on have different names.
DistinctInv(r) ==
    \A i, j \in Items(r) :
        /\ batch[r][i] = batch[r][j]
        /\ \/ pc[r] = "work" /\ i \in Todo(r) /\ j \in Todo(r)
           \/ status[r][i] \in Reached /\ status[r][j] \in Reached
        => i = j

\* A signature that r has made is at its place, or a run with --force has replaced it.
SignedInv(r) == \A i \in Items(r) : status[r][i] = "signed" => Wrote(r, i)

\* A signature by r is that of an item r has signed.
ByInv(r) ==
    \A l \in Locs : file[l].kind = "sig" /\ file[l].by = r =>
        \E i \in Items(r) : SigOf[batch[r][i]] = l /\ status[r][i] = "signed"

\* What the exit status says of the items.
EndInv(r) ==
    /\ pc[r] = "ok" => \A i \in Todo(r) : status[r][i] = "signed"
    /\ pc[r] \in {"total", "err"} => \A i \in Items(r) : status[r][i] # "signed"
    /\ pc[r] = "partial" =>
          /\ \E i \in Todo(r) : status[r][i] = "failed"
          /\ \E i \in Todo(r) : status[r][i] = "signed"

\* No signature will land on what a name of the batch, or the key, leads to.
ClearInv(r) ==
    pc[r] = "work" =>
        \A i \in Todo(r), o \in {batch[r][j] : j \in Items(r)} \union {keyLoc} :
            Canonical(o) # SigOf[batch[r][i]]

BatchInv ==
    /\ ShapeInv
    /\ \A r \in Runs :
          /\ OrderInv(r) /\ DistinctInv(r) /\ SignedInv(r)
          /\ ByInv(r) /\ EndInv(r) /\ ClearInv(r)
    /\ SignedOnce

-----------------------------------------------------------------------------
\* What a batch is.
LEMMA BatchFacts ==
  ASSUME ShapeInv, NEW r \in Runs
  PROVE  /\ batch[r] \in Seq(DOMAIN SigOf) /\ mode[r] \in ModeType
         /\ Items(r) = 1..Len(batch[r]) /\ Items(r) \subseteq Nat
         /\ \A i \in Items(r) :
               /\ batch[r][i] \in DOMAIN SigOf /\ batch[r][i] \in Locs
               /\ SigOf[batch[r][i]] \in Locs
         /\ keyLoc \in Locs
<1>1. [q \in Runs |-> [names |-> batch[q], mode |-> mode[q]]] \in [Runs -> JobType]
  BY JobsTyped DEF ShapeInv
<1>2. [names |-> batch[r], mode |-> mode[r]] \in JobType
  BY <1>1
<1>3. batch[r] \in Seq(DOMAIN SigOf) /\ mode[r] \in ModeType
  BY <1>2 DEF JobType
<1>4. Items(r) = 1..Len(batch[r]) /\ Items(r) \subseteq Nat
  BY <1>3 DEF Items
<1>5. keyLoc \in Locs
  BY DirectoriesTyped DEF ShapeInv
<1>6. QED
  BY <1>3, <1>4, <1>5, SignaturesTyped DEF Items

\* Two items whose signatures have one place have one name.
LEMMA OnePlaceOneName ==
  ASSUME ShapeInv, NEW r \in Runs, NEW q \in Runs, NEW i \in Items(r), NEW j \in Items(q),
         SigOf[batch[r][i]] = SigOf[batch[q][j]]
  PROVE  batch[r][i] = batch[q][j]
BY BatchFacts, SignatureNamesDiffer

\* What one run does to the rest of the state.
LEMMA OthersUntouched ==
  ASSUME ShapeInv, [Next]_vars
  PROVE  /\ UNCHANGED given /\ \A q \in Runs : Items(q)' = Items(q)
         /\ \/ UNCHANGED vars
            \/ \E r \in Runs : Step(r) /\ \A q \in Runs \ {r} :
                                             pc'[q] = pc[q] /\ status'[q] = status[q]
<1>1. UNCHANGED given
  BY DEF Next, vars, given, Step, Check, Summarise, Read, Write
<1>2. ASSUME NEW r \in Runs, Step(r), NEW q \in Runs \ {r}
      PROVE  pc'[q] = pc[q] /\ status'[q] = status[q]
  BY <1>2 DEF ShapeInv, Step, Check, Summarise, Read, Write, Goto, Set
<1>3. QED
  BY <1>1, <1>2 DEF Next, Items, given

\* An entry changes only where a run writes a signature that it does not refuse, or
\* leaves a part of one where nothing was.
LEMMA FileStep ==
  ASSUME ShapeInv, [Next]_vars
  PROVE  /\ DOMAIN file' = Locs
         /\ \A l \in Locs :
               \/ file'[l] = file[l]
               \/ \E r \in Runs : \E i \in Items(r) :
                     /\ Write(r, i) /\ status[r][i] = "read" /\ l = SigOf[batch[r][i]]
                     /\ \/ /\ file'[l] = Signature(r, got[r][i]) /\ status'[r][i] = "signed"
                           /\ ~Refused(r, l)
                        \/ file'[l] = Partial(r) /\ ~Exists(l)
<1>1. CASE UNCHANGED file
  BY <1>1 DEF ShapeInv
<1>2. ASSUME NEW r \in Runs, NEW i \in Items(r), Write(r, i)
      PROVE  /\ DOMAIN file' = Locs
             /\ \A l \in Locs :
                   \/ file'[l] = file[l]
                   \/ /\ status[r][i] = "read" /\ l = SigOf[batch[r][i]]
                      /\ \/ /\ file'[l] = Signature(r, got[r][i]) /\ status'[r][i] = "signed"
                            /\ ~Refused(r, l)
                         \/ file'[l] = Partial(r) /\ ~Exists(l)
  <2>1. status[r][i] = "read"
    BY <1>2 DEF Write
  <2>2. CASE UNCHANGED file
    BY <2>2 DEF ShapeInv
  <2>3. CASE /\ ~Refused(r, SigOf[batch[r][i]])
             /\ file' = [file EXCEPT ![SigOf[batch[r][i]]] = Signature(r, got[r][i])]
             /\ Set(r, i, "signed")
    <3>1. status'[r][i] = "signed"
      BY <2>3 DEF Set, ShapeInv
    <3>2. QED
      BY <2>1, <2>3, <3>1 DEF ShapeInv
  <2>4. CASE /\ ~Exists(SigOf[batch[r][i]])
             /\ file' = [file EXCEPT ![SigOf[batch[r][i]]] = Partial(r)]
    BY <2>1, <2>4 DEF ShapeInv
  <2>5. QED
    BY <1>2, <2>2, <2>3, <2>4 DEF Write
<1>3. UNCHANGED file \/ \E r \in Runs : \E i \in Items(r) : Write(r, i)
  BY DEF Next, Step, Check, Summarise, Read, vars
<1>4. QED
  BY <1>1, <1>2, <1>3

\* A symlink stays, no other appears, and what exists goes on to exist.
LEMMA LinksStay ==
  ASSUME ShapeInv, [Next]_vars, NEW l \in Locs
  PROVE  /\ Canonical(l)' = Canonical(l)
         /\ file[l].kind = "link" => file'[l] = file[l]
         /\ Exists(l) => Exists(l)'
<1>1. CASE file'[l] = file[l]
  BY <1>1 DEF Canonical, Exists
<1>2. ASSUME NEW r \in Runs, NEW i \in Items(r),
             \/ file'[l] = Signature(r, got[r][i]) /\ ~Refused(r, l)
             \/ file'[l] = Partial(r) /\ ~Exists(l)
      PROVE  file[l].kind # "link" /\ file'[l].kind # "link" /\ file'[l] # Nothing
  <2>1. file[l].kind # "link"
    BY <1>2 DEF Refused, Exists, Nothing
  <2>2. file'[l].kind # "link" /\ file'[l] # Nothing
    BY <1>2 DEF Signature, Partial, Nothing
  <2>3. QED
    BY <2>1, <2>2
<1>3. file'[l] = file[l] \/ (file[l].kind # "link" /\ file'[l].kind # "link" /\ file'[l] # Nothing)
  BY <1>2, FileStep, Zenon
<1>4. QED
  BY <1>1, <1>3 DEF Canonical, Exists

LEMMA BatchInit == Init => BatchInv
<1> SUFFICES ASSUME Init PROVE BatchInv OBVIOUS
<1>1. PICK jobs \in Jobs : /\ batch = [r \in Runs |-> jobs[r].names]
                           /\ mode = [r \in Runs |-> jobs[r].mode]
  BY DEF Init
<1>2. jobs \in [Runs -> JobType]
  BY JobsTyped
<1>3. [r \in Runs |-> [names |-> batch[r], mode |-> mode[r]]] = jobs
  BY <1>1, <1>2 DEF JobType
<1>4. file \in [Locs -> Entry]
  BY DirectoriesTyped DEF Init
<1>5. ASSUME NEW l \in Locs
      PROVE  /\ file[l].kind \in {"none", "data", "link"}
             /\ file[l].kind = "none" => file[l] = Nothing
             /\ file[l].kind = "link" => file[l].to \in Locs
  <2>1. file[l] \in Entry
    BY <1>4
  <2>2. QED
    BY <2>1 DEF Entry, Nothing, Data, LinkTo
<1>6. ShapeInv
  <2>1. \A r \in Runs : /\ status[r] \in [Items(r) -> {"todo", "dropped", "read", "signed", "failed"}]
                        /\ DOMAIN got[r] = Items(r)
    BY DEF Init, Items
  <2>2. DOMAIN file = Locs /\ keyLoc \in KeyLocs /\ faults \in Nat
    BY <1>4 DEF Init
  <2>3. pc \in [Runs -> {"check", "work"} \union Ended] /\ DOMAIN status = Runs /\ DOMAIN got = Runs
    BY DEF Init
  <2>4. QED
    BY <1>3, <1>5, <2>1, <2>2, <2>3 DEF ShapeInv
<1>7. ASSUME NEW r \in Runs
      PROVE  /\ OrderInv(r) /\ DistinctInv(r) /\ SignedInv(r)
             /\ ByInv(r) /\ EndInv(r) /\ ClearInv(r)
  <2>1. pc[r] = "check" /\ \A i \in Items(r) : status[r][i] = "todo"
    BY DEF Init, Items
  <2>2. OrderInv(r) /\ DistinctInv(r) /\ SignedInv(r) /\ EndInv(r) /\ ClearInv(r)
    BY <2>1 DEF OrderInv, DistinctInv, SignedInv, EndInv, ClearInv, Reached
  <2>3. ByInv(r)
    BY <1>5 DEF ByInv
  <2>4. QED
    BY <2>2, <2>3
<1>8. SignedOnce
  BY DEF Init, SignedOnce, Items
<1>9. QED
  BY <1>6, <1>7, <1>8 DEF BatchInv

LEMMA ShapeStep ==
  ASSUME ShapeInv, [Next]_vars
  PROVE  ShapeInv'
<1>1. UNCHANGED given /\ \A q \in Runs : Items(q)' = Items(q)
  BY OthersUntouched
<1>2. DOMAIN file' = Locs
  BY FileStep
<1>3. ASSUME NEW l \in Locs
      PROVE  /\ file'[l].kind \in {"none", "data", "link", "sig", "partial"}
             /\ file'[l].kind = "none" => file'[l] = Nothing
             /\ file'[l].kind = "link" => file'[l].to \in Locs
             /\ file'[l].kind = "sig" => file'[l].by \in Runs
  <2>1. CASE file'[l] = file[l]
    BY <2>1 DEF ShapeInv
  <2>2. ASSUME NEW r \in Runs, NEW i \in Items(r),
               file'[l] = Signature(r, got[r][i]) \/ file'[l] = Partial(r)
        PROVE  /\ file'[l].kind \in {"sig", "partial"}
               /\ file'[l].kind = "sig" => file'[l].by \in Runs
    BY <2>2 DEF Signature, Partial
  <2>3. file'[l] = file[l]
        \/ \E r \in Runs : \E i \in Items(r) :
              file'[l] = Signature(r, got[r][i]) \/ file'[l] = Partial(r)
    BY FileStep, Zenon
  <2>4. QED
    BY <2>1, <2>2, <2>3
<1>4. faults' \in Nat
  <2>1. Works \/ Fails
    BY DEF Next, vars, Step, Check, Summarise, Read, Write, Works
  <2>2. QED
    BY <2>1 DEF ShapeInv, Works, Fails
<1>5. pc' \in [Runs -> {"check", "work"} \union Ended]
  <2>1. ASSUME NEW r \in Runs, Check(r) PROVE pc' \in [Runs -> {"check", "work"} \union Ended]
    BY <2>1 DEF Check, Goto, ShapeInv, Ended
  <2>2. ASSUME NEW r \in Runs, Summarise(r) PROVE pc' \in [Runs -> {"check", "work"} \union Ended]
    <3>1. Verdict(r) \in Ended
      BY DEF Verdict, Ended
    <3>2. QED
      BY <2>2, <3>1 DEF Summarise, Goto, ShapeInv
  <2>3. QED
    BY <2>1, <2>2 DEF Next, vars, Step, Read, Write, ShapeInv
<1>6. /\ DOMAIN status' = Runs /\ DOMAIN got' = Runs
      /\ \A r \in Runs :
          /\ status'[r] \in [Items(r) -> {"todo", "dropped", "read", "signed", "failed"}]
          /\ DOMAIN got'[r] = Items(r)
  <2>1. CASE UNCHANGED <<status, got>>
    BY <2>1 DEF ShapeInv
  <2>3. ASSUME NEW r \in Runs, NEW i \in Items(r), NEW s \in Reached, Set(r, i, s)
        PROVE  /\ DOMAIN status' = Runs
               /\ \A q \in Runs :
                     status'[q] \in [Items(q) -> {"todo", "dropped", "read", "signed", "failed"}]
    BY <2>3 DEF Set, ShapeInv, Reached
  <2>4. ASSUME NEW r \in Runs, Check(r)
        PROVE  /\ DOMAIN status' = Runs
               /\ \A q \in Runs :
                     status'[q] \in [Items(q) -> {"todo", "dropped", "read", "signed", "failed"}]
    BY <2>4 DEF Check, ShapeInv
  <2>5. DOMAIN got' = Runs /\ \A q \in Runs : DOMAIN got'[q] = Items(q)
    BY DEF ShapeInv, Next, vars, Step, Check, Summarise, Read, Write
  <2>6. ASSUME NEW r \in Runs, NEW i \in Items(r), Read(r, i) \/ Write(r, i)
        PROVE  \E s \in Reached : Set(r, i, s)
    BY <2>6 DEF Read, Write, Reached
  <2>7. QED
    BY <2>1, <2>3, <2>4, <2>5, <2>6 DEF Next, vars, Step, Summarise
<1>7. QED
  BY <1>1, <1>2, <1>3, <1>4, <1>5, <1>6 DEF ShapeInv, given

-----------------------------------------------------------------------------
\* What r does to one item leaves the others, and changes no name.
LEMMA ItemStep ==
  ASSUME ShapeInv, NEW r \in Runs, NEW i \in Items(r), Read(r, i) \/ Write(r, i)
  PROVE  /\ UNCHANGED pc /\ pc[r] = "work" /\ status[r][i] \in {"todo", "read"}
         /\ status'[r][i] \in Reached
         /\ \A j \in Items(r) \ {i} : status'[r][j] = status[r][j]
         /\ \A q \in Runs \ {r} : status'[q] = status[q]
BY DEF ShapeInv, Read, Write, MayStart, Set, Reached

\* How a run ends tells what it did with its items.
LEMMA VerdictTells ==
  ASSUME ShapeInv, NEW r \in Runs,
         \A i \in Todo(r) : status[r][i] \in {"signed", "failed"}
  PROVE  LET v == Verdict(r) IN
         /\ v = "ok" => \A i \in Todo(r) : status[r][i] = "signed"
         /\ v \in {"total", "err"} => \A i \in Items(r) : status[r][i] # "signed"
         /\ v = "partial" =>
               /\ \E i \in Todo(r) : status[r][i] = "failed"
               /\ \E i \in Todo(r) : status[r][i] = "signed"
<1> DEFINE todo == Todo(r)
           failed == {i \in todo : status[r][i] = "failed"}
<1>1. IsFiniteSet(todo) /\ Cardinality(todo) \in Nat /\ (Cardinality(todo) = 0 <=> todo = {})
  <2>1. IsFiniteSet(Items(r))
    <3>1. Items(r) = 1..Len(batch[r]) /\ Len(batch[r]) \in Nat
      BY BatchFacts
    <3>2. Items(r) \in SUBSET Nat /\ \A i \in Items(r) : i <= Len(batch[r])
      BY <3>1
    <3>3. QED
      BY <3>1, <3>2, FS_BoundedSetOfNaturals
  <2>2. todo \subseteq Items(r)
    BY DEF Todo
  <2>3. QED
    BY <2>1, <2>2, FS_Subset, FS_CardinalityType, FS_EmptySet
<1>2. Cardinality(todo) = 1 => \E x : todo = {x}
  BY <1>1, FS_Singleton
<1>3. Verdict(r) = IF failed = {} THEN "ok"
                   ELSE IF Cardinality(todo) = 1 THEN "err"
                   ELSE IF failed = todo THEN "total"
                   ELSE "partial"
  BY DEF Verdict
<1>4. \A i \in Items(r) : status[r][i] = "signed" => i \in todo /\ i \notin failed
  BY DEF Todo
<1>5. failed \subseteq todo /\ \A i \in todo \ failed : status[r][i] = "signed"
  OBVIOUS
<1> HIDE DEF todo, failed
<1>6. CASE failed = {}
  BY <1>3, <1>5, <1>6 DEF todo
<1>7. CASE failed # {} /\ Cardinality(todo) = 1
  <2>1. failed = todo
    BY <1>2, <1>5, <1>7
  <2>2. QED
    BY <1>3, <1>4, <1>7, <2>1
<1>8. CASE failed # {} /\ failed = todo /\ Cardinality(todo) # 1
  BY <1>3, <1>4, <1>8
<1>9. CASE failed # {} /\ failed # todo /\ Cardinality(todo) # 1
  <2>1. Verdict(r) = "partial"
    BY <1>3, <1>9
  <2>2. \E i \in todo : i \in failed
    BY <1>5, <1>9
  <2>3. \E i \in todo : i \notin failed
    BY <1>5, <1>9
  <2>4. QED
    BY <1>5, <2>1, <2>2, <2>3 DEF failed, todo
<1>10. QED
  BY <1>6, <1>7, <1>8, <1>9

LEMMA OrderStep ==
  ASSUME ShapeInv, [Next]_vars, NEW r \in Runs, OrderInv(r)
  PROVE  OrderInv(r)'
<1>1. ShapeInv' /\ Items(r)' = Items(r)
  BY ShapeStep, OthersUntouched
<1>2. CASE UNCHANGED vars
  BY <1>1, <1>2 DEF vars, OrderInv
<1>3. ASSUME NEW q \in Runs, Check(q) \/ Summarise(q) PROVE OrderInv(r)'
  <2>1. CASE q = r
    <3>1. pc'[r] # "check"
      BY <1>3, <2>1 DEF Check, Summarise, Verdict, Goto, ShapeInv
    <3>2. QED
      BY <3>1 DEF OrderInv
  <2>2. CASE q # r
    <3>1. pc'[r] = pc[r] /\ status'[r] = status[r]
      BY <1>3, <2>2 DEF Check, Summarise, Goto, ShapeInv
    <3>2. QED
      BY <1>1, <3>1 DEF OrderInv
  <2>3. QED
    BY <2>1, <2>2
<1>4. ASSUME NEW q \in Runs, NEW i \in Items(q), Read(q, i) \/ Write(q, i) PROVE OrderInv(r)'
  <2>1. pc'[r] = pc[r] /\ pc[q] = "work" /\ (q # r => status'[r] = status[r])
    BY <1>4, ItemStep
  <2>2. QED
    BY <1>1, <2>1 DEF OrderInv
<1>5. QED
  BY <1>2, <1>3, <1>4 DEF Next, Step

\* After the check no two items that are left have one name.
LEMMA DistinctStep ==
  ASSUME ShapeInv, [Next]_vars, NEW r \in Runs, OrderInv(r), DistinctInv(r)
  PROVE  DistinctInv(r)'
<1>1. Items(r)' = Items(r) /\ batch'[r] = batch[r]
  BY OthersUntouched DEF given
<1>2. CASE pc'[r] = pc[r] /\ status'[r] = status[r]
  BY <1>1, <1>2 DEF DistinctInv, Todo
<1>3. CASE Check(r)
  <2>1. \A i \in Items(r) : status[r][i] = "todo"
    BY <1>3 DEF Check, OrderInv
  <2>2. CASE status'[r] = status[r] /\ pc'[r] = "err"
    BY <1>1, <2>1, <2>2 DEF DistinctInv, Reached
  <2>3. CASE status'[r] = [i \in Items(r) |-> IF i \in Kept(r) THEN "todo" ELSE "dropped"]
    <3>1. \A i \in Items(r) : status'[r][i] \notin Reached
      BY <2>3 DEF Reached
    <3>2. ASSUME NEW i \in Kept(r), NEW j \in Kept(r), batch[r][i] = batch[r][j] PROVE i = j
      <4>1. i \in Nat /\ j \in Nat /\ i >= 1 /\ j >= 1
        BY BatchFacts DEF Kept
      <4>2. ~(i < j) /\ ~(j < i)
        BY <3>2, <4>1 DEF Kept
      <4>3. QED
        BY <4>1, <4>2
    <3>3. \A i \in Items(r) : i \in Todo(r)' => i \in Kept(r)
      BY <1>1, <2>3 DEF Todo
    <3>4. QED
      BY <1>1, <3>1, <3>2, <3>3 DEF DistinctInv
  <2>4. QED
    BY <1>3, <2>2, <2>3 DEF Check, Goto, ShapeInv
<1>4. CASE Summarise(r)
  <2>1. UNCHANGED status /\ pc'[r] # "work"
    BY <1>4 DEF Summarise, Verdict, Goto, ShapeInv
  <2>2. QED
    BY <1>1, <2>1 DEF DistinctInv
<1>5. ASSUME NEW i \in Items(r), Read(r, i) \/ Write(r, i) PROVE DistinctInv(r)'
  <2>1. /\ pc[r] = "work" /\ pc'[r] = "work" /\ status[r][i] # "dropped"
        /\ status'[r][i] # "dropped"
        /\ \A j \in Items(r) \ {i} : status'[r][j] = status[r][j]
    BY <1>5, ItemStep DEF Reached
  <2>2. Todo(r)' = Todo(r)
    BY <1>1, <2>1 DEF Todo
  <2>3. \A j \in Items(r) : status'[r][j] \in Reached => j \in Todo(r)
    BY <2>1 DEF Todo, Reached
  <2>4. QED
    BY <1>1, <2>1, <2>2, <2>3 DEF DistinctInv
<1>6. (pc'[r] = pc[r] /\ status'[r] = status[r]) \/ Step(r)
  BY OthersUntouched DEF vars
<1>7. QED
  BY <1>2, <1>3, <1>4, <1>5, <1>6 DEF Step

-----------------------------------------------------------------------------
\* Any numbers have a least one.
LEMMA LeastExists ==
  ASSUME NEW T, T \subseteq Nat, T # {}
  PROVE  \E x \in T : \A y \in T : x <= y
<1> DEFINE Less == {ab \in Nat \X Nat : ab[1] < ab[2]}
<1>1. IsWellFoundedOn(Less, Nat)
  BY NatLessThanWellFounded DEF OpToRel
<1>2. PICK x \in T : \A y \in T : ~(<<y, x>> \in Less)
  BY <1>1, WFMin
<1>3. ASSUME NEW y \in T PROVE x <= y
  <2>1. <<y, x>> \in Nat \X Nat /\ <<y, x>> \notin Less
    BY <1>2
  <2>2. ~(y < x)
    BY <2>1
  <2>3. QED
    BY <2>2
<1>4. QED
  BY <1>3

\* Of the names that lead to one file, one is kept.
LEMMA KeptForEach ==
  ASSUME ShapeInv, NEW r \in Runs, NEW j \in Items(r)
  PROVE  \E i \in Kept(r) : Canonical(batch[r][i]) = Canonical(batch[r][j])
<1> DEFINE same == {i \in Items(r) : Canonical(batch[r][i]) = Canonical(batch[r][j])}
<1>1. same \subseteq Nat /\ same # {}
  BY BatchFacts
<1>2. PICK i \in same : \A k \in same : i <= k
  BY <1>1, LeastExists
<1>3. ASSUME NEW k \in 1..(i - 1) PROVE Canonical(batch[r][k]) # Canonical(batch[r][i])
  <2>1. i \in Nat /\ i \in 1..Len(batch[r]) /\ Len(batch[r]) \in Nat
    BY <1>1, BatchFacts
  <2>2. k \in Items(r) /\ ~(i <= k)
    BY <2>1, BatchFacts
  <2>3. QED
    BY <1>2, <2>2
<1>4. QED
  BY <1>3 DEF Kept

\* Signed stays signed.
LEMMA SignedStays ==
  ASSUME ShapeInv, [Next]_vars, NEW r \in Runs, OrderInv(r),
         NEW i \in Items(r), status[r][i] = "signed"
  PROVE  status'[r][i] = "signed"
<1>1. CASE status'[r] = status[r]
  BY <1>1
<1>2. CASE Check(r)
  BY <1>2 DEF Check, OrderInv
<1>3. CASE Summarise(r)
  BY <1>3 DEF Summarise
<1>4. ASSUME NEW j \in Items(r), Read(r, j) \/ Write(r, j) PROVE status'[r][i] = "signed"
  BY <1>4, ItemStep
<1>5. status'[r] = status[r] \/ Step(r)
  BY OthersUntouched DEF vars
<1>6. QED
  BY <1>1, <1>2, <1>3, <1>4, <1>5 DEF Step

\* Only Write signs.
LEMMA BecomesSigned ==
  ASSUME ShapeInv, [Next]_vars, NEW r \in Runs,
         NEW i \in Items(r), status[r][i] # "signed", status'[r][i] = "signed"
  PROVE  /\ Write(r, i) /\ ~Refused(r, SigOf[batch[r][i]])
         /\ file'[SigOf[batch[r][i]]] = Signature(r, got[r][i])
<1>1. Step(r)
  BY OthersUntouched DEF vars
<1>2. ~Check(r) /\ ~Summarise(r)
  BY DEF Check, Summarise, ShapeInv
<1>3. PICK j \in Items(r) : Read(r, j) \/ Write(r, j)
  BY <1>1, <1>2 DEF Step
<1>4. j = i
  BY <1>3, ItemStep
<1>5. Write(r, i)
  BY <1>3, <1>4 DEF Read, Set, ShapeInv
<1>6. SigOf[batch[r][i]] \in DOMAIN file
  BY BatchFacts DEF ShapeInv
<1>7. QED
  BY <1>5, <1>6 DEF Write, Set, ShapeInv

LEMMA SignedStep ==
  ASSUME ShapeInv, [Next]_vars, NEW r \in Runs, SignedInv(r)
  PROVE  SignedInv(r)'
<1>0. UNCHANGED given /\ Items(r)' = Items(r) /\ mode' = mode /\ batch' = batch
  BY OthersUntouched DEF given
<1> SUFFICES ASSUME NEW i \in Items(r), status'[r][i] = "signed" PROVE Wrote(r, i)'
  BY <1>0 DEF SignedInv
<1> DEFINE l == SigOf[batch[r][i]]
<1>1. l \in Locs
  BY BatchFacts
<1>2. CASE status[r][i] # "signed"
  <2>1. file'[l].kind = "sig" /\ file'[l].by = r
    <3>1. file'[l] = Signature(r, got[r][i])
      BY <1>2, BecomesSigned
    <3>2. QED
      BY <3>1 DEF Signature
  <2>2. QED
    BY <1>0, <2>1 DEF Wrote
<1>3. CASE status[r][i] = "signed"
  <2>1. file[l].kind = "sig" /\ (file[l].by = r \/ mode[file[l].by].force)
    BY <1>3 DEF SignedInv, Wrote
  <2>2. Exists(l)
    BY <2>1 DEF Exists, Nothing
  <2>3. CASE file'[l] = file[l]
    BY <1>0, <2>1, <2>3 DEF Wrote
  <2>4. ASSUME NEW q \in Runs, NEW j \in Items(q),
               file'[l] = Signature(q, got[q][j]), ~Refused(q, l)
        PROVE  Wrote(r, i)'
    <3>1. mode[q].force
      BY <2>2, <2>4 DEF Refused
    <3>2. file'[l].kind = "sig" /\ file'[l].by = q
      BY <2>4 DEF Signature
    <3>3. QED
      BY <1>0, <3>1, <3>2 DEF Wrote
  <2>5. QED
    BY <1>1, <2>2, <2>3, <2>4, FileStep
<1>4. QED
  BY <1>2, <1>3

LEMMA ByStep ==
  ASSUME ShapeInv, [Next]_vars, NEW r \in Runs, OrderInv(r), ByInv(r)
  PROVE  ByInv(r)'
<1>0. Items(r)' = Items(r) /\ batch' = batch
  BY OthersUntouched DEF given
<1> SUFFICES ASSUME NEW l \in Locs, file'[l].kind = "sig", file'[l].by = r
             PROVE  \E i \in Items(r) : SigOf[batch[r][i]] = l /\ status'[r][i] = "signed"
  BY <1>0 DEF ByInv
<1>1. CASE file'[l] = file[l]
  <2>1. PICK i \in Items(r) : SigOf[batch[r][i]] = l /\ status[r][i] = "signed"
    BY <1>1 DEF ByInv
  <2>2. QED
    BY <2>1, SignedStays
<1>2. ASSUME NEW q \in Runs, NEW j \in Items(q), l = SigOf[batch[q][j]],
             file'[l] = Signature(q, got[q][j]), status'[q][j] = "signed"
      PROVE  \E i \in Items(r) : SigOf[batch[r][i]] = l /\ status'[r][i] = "signed"
  BY <1>2 DEF Signature
<1>3. ASSUME NEW q \in Runs, file'[l] = Partial(q) PROVE FALSE
  BY <1>3 DEF Partial
<1>4. QED
  BY <1>1, <1>2, <1>3, FileStep

LEMMA EndStep ==
  ASSUME ShapeInv, [Next]_vars, NEW r \in Runs, OrderInv(r), EndInv(r)
  PROVE  EndInv(r)'
<1>0. Items(r)' = Items(r)
  BY OthersUntouched
<1>1. CASE pc'[r] = pc[r] /\ status'[r] = status[r]
  BY <1>0, <1>1 DEF EndInv, Todo
<1>2. CASE Check(r)
  <2>1. pc'[r] \in {"work", "err"}
    BY <1>2 DEF Check, Goto, ShapeInv
  <2>2. \A i \in Items(r) : status'[r][i] # "signed"
    BY <1>2 DEF Check, OrderInv, ShapeInv
  <2>3. QED
    BY <1>0, <2>1, <2>2 DEF EndInv
<1>3. CASE Summarise(r)
  <2>1. pc'[r] = Verdict(r) /\ status' = status
    BY <1>3 DEF Summarise, Goto, ShapeInv
  <2>2. \A i \in Todo(r) : status[r][i] \in {"signed", "failed"}
    BY <1>3 DEF Summarise
  <2>3. Todo(r)' = Todo(r)
    BY <1>0, <2>1 DEF Todo
  <2>4. QED
    BY <1>0, <2>1, <2>2, <2>3, VerdictTells DEF EndInv
<1>4. ASSUME NEW i \in Items(r), Read(r, i) \/ Write(r, i) PROVE EndInv(r)'
  <2>1. pc'[r] = "work"
    BY <1>4, ItemStep
  <2>2. QED
    BY <2>1 DEF EndInv
<1>5. (pc'[r] = pc[r] /\ status'[r] = status[r]) \/ Step(r)
  BY OthersUntouched DEF vars
<1>6. QED
  BY <1>1, <1>2, <1>3, <1>4, <1>5 DEF Step

\* What the check has found stays so: symlinks stay, and no others appear.
LEMMA ClearStep ==
  ASSUME ShapeInv, [Next]_vars, NEW r \in Runs, ClearInv(r)
  PROVE  ClearInv(r)'
<1>0. Items(r)' = Items(r) /\ batch' = batch /\ keyLoc' = keyLoc
  BY OthersUntouched DEF given
<1> DEFINE names == {batch[r][j] : j \in Items(r)} \union {keyLoc}
<1>1. \A o \in names : Canonical(o)' = Canonical(o)
  BY BatchFacts, LinksStay
<1>2. CASE pc'[r] = pc[r] /\ Todo(r)' \subseteq Todo(r)
  BY <1>0, <1>1, <1>2 DEF ClearInv
<1>3. CASE Check(r)
  <2> SUFFICES ASSUME pc'[r] = "work" PROVE ClearInv(r)'
    BY DEF ClearInv
  <2>1. /\ ~BatchAliases(r)
        /\ status'[r] = [i \in Items(r) |-> IF i \in Kept(r) THEN "todo" ELSE "dropped"]
    BY <1>3 DEF Check, Goto, ShapeInv
  <2>2. \A i \in Items(r) : i \in Todo(r)' => i \in Kept(r)
    BY <1>0, <2>1 DEF Todo
  <2>3. ASSUME NEW i \in Kept(r), NEW o \in names
        PROVE  Canonical(o) # SigOf[batch[r][i]]
    <3>1. \A a \in {batch[r][j] : j \in Kept(r)} \union {keyLoc} :
             Canonical(a) # SigOf[batch[r][i]]
      BY <2>1 DEF BatchAliases, Aliases
    <3>2. CASE o = keyLoc
      BY <3>1, <3>2
    <3>3. ASSUME NEW j \in Items(r), o = batch[r][j]
          PROVE  Canonical(o) # SigOf[batch[r][i]]
      <4>1. PICK k \in Kept(r) : Canonical(batch[r][k]) = Canonical(batch[r][j])
        BY KeptForEach
      <4>2. QED
        BY <3>1, <3>3, <4>1
    <3>4. QED
      BY <3>2, <3>3
  <2>4. QED
    BY <1>0, <1>1, <2>2, <2>3 DEF ClearInv, Todo
<1>4. CASE Summarise(r)
  <2>1. pc'[r] # "work"
    BY <1>4 DEF Summarise, Verdict, Goto, ShapeInv
  <2>2. QED
    BY <2>1 DEF ClearInv
<1>5. ASSUME NEW i \in Items(r), Read(r, i) \/ Write(r, i) PROVE ClearInv(r)'
  <2>1. pc'[r] = pc[r] /\ Todo(r)' \subseteq Todo(r)
    BY <1>0, <1>5, ItemStep DEF Todo
  <2>2. QED
    BY <1>2, <2>1
<1>6. CASE pc'[r] = pc[r] /\ status'[r] = status[r]
  <2>1. Todo(r)' = Todo(r)
    BY <1>0, <1>6 DEF Todo
  <2>2. QED
    BY <1>2, <1>6, <2>1
<1>7. (pc'[r] = pc[r] /\ status'[r] = status[r]) \/ Step(r)
  BY OthersUntouched DEF vars
<1>8. QED
  BY <1>3, <1>4, <1>5, <1>6, <1>7 DEF Step

\* A run without --force signs only where nothing was.
LEMMA OnceStep ==
  ASSUME ShapeInv, [Next]_vars, SignedOnce,
         \A r \in Runs : SignedInv(r) /\ DistinctInv(r)'
  PROVE  SignedOnce'
<1>0. /\ \A r \in Runs : Items(r)' = Items(r)
      /\ batch' = batch /\ mode' = mode
  BY OthersUntouched DEF given
<1> SUFFICES ASSUME NEW r \in Runs, NEW q \in Runs, NEW i \in Items(r), NEW j \in Items(q),
                    status'[r][i] = "signed", ~mode[r].force,
                    status'[q][j] = "signed", ~mode[q].force,
                    batch[r][i] = batch[q][j]
             PROVE  r = q /\ i = j
  BY <1>0 DEF SignedOnce
<1>1. CASE r = q
  BY <1>0, <1>1 DEF DistinctInv, Reached
<1>2. CASE r # q
  <2>1. ASSUME NEW a \in Runs, NEW k \in Items(a), ~mode[a].force,
               status[a][k] # "signed", status'[a][k] = "signed"
        PROVE  ~Exists(SigOf[batch[a][k]])
    BY <2>1, BecomesSigned DEF Refused
  <2>2. ASSUME NEW a \in Runs, NEW k \in Items(a), status[a][k] = "signed"
        PROVE  Exists(SigOf[batch[a][k]])
    BY <2>2 DEF SignedInv, Wrote, Exists, Nothing
  <2>3. status'[r] = status[r] \/ status'[q] = status[q]
    BY <1>2, OthersUntouched DEF vars
  <2>4. status[r][i] = "signed" /\ status[q][j] = "signed"
    BY <2>1, <2>2, <2>3
  <2>5. QED
    BY <2>4 DEF SignedOnce
<1>3. QED
  BY <1>1, <1>2

LEMMA BatchStep == BatchInv /\ [Next]_vars => BatchInv'
<1> SUFFICES ASSUME BatchInv, [Next]_vars PROVE BatchInv' OBVIOUS
<1>1. ShapeInv /\ ShapeInv'
  BY ShapeStep DEF BatchInv
<1>2. ASSUME NEW r \in Runs
      PROVE  /\ OrderInv(r)' /\ DistinctInv(r)' /\ SignedInv(r)'
             /\ ByInv(r)' /\ EndInv(r)' /\ ClearInv(r)'
  <2>1. /\ OrderInv(r) /\ DistinctInv(r) /\ SignedInv(r)
        /\ ByInv(r) /\ EndInv(r) /\ ClearInv(r)
    BY DEF BatchInv
  <2>2. OrderInv(r)' /\ DistinctInv(r)'
    BY <1>1, <2>1, OrderStep, DistinctStep
  <2>3. SignedInv(r)' /\ ByInv(r)'
    BY <1>1, <2>1, SignedStep, ByStep
  <2>4. EndInv(r)' /\ ClearInv(r)'
    BY <1>1, <2>1, EndStep, ClearStep
  <2>5. QED
    BY <2>2, <2>3, <2>4
<1>3. SignedOnce'
  BY <1>1, <1>2, OnceStep DEF BatchInv
<1>4. QED
  BY <1>1, <1>2, <1>3 DEF BatchInv

LEMMA BatchInvariant == Spec => []BatchInv
BY BatchInit, BatchStep, PTL DEF Spec

-----------------------------------------------------------------------------
\* The variables hold what they may hold.
THEOREM BatchTypeCorrect == Spec => []TypeOK
<1>1. BatchInv => TypeOK
  BY DEF BatchInv, ShapeInv, TypeOK
<1>2. QED
  BY <1>1, BatchInvariant, PTL

\* The exit status tells what is on disk: ok, every file kept is signed; total, none
\* is; partial, some are and some are not.
THEOREM ExitIsTrue == Spec => []ExitTellsTruth
<1>1. BatchInv => ExitTellsTruth
  <2> SUFFICES ASSUME BatchInv, NEW r \in Runs
               PROVE  LET mine == {i \in Todo(r) :
                                     file[SigOf[batch[r][i]]] = Signature(r, got[r][i])} IN
                      /\ pc[r] = "ok" => \A i \in Todo(r) : Wrote(r, i)
                      /\ pc[r] \in {"total", "err"} => mine = {}
                      /\ pc[r] = "partial" => mine # Todo(r) /\ \E i \in Todo(r) : Wrote(r, i)
    BY DEF ExitTellsTruth
  <2> DEFINE mine == {i \in Todo(r) : file[SigOf[batch[r][i]]] = Signature(r, got[r][i])}
  <2>1. ShapeInv /\ DistinctInv(r) /\ SignedInv(r) /\ ByInv(r) /\ EndInv(r)
    BY DEF BatchInv
  <2>2. Todo(r) \subseteq Items(r)
    BY DEF Todo
  <2>3. ASSUME NEW i \in mine
        PROVE  \E j \in Items(r) : status[r][j] = "signed" /\ batch[r][j] = batch[r][i]
    <3>1. i \in Items(r) /\ SigOf[batch[r][i]] \in Locs
      BY <2>1, <2>2, BatchFacts
    <3>2. file[SigOf[batch[r][i]]].kind = "sig" /\ file[SigOf[batch[r][i]]].by = r
      BY DEF Signature
    <3>3. PICK j \in Items(r) : /\ SigOf[batch[r][j]] = SigOf[batch[r][i]]
                                /\ status[r][j] = "signed"
      BY <2>1, <3>1, <3>2 DEF ByInv
    <3>4. QED
      BY <2>1, <3>1, <3>3, OnePlaceOneName
  <2>4. pc[r] = "ok" => \A i \in Todo(r) : Wrote(r, i)
    BY <2>1, <2>2 DEF EndInv, SignedInv
  <2>5. pc[r] \in {"total", "err"} => mine = {}
    <3>1. ASSUME pc[r] \in {"total", "err"}, NEW i \in mine PROVE FALSE
      BY <2>1, <2>3, <3>1 DEF EndInv
    <3>2. QED
      BY <3>1
  <2>6. ASSUME pc[r] = "partial"
        PROVE  mine # Todo(r) /\ \E i \in Todo(r) : Wrote(r, i)
    <3>1. PICK i \in Todo(r) : status[r][i] = "failed"
      BY <2>1, <2>6 DEF EndInv
    <3>2. i \notin mine
      BY <2>1, <2>2, <2>3, <3>1 DEF DistinctInv, Reached
    <3>3. \E k \in Todo(r) : status[r][k] = "signed"
      BY <2>1, <2>6 DEF EndInv
    <3>4. QED
      BY <2>1, <2>2, <3>2, <3>3 DEF SignedInv
  <2>7. QED
    BY <2>4, <2>5, <2>6
<1>2. QED
  BY <1>1, BatchInvariant, PTL

\* No run fails against a signature of its own.
THEOREM NoRunAgainstItself == Spec => []NeverAgainstItself
<1>1. BatchInv => NeverAgainstItself
  <2> SUFFICES ASSUME BatchInv, NEW r \in Runs, NEW i \in Items(r), status[r][i] = "failed",
                      file[SigOf[batch[r][i]]] = Signature(r, got[r][i])
               PROVE  FALSE
    BY DEF NeverAgainstItself
  <2>1. ShapeInv /\ DistinctInv(r) /\ ByInv(r)
    BY DEF BatchInv
  <2>2. file[SigOf[batch[r][i]]].kind = "sig" /\ file[SigOf[batch[r][i]]].by = r
    BY DEF Signature
  <2>3. PICK j \in Items(r) : SigOf[batch[r][j]] = SigOf[batch[r][i]] /\ status[r][j] = "signed"
    BY <2>1, <2>2, BatchFacts DEF ByInv
  <2>4. batch[r][j] = batch[r][i]
    BY <2>1, <2>3, OnePlaceOneName
  <2>5. QED
    BY <2>1, <2>3, <2>4 DEF DistinctInv, Reached
<1>2. QED
  BY <1>1, BatchInvariant, PTL

\* Of the runs without --force that sign one message, one at most creates the signature.
THEOREM SignatureCreatedOnce == Spec => []SignedOnce
<1>1. BatchInv => SignedOnce
  BY DEF BatchInv
<1>2. QED
  BY <1>1, BatchInvariant, PTL

\* A run that is at work never changes its messages or its secret key.
THEOREM BatchKeepsInputs == Spec => InputsIntact
<1>1. ASSUME BatchInv, [Next]_vars
      PROVE  [\A r \in Runs : status'[r] # status[r] /\ pc[r] = "work" =>
                 \A l \in Inputs(r) : file'[l] = file[l]]_vars
  <2> SUFFICES ASSUME NEW r \in Runs, status'[r] # status[r], pc[r] = "work",
                      NEW l \in Inputs(r)
               PROVE  file'[l] = file[l]
    OBVIOUS
  <2>1. ShapeInv /\ ClearInv(r)
    BY <1>1 DEF BatchInv
  <2>2. PICK i \in Items(r) : Read(r, i) \/ Write(r, i)
    <3>1. Step(r)
      BY <1>1, <2>1, OthersUntouched DEF vars
    <3>2. QED
      BY <3>1 DEF Step, Check, Summarise
  <2>3. CASE Read(r, i)
    BY <2>3 DEF Read
  <2>4. CASE Write(r, i)
    <3> DEFINE s == SigOf[batch[r][i]]
    <3>1. i \in Todo(r)
      BY <2>4 DEF Write, Todo
    <3>2. ASSUME l = s PROVE file[l].kind = "link"
      <4>1. PICK o \in {batch[r][j] : j \in Items(r)} \union {keyLoc} : l = o \/ l = Canonical(o)
        BY DEF Inputs
      <4>2. Canonical(o) # s
        BY <2>1, <3>1 DEF ClearInv
      <4>3. QED
        BY <3>2, <4>1, <4>2 DEF Canonical
    <3>3. file[s].kind = "link" => Refused(r, s) /\ Exists(s)
      BY DEF Refused, Exists, Nothing
    <3>4. CASE l = s
      <4>1. Refused(r, s) /\ Exists(s)
        BY <3>2, <3>3, <3>4
      <4>2. UNCHANGED file
        BY <2>4, <4>1 DEF Write
      <4>3. QED
        BY <4>2
    <3>5. CASE l # s
      <4>1. l \in DOMAIN file
        BY <2>1, BatchFacts DEF Inputs, Canonical, ShapeInv
      <4>2. QED
        BY <2>4, <3>5, <4>1 DEF Write
    <3>6. QED
      BY <3>4, <3>5
  <2>5. QED
    BY <2>2, <2>3, <2>4
<1>2. QED
  BY <1>1, BatchInvariant, PTL DEF Spec, InputsIntact
=============================================================================
