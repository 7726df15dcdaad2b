---------------------------- MODULE VerifyProofs ----------------------------
(***************************************************************************)
(* Proofs about Verify, for any files, messages, keys and signature files, *)
(* any size limit, and any number of changes and failing calls.            *)
(***************************************************************************)
EXTENDS Verify, TLAPS

Judged == {"verified", "failed"}

\* What the state variables hold, more exactly than TypeOK.
ShapeInv ==
    /\ message \in [Files -> Contents]
    /\ sigFile \in [Files -> Boxes \union {NoBox}]
    /\ keyFile \in Keys /\ key \in Keys /\ job \in Jobs
    /\ pc \in {"key", "work"} \union Ended
    /\ status \in [Items -> {"todo", "loaded", "reading", "verified", "failed"}]
    /\ box \in [Items -> Boxes \union {NoBox}]
    /\ got \in [Items -> Seq(Blocks)]
    /\ changes \in Nat /\ faults \in Nat

\* Nothing is read before the key, nor written out before the end.
OrderInv ==
    /\ pc = "key" => \A i \in Items : status[i] = "todo"
    /\ \A i \in Items : status[i] \in {"todo", "loaded"} => got[i] = <<>>
    /\ pc \notin Ended => out = <<>>
    /\ out = <<>> \/ (Len(out) = 1 /\ job.output /\ status[1] = "verified")

\* s is how c begins.
Begins(s, c) == Len(s) <= Len(c) /\ \A n \in 1..Len(s) : s[n] = c[n]

\* What has been read of a message that nobody touches.
ReadInv(i) ==
    changes = 0 =>
        /\ status[i] \in {"loaded", "reading", "verified"} => box[i] = sigFile[File(i)]
        /\ Begins(got[i], message[File(i)])

\* What is said of a message that has been judged.
JudgedInv(i) ==
    /\ status[i] = "verified" =>
          box[i].signature = Signature(key, Digest(box[i].prehashed, got[i]))
    /\ status[i] = "reading" => Admitted(i)

Refusable(i) ==
    LET b == sigFile[File(i)] IN
    \/ b = NoBox
    \/ b.num # Num[key]
    \/ b.signature # Signature(key, Digest(b.prehashed, message[File(i)]))
    \/ b.global # Signature(key, <<b.signature, b.comment>>)
    \/ job.forcePrehashed /\ ~b.prehashed
    \/ (~b.prehashed \/ job.output) /\ Len(message[File(i)]) > MaxSize

VerifyInv ==
    /\ ShapeInv /\ OrderInv
    /\ \A i \in Items : ReadInv(i) /\ JudgedInv(i)
    /\ GoodIsAccepted

-----------------------------------------------------------------------------
\* A sequence that begins as another one and is not shorter is that one.
LEMMA WholeBeginning ==
  ASSUME NEW s \in Seq(Blocks), NEW c \in Seq(Blocks), Begins(s, c), Len(s) >= Len(c)
  PROVE  s = c
BY DEF Begins

\* One more block, and it still does.
LEMMA LongerBeginning ==
  ASSUME NEW s \in Seq(Blocks), NEW c \in Seq(Blocks), Begins(s, c), Len(s) < Len(c)
  PROVE  /\ Append(s, c[Len(s) + 1]) \in Seq(Blocks)
         /\ Begins(Append(s, c[Len(s) + 1]), c)
BY DEF Begins

LEMMA JobFacts ==
  ASSUME ShapeInv
  PROVE  /\ job.names \in Seq(Files) /\ 1 \in Items
         /\ job.output => Items = {1}
         /\ \A i \in Items : File(i) \in Files /\ message[File(i)] \in Seq(Blocks)
         /\ {MaxSize, MaxChanges, MaxFaults} \subseteq Nat
<1>1. IsJob(job)
  BY VerifyJobsTyped DEF ShapeInv
<1>2. job.names \in Seq(Files) /\ job.names # <<>>
  BY <1>1 DEF IsJob
<1>3. Items = 1..Len(job.names) /\ Len(job.names) \in Nat \ {0}
  BY <1>2 DEF Items
<1>4. job.output => Items = {1}
  <2>1. job.output => Len(job.names) = 1
    BY <1>1, Zenon DEF IsJob
  <2>2. Len(job.names) = 1 => Items = {1}
    BY <1>3
  <2>3. QED
    BY <2>1, <2>2
<1>5. \A i \in Items : File(i) \in Files
  BY <1>2, <1>3 DEF File
<1>6. QED
  BY <1>2, <1>3, <1>4, <1>5, ContentsTyped, VerifyBounds DEF ShapeInv

LEMMA VerifyInit == Init => VerifyInv
<1> SUFFICES ASSUME Init PROVE VerifyInv OBVIOUS
<1>1. PICK w \in Worlds : message = w.message /\ sigFile = w.sigFile /\ keyFile = w.keyFile
  BY DEF Init
<1>2. ShapeInv
  BY <1>1, WorldsTyped DEF Init, ShapeInv, Ended, Items
<1>3. OrderInv
  BY DEF Init, OrderInv, Ended
<1>4. ASSUME NEW i \in Items PROVE ReadInv(i) /\ JudgedInv(i) /\ status[i] # "failed"
  <2>1. status[i] = "todo" /\ got[i] = <<>>
    BY <1>4 DEF Init
  <2>2. Begins(<<>>, message[File(i)])
    BY <1>2, <1>4, JobFacts DEF Begins
  <2>3. QED
    BY <2>1, <2>2 DEF ReadInv, JudgedInv
<1>5. QED
  BY <1>2, <1>3, <1>4 DEF VerifyInv, GoodIsAccepted

-----------------------------------------------------------------------------
\* Every file and variable still holds what it may hold.
LEMMA ShapeStep ==
  ASSUME ShapeInv, [Next]_vars
  PROVE  ShapeInv' /\ Items' = Items
<1> USE DEF ShapeInv, Works, Fails, Set, disk
<1>0. Items' = Items
  BY DEF vars, Next, Step, LoadKey, Finish, LoadBox, Open, ReadBlock, Judge, Change, Items
<1>1. CASE UNCHANGED vars
  BY <1>0, <1>1 DEF vars
<1>2. CASE LoadKey
  BY <1>0, <1>2 DEF LoadKey, Ended
<1>3. CASE Finish
  <2>1. Verdict \in Ended
    BY DEF Verdict, Ended
  <2>2. pc' \in Ended
    BY <1>3, <2>1 DEF Finish, Ended
  <2>3. QED
    BY <1>0, <1>3, <2>2 DEF Finish
<1>4. ASSUME NEW i \in Items, LoadBox(i) PROVE ShapeInv'
  <2>1. sigFile[File(i)] \in Boxes \union {NoBox}
    BY JobFacts, <1>4
  <2>2. box' \in [Items -> Boxes \union {NoBox}]
    BY <1>4, <2>1 DEF LoadBox
  <2>3. status' \in [Items -> {"todo", "loaded", "reading", "verified", "failed"}]
    BY <1>4 DEF LoadBox
  <2>4. UNCHANGED <<message, sigFile, keyFile, changes, job, pc, key, got>> /\ faults' \in Nat
    BY <1>4 DEF LoadBox
  <2>5. QED
    BY <1>0, <2>2, <2>3, <2>4
<1>5. ASSUME NEW i \in Items, Open(i) PROVE ShapeInv'
  <2>1. status' \in [Items -> {"todo", "loaded", "reading", "verified", "failed"}]
    BY <1>5 DEF Open
  <2>2. UNCHANGED <<message, sigFile, keyFile, changes, job, pc, key, box, got>> /\ faults' \in Nat
    BY <1>5 DEF Open
  <2>3. QED
    BY <1>0, <2>1, <2>2
<1>6. ASSUME NEW i \in Items, ReadBlock(i) PROVE ShapeInv'
  <2>1. got[i] \in Seq(Blocks) /\ message[File(i)] \in Seq(Blocks)
    BY JobFacts, <1>6
  <2>2. Len(got[i]) < Len(message[File(i)])
    BY <1>6 DEF ReadBlock
  <2>3. Append(got[i], message[File(i)][Len(got[i]) + 1]) \in Seq(Blocks)
    BY <2>1, <2>2
  <2>4. got' \in [Items -> Seq(Blocks)]
    BY <1>6, <2>3 DEF ReadBlock
  <2>5. status' \in [Items -> {"todo", "loaded", "reading", "verified", "failed"}]
    BY <1>6 DEF ReadBlock
  <2>6. UNCHANGED <<message, sigFile, keyFile, changes, job, pc, key, box>> /\ faults' \in Nat
    BY <1>6 DEF ReadBlock
  <2>7. QED
    BY <1>0, <2>4, <2>5, <2>6
<1>7. ASSUME NEW i \in Items, Judge(i) PROVE ShapeInv'
  <2>1. status' \in [Items -> {"todo", "loaded", "reading", "verified", "failed"}]
    BY <1>7 DEF Judge
  <2>2. UNCHANGED <<message, sigFile, keyFile, changes, job, pc, key, box, got, faults>>
    BY <1>7 DEF Judge
  <2>3. QED
    BY <1>0, <2>1, <2>2
<1>8. CASE Change
  <2>1. UNCHANGED <<job, pc, key, status, box, got, faults>> /\ changes' \in Nat
    BY <1>8 DEF Change
  <2>2. message' \in [Files -> Contents]
    BY <1>8 DEF Change
  <2>3. sigFile' \in [Files -> Boxes \union {NoBox}]
    BY <1>8 DEF Change
  <2>4. keyFile' \in Keys
    BY <1>8 DEF Change
  <2>5. QED
    BY <1>0, <2>1, <2>2, <2>3, <2>4
<1>9. QED
  BY <1>0, <1>1, <1>2, <1>3, <1>4, <1>5, <1>6, <1>7, <1>8 DEF Next, Step

\* The calls of one item leave the others where they are.
LEMMA OtherItems ==
  ASSUME ShapeInv, NEW i \in Items, LoadBox(i) \/ Open(i) \/ ReadBlock(i) \/ Judge(i),
         NEW k \in Items, k # i
  PROVE  status'[k] = status[k] /\ box'[k] = box[k] /\ got'[k] = got[k]
BY DEF ShapeInv, LoadBox, Open, ReadBlock, Judge, Set

LEMMA OrderStep ==
  ASSUME ShapeInv, OrderInv, [Next]_vars
  PROVE  OrderInv'
<1>0. Items' = Items
  BY ShapeStep
<1>1. CASE UNCHANGED vars
  BY <1>0, <1>1 DEF vars, OrderInv
<1>2. CASE LoadKey
  BY <1>0, <1>2 DEF LoadKey, OrderInv, Ended, Works, Fails
<1>3. CASE Finish
  <2>1. pc = "work" /\ pc' \in Ended /\ UNCHANGED <<job, status, got>>
    BY <1>3 DEF Finish, Verdict, Ended
  <2>2. out' = out \/ (job.output /\ status[1] = "verified" /\ out' = <<Emitted>>)
    BY <1>3 DEF Finish
  <2>3. Len(<<Emitted>>) = 1
    OBVIOUS
  <2>4. QED
    BY <1>0, <2>1, <2>2, <2>3 DEF OrderInv, Ended
<1>4. ASSUME NEW i \in Items, LoadBox(i) \/ Open(i) \/ ReadBlock(i) \/ Judge(i) PROVE OrderInv'
  <2>1. pc = "work" /\ UNCHANGED <<job, pc, out>> /\ out = <<>>
    BY <1>4 DEF LoadBox, Open, ReadBlock, Judge, MayStart, OrderInv, Ended
  <2>2. ASSUME NEW k \in Items, status'[k] \in {"todo", "loaded"} PROVE got'[k] = <<>>
    <3>1. CASE k # i
      BY <1>4, <2>2, <3>1, OtherItems DEF OrderInv
    <3>2. CASE k = i
      BY <1>4, <2>2, <3>2
         DEF ShapeInv, OrderInv, LoadBox, Open, ReadBlock, Judge, MayStart, Set
    <3>3. QED
      BY <3>1, <3>2
  <2>3. QED
    BY <1>0, <2>1, <2>2 DEF OrderInv, Ended
<1>5. CASE Change
  BY <1>0, <1>5 DEF Change, OrderInv
<1>6. QED
  BY <1>1, <1>2, <1>3, <1>4, <1>5 DEF Next, Step

-----------------------------------------------------------------------------
\* What was read is, or begins, the message as it was before the run.
LEMMA ReadStep ==
  ASSUME VerifyInv, [Next]_vars, NEW k \in Items
  PROVE  ReadInv(k)'
<1>0. ShapeInv /\ OrderInv /\ ReadInv(k) /\ Items' = Items /\ k \in Items'
  BY ShapeStep DEF VerifyInv
<1>1. CASE UNCHANGED vars
  BY <1>0, <1>1 DEF vars, ReadInv, Begins, File
<1>2. CASE LoadKey
  BY <1>0, <1>2 DEF LoadKey, ReadInv, Begins, File, disk
<1>3. CASE Finish
  BY <1>0, <1>3 DEF Finish, ReadInv, Begins, File, disk
<1>4. CASE Change
  BY <1>0, <1>4 DEF Change, ReadInv, ShapeInv
<1>5. ASSUME NEW i \in Items, LoadBox(i) \/ Open(i) \/ ReadBlock(i) \/ Judge(i) PROVE ReadInv(k)'
  <2> SUFFICES ASSUME changes = 0
               PROVE  /\ status'[k] \in {"loaded", "reading", "verified"} =>
                            box'[k] = sigFile[File(k)]
                      /\ Begins(got'[k], message[File(k)])
    BY <1>5 DEF ReadInv, LoadBox, Open, ReadBlock, Judge, disk, File, Begins
  <2>1. /\ status[k] \in {"loaded", "reading", "verified"} => box[k] = sigFile[File(k)]
        /\ Begins(got[k], message[File(k)])
    BY <1>0 DEF ReadInv
  <2>2. CASE k # i
    BY <1>0, <1>5, <2>1, <2>2, OtherItems
  <2>3. CASE k = i /\ LoadBox(i)
    BY <1>0, <2>1, <2>3 DEF ShapeInv, LoadBox, Set
  <2>4. CASE k = i /\ (Open(i) \/ Judge(i))
    BY <1>0, <2>1, <2>4 DEF ShapeInv, Open, Judge, Set
  <2>5. CASE k = i /\ ReadBlock(i)
    <3>1. /\ status'[k] \in {"reading", "failed"} /\ box'[k] = box[k] /\ status[k] = "reading"
          /\ \/ got'[k] = got[k]
             \/ got'[k] = Append(got[k], message[File(k)][Len(got[k]) + 1])
          /\ Len(got[k]) < Len(message[File(k)])
      BY <1>0, <2>5 DEF ShapeInv, ReadBlock, Set
    <3>2. got[k] \in Seq(Blocks) /\ message[File(k)] \in Seq(Blocks)
      BY <1>0, JobFacts DEF ShapeInv
    <3>3. Begins(got'[k], message[File(k)])
      BY <2>1, <3>1, <3>2, LongerBeginning
    <3>4. QED
      BY <2>1, <3>1, <3>3
  <2>6. QED
    BY <1>5, <2>2, <2>3, <2>4, <2>5
<1>6. QED
  BY <1>1, <1>2, <1>3, <1>4, <1>5 DEF Next, Step

\* A message is verified by the key that the run has loaded, and only if it is admitted.
LEMMA JudgedStep ==
  ASSUME VerifyInv, [Next]_vars, NEW k \in Items
  PROVE  JudgedInv(k)'
<1>0. ShapeInv /\ OrderInv /\ JudgedInv(k) /\ Items' = Items /\ k \in Items'
  BY ShapeStep DEF VerifyInv
<1>1. CASE UNCHANGED vars
  BY <1>0, <1>1 DEF vars, JudgedInv, Admitted, KeyFor
<1>2. CASE LoadKey
  <2>1. status'[k] = "todo"
    BY <1>0, <1>2 DEF LoadKey, OrderInv
  <2>2. QED
    BY <2>1 DEF JudgedInv
<1>3. CASE Finish
  BY <1>0, <1>3 DEF Finish, JudgedInv, Admitted, KeyFor
<1>4. CASE Change
  BY <1>0, <1>4 DEF Change, JudgedInv, Admitted, KeyFor
<1>5. ASSUME NEW i \in Items, LoadBox(i) \/ Open(i) \/ ReadBlock(i) \/ Judge(i)
      PROVE JudgedInv(k)'
  <2>1. key' = key /\ job' = job
    BY <1>5 DEF LoadBox, Open, ReadBlock, Judge
  <2>2. CASE k # i
    BY <1>0, <1>5, <2>1, <2>2, OtherItems DEF JudgedInv, Admitted, KeyFor
  <2>3. CASE k = i /\ LoadBox(i)
    <3>1. status'[k] \in {"loaded", "failed"}
      BY <1>0, <2>3 DEF ShapeInv, LoadBox, Set
    <3>2. QED
      BY <3>1 DEF JudgedInv
  <2>4. CASE k = i /\ Open(i)
    <3>1. status'[k] = "failed" \/ (status'[k] = "reading" /\ Admitted(k))
      BY <1>0, <2>4 DEF ShapeInv, Open, Set
    <3>2. box' = box
      BY <2>4 DEF Open
    <3>3. QED
      BY <2>1, <3>1, <3>2 DEF JudgedInv, Admitted, KeyFor
  <2>5. CASE k = i /\ ReadBlock(i)
    <3>1. status'[k] \in {"reading", "failed"} /\ status[k] = "reading" /\ box' = box
      BY <1>0, <2>5 DEF ShapeInv, ReadBlock, Set
    <3>2. QED
      BY <1>0, <2>1, <3>1 DEF JudgedInv, Admitted, KeyFor
  <2>6. CASE k = i /\ Judge(i)
    <3>1. status'[k] = "failed" \/ (status'[k] = "verified" /\ Authentic(k))
      BY <1>0, <2>6 DEF ShapeInv, Judge, Set
    <3>2. box' = box /\ got' = got
      BY <2>6 DEF Judge
    <3>3. QED
      BY <2>1, <3>1, <3>2 DEF JudgedInv, Authentic, KeyFor
  <2>7. QED
    BY <1>5, <2>2, <2>3, <2>4, <2>5, <2>6
<1>6. QED
  BY <1>1, <1>2, <1>3, <1>4, <1>5 DEF Next, Step

\* What a message that nobody touches is judged by, is what the files hold.
LEMMA JudgeExactly ==
  ASSUME VerifyInv, NEW i \in Items, Judge(i), changes = 0
  PROVE  /\ box[i] = sigFile[File(i)]
         /\ \/ got[i] = message[File(i)]
            \/ Buffered(i) /\ Len(got[i]) > MaxSize /\ Len(message[File(i)]) > MaxSize
<1>1. got[i] \in Seq(Blocks) /\ message[File(i)] \in Seq(Blocks) /\ MaxSize \in Nat
  BY JobFacts DEF VerifyInv, ShapeInv
<1>2. box[i] = sigFile[File(i)] /\ Begins(got[i], message[File(i)])
  BY DEF VerifyInv, ReadInv, Judge
<1>3. Len(got[i]) >= Len(message[File(i)]) \/ AtCap(i)
  BY DEF Judge
<1>4. CASE Len(got[i]) >= Len(message[File(i)])
  BY <1>1, <1>2, <1>4, WholeBeginning
<1>5. CASE AtCap(i)
  <2>1. Buffered(i) /\ Len(got[i]) = MaxSize + 1
    BY <1>5 DEF AtCap
  <2>2. Len(got[i]) <= Len(message[File(i)])
    BY <1>2 DEF Begins
  <2>3. QED
    BY <1>1, <1>2, <2>1, <2>2
<1>6. QED
  BY <1>3, <1>4, <1>5

LEMMA GoodStep ==
  ASSUME VerifyInv, [Next]_vars
  PROVE  GoodIsAccepted'
<1>0. ShapeInv /\ OrderInv /\ Items' = Items /\ ShapeInv'
  BY ShapeStep DEF VerifyInv
<1> SUFFICES ASSUME NEW k \in Items, status'[k] = "failed", changes' = 0, faults' = 0
             PROVE  Refusable(k)'
  BY <1>0, Zenon DEF GoodIsAccepted, Refusable
<1>1. status[k] = "failed" /\ changes = 0 /\ faults = 0 => Refusable(k)
  BY Zenon DEF VerifyInv, GoodIsAccepted, Refusable
<1>2. CASE UNCHANGED vars
  BY <1>1, <1>2 DEF vars, Refusable, File
<1>3. CASE LoadKey
  BY <1>0, <1>3 DEF LoadKey, OrderInv
<1>4. CASE Finish
  <2>1. faults = 0
    BY <1>0, <1>4 DEF Finish, ShapeInv, Works, Fails
  <2>2. QED
    BY <1>1, <1>4, <2>1 DEF Finish, Refusable, File, disk
<1>5. CASE Change
  BY <1>0, <1>5 DEF Change, ShapeInv
<1>6. ASSUME NEW i \in Items, LoadBox(i) \/ Open(i) \/ ReadBlock(i) \/ Judge(i)
      PROVE Refusable(k)'
  <2>1. /\ UNCHANGED <<disk, job, key>> /\ Works
    BY <1>0, <1>6 DEF LoadBox, Open, ReadBlock, Judge, ShapeInv, Works, Fails
  <2>2. SUFFICES Refusable(k)
    BY <2>1 DEF Refusable, File, disk
  <2>3. changes = 0 /\ faults = 0
    BY <2>1 DEF disk, Works
  <2>4. CASE status[k] = "failed"
    BY <1>1, <2>3, <2>4
  <2>5. CASE status[k] # "failed"
    <3>0. k = i
      BY <1>0, <1>6, <2>5, OtherItems
    <3>1. ~Fails
      BY <1>0, <2>1 DEF Works, Fails, ShapeInv
    <3>2. CASE LoadBox(k)
      BY <1>0, <3>1, <3>2 DEF LoadBox, Set, ShapeInv, Refusable
    <3>3. CASE Open(k)
      <4>1. ~(Admitted(k) /\ (Buffered(k) => Len(message[File(k)]) <= MaxSize))
        BY <1>0, <3>1, <3>3 DEF Open, Set, ShapeInv
      <4>2. box[k] = sigFile[File(k)]
        BY <2>3, <3>3 DEF VerifyInv, ReadInv, Open
      <4>3. ~Admitted(k) => Refusable(k)
        BY <4>2 DEF Admitted, KeyFor, Refusable
      <4>4. Len(message[File(k)]) \in Nat /\ MaxSize \in Nat
        BY <1>0, JobFacts
      <4>5. CASE Buffered(k) /\ ~(Len(message[File(k)]) <= MaxSize)
        <5>1. Len(message[File(k)]) > MaxSize
          BY <4>4, <4>5
        <5>2. QED
          BY <4>2, <4>5, <5>1 DEF Buffered, Refusable
      <4>6. QED
        BY <4>1, <4>3, <4>5
    <3>4. CASE ReadBlock(k)
      BY <1>0, <2>5, <3>1, <3>4 DEF ReadBlock
    <3>5. CASE Judge(k)
      <4>1. ~((Buffered(k) => Len(got[k]) <= MaxSize) /\ Authentic(k))
        BY <1>0, <3>5 DEF Judge, Set, ShapeInv
      <4>2. box[k] = sigFile[File(k)]
        BY <2>3, <3>5, JudgeExactly
      <4>3. CASE got[k] = message[File(k)]
        <5>1. ~Authentic(k) => Refusable(k)
          BY <4>2, <4>3 DEF Authentic, KeyFor, Refusable
        <5>2. Len(message[File(k)]) \in Nat /\ MaxSize \in Nat
          BY <1>0, JobFacts
        <5>3. CASE Buffered(k) /\ ~(Len(got[k]) <= MaxSize)
          <6>1. Len(message[File(k)]) > MaxSize
            BY <4>3, <5>2, <5>3
          <6>2. QED
            BY <4>2, <5>3, <6>1 DEF Buffered, Refusable
        <5>4. QED
          BY <4>1, <5>1, <5>3
      <4>4. CASE Buffered(k) /\ Len(message[File(k)]) > MaxSize
        BY <4>2, <4>4 DEF Buffered, Refusable
      <4>5. QED
        BY <2>3, <3>5, <4>3, <4>4, JudgeExactly
    <3>6. QED
      BY <1>6, <3>0, <3>2, <3>3, <3>4, <3>5
  <2>6. QED
    BY <2>4, <2>5
<1>7. QED
  BY <1>2, <1>3, <1>4, <1>5, <1>6 DEF Next, Step

LEMMA VerifyStep == VerifyInv /\ [Next]_vars => VerifyInv'
<1> SUFFICES ASSUME VerifyInv, [Next]_vars PROVE VerifyInv' OBVIOUS
<1>1. ShapeInv' /\ Items' = Items /\ OrderInv'
  BY ShapeStep, OrderStep DEF VerifyInv
<1>2. \A k \in Items : ReadInv(k)' /\ JudgedInv(k)'
  BY ReadStep, JudgedStep
<1>3. QED
  BY <1>1, <1>2, GoodStep DEF VerifyInv

LEMMA VerifyInvariant == Spec => []VerifyInv
BY VerifyInit, VerifyStep, PTL DEF Spec

-----------------------------------------------------------------------------
\* The variables hold what they may hold, and something is written out only once
\* the only message has been verified.
THEOREM VerifyTypeCorrect == Spec => []TypeOK
<1>1. VerifyInv => TypeOK
  <2> SUFFICES ASSUME VerifyInv PROVE TypeOK OBVIOUS
  <2>1. ShapeInv /\ OrderInv
    BY DEF VerifyInv
  <2>2. Len(out) <= 1 /\ (out # <<>> => job.output /\ status[1] = "verified")
    <3>1. CASE out = <<>>
      BY <3>1
    <3>2. CASE Len(out) = 1 /\ job.output /\ status[1] = "verified"
      BY <3>2
    <3>3. QED
      BY <2>1, <3>1, <3>2 DEF OrderInv
  <2>3. DOMAIN got = Items
    BY <2>1 DEF ShapeInv
  <2>4. QED
    BY <2>1, <2>2, <2>3 DEF ShapeInv, TypeOK
<1>2. QED
  BY <1>1, VerifyInvariant, PTL

\* A message that nobody touches is refused only for a reason: for a wrong signature,
\* comment or key number, for a legacy signature under -H, or for its size.
THEOREM GoodNeverRefused == Spec => []GoodIsAccepted
<1>1. VerifyInv => GoodIsAccepted
  BY DEF VerifyInv
<1>2. QED
  BY <1>1, VerifyInvariant, PTL

\* Only the end of the run writes out, and only what was verified.
LEMMA OnlySignedEmitted ==
  ASSUME VerifyInv, [Next]_vars, out' # out
  PROVE  box[1].signature = Signature(key, Digest(box[1].prehashed, out'[1]))
<1>1. Finish
  BY DEF Next, Step, vars, LoadKey, LoadBox, Open, ReadBlock, Judge, Change
<1>2. status[1] = "verified" /\ out' = <<got[1]>>
  BY <1>1 DEF Finish, Emitted
<1>3. 1 \in Items /\ JudgedInv(1)
  BY JobFacts DEF VerifyInv
<1>4. QED
  BY <1>2, <1>3 DEF JudgedInv

\* A message becomes verified by Judge, which has seen all of it.
LEMMA OnlySignedVerified ==
  ASSUME VerifyInv, [Next]_vars,
         NEW i \in Items, status[i] # "verified", status'[i] = "verified"
  PROVE  /\ Len(got[i]) >= Len(message[File(i)])
         /\ changes = 0 =>
               LET b == sigFile[File(i)] IN
               /\ b.signature = Signature(key, Digest(b.prehashed, message[File(i)]))
               /\ b.global = Signature(key, <<b.signature, b.comment>>)
               /\ job.forcePrehashed => b.prehashed
<1>1. ShapeInv /\ JudgedInv(i)
  BY DEF VerifyInv
<1>2. Judge(i)
  <2>1. \E k \in Items : LoadBox(k) \/ Open(k) \/ ReadBlock(k) \/ Judge(k)
    BY DEF Next, Step, vars, LoadKey, Finish, Change
  <2>2. LoadBox(i) \/ Open(i) \/ ReadBlock(i) \/ Judge(i)
    BY <1>1, <2>1, OtherItems
  <2>3. QED
    BY <1>1, <2>2 DEF ShapeInv, LoadBox, Open, ReadBlock, Set
<1>3. (Buffered(i) => Len(got[i]) <= MaxSize) /\ Authentic(i) /\ status[i] = "reading"
  BY <1>1, <1>2 DEF Judge, Set, ShapeInv
<1>4. got[i] \in Seq(Blocks) /\ MaxSize \in Nat
  BY <1>1, JobFacts DEF ShapeInv
<1>5. ~AtCap(i)
  BY <1>3, <1>4 DEF AtCap
<1>6. Len(got[i]) >= Len(message[File(i)])
  BY <1>2, <1>5 DEF Judge
<1>7. Admitted(i)
  BY <1>1, <1>3 DEF JudgedInv
<1>8. ASSUME changes = 0
      PROVE  box[i] = sigFile[File(i)] /\ got[i] = message[File(i)]
  <2>1. ~(Buffered(i) /\ Len(got[i]) > MaxSize)
    BY <1>3, <1>4
  <2>2. QED
    BY <1>2, <1>8, <2>1, JudgeExactly
<1>9. QED
  BY <1>3, <1>6, <1>7, <1>8 DEF Authentic, Admitted, KeyFor

\* A message is verified only once all of the file has been read, and, if nobody touched
\* it, only if the key signed all of it and the comment; -o writes out what was signed.
THEOREM OnlySignedAccepted == Spec => AcceptedIsSigned
<1>1. ASSUME VerifyInv, [Next]_vars
      PROVE  [/\ \A i \in Items : status[i] # "verified" /\ status'[i] = "verified" =>
                    /\ Len(got[i]) >= Len(message[File(i)])
                    /\ changes = 0 =>
                          LET b == sigFile[File(i)] IN
                          /\ b.signature = Signature(key, Digest(b.prehashed, message[File(i)]))
                          /\ b.global = Signature(key, <<b.signature, b.comment>>)
                          /\ job.forcePrehashed => b.prehashed
              /\ out' # out =>
                    box[1].signature = Signature(key, Digest(box[1].prehashed, out'[1]))]_vars
  BY <1>1, OnlySignedVerified, OnlySignedEmitted
<1>2. QED
  BY <1>1, VerifyInvariant, PTL DEF Spec, AcceptedIsSigned
=============================================================================
