------------------------------ MODULE BatchSign -----------------------------
(***************************************************************************)
(* `minisign -S` with several messages: sign_multiple_files_with_key and   *)
(* what it calls (rs/src/ops/sign.rs).  A run drops duplicate names,       *)
(* refuses a batch in which a signature would land on an input, decrypts   *)
(* the key once, signs the files one after the other or on a pool of       *)
(* threads, and sums up.  Several runs may work in the same directory.     *)
(*                                                                         *)
(* A location is a directory entry; a name that occurs twice in a batch    *)
(* stands for two spellings of one location, as `m` and `./m`.             *)
(***************************************************************************)
EXTENDS Naturals, Sequences, FiniteSets

CONSTANTS
    Runs,
    Locs,         \* the directory entries
    SigOf,        \* SigOf[l]: where the signature of the message at l goes
    Directories,  \* what the directory may hold before
    KeyLocs,      \* where the secret key may be
    Jobs,         \* what the runs may be asked for, together: see JobType
    MaxFaults     \* bound on the failing calls

ModeType == [force : BOOLEAN, legacy : BOOLEAN, sequential : BOOLEAN]

JobType == [names : Seq(DOMAIN SigOf), mode : ModeType]

Nothing == [kind |-> "none"]
Data(l) == [kind |-> "data", at |-> l]
LinkTo(l) == [kind |-> "link", to |-> l]

Entry == {Nothing} \union {Data(l) : l \in Locs} \union {LinkTo(l) : l \in Locs}

ASSUME JobsTyped == Jobs \subseteq [Runs -> JobType]
ASSUME SignatureNamesDiffer ==
    \A l, m \in DOMAIN SigOf : SigOf[l] # l /\ (SigOf[l] = SigOf[m] => l = m)
ASSUME DirectoriesTyped == Directories \subseteq [Locs -> Entry] /\ KeyLocs \subseteq Locs
ASSUME SignaturesTyped == DOMAIN SigOf \subseteq Locs /\ \A l \in DOMAIN SigOf : SigOf[l] \in Locs
ASSUME BatchFaults == MaxFaults \in Nat

VARIABLES
    file,     \* file[l]: the entry at l
    keyLoc,   \* where the secret key is
    batch,    \* batch[r]: the names given to r
    mode,     \* mode[r]: --force, -l, --sequential
    pc,       \* pc[r]: the phase of r, or how it ended
    status,   \* status[r][i]: how far r is with the i-th name
    got,      \* got[r][i]: the message r has read for it
    faults

vars == <<file, keyLoc, batch, mode, pc, status, got, faults>>
given == <<keyLoc, batch, mode>>

Signature(r, message) == [kind |-> "sig", by |-> r, over |-> message]
Partial(r) == [kind |-> "partial", by |-> r]

Exists(l) == file[l] # Nothing

\* canonicalize: a final symlink is followed.
Canonical(l) == IF file[l].kind = "link" THEN file[l].to ELSE l

Ended == {"ok", "partial", "total", "err"}
Items(r) == DOMAIN batch[r]

\* Bug: a file named twice is signed twice.
KeptAll(r) == Items(r)

\* The names that are left when every file is kept once, the first one.
Kept(r) == {i \in Items(r) :
              \A j \in 1..(i - 1) : Canonical(batch[r][j]) # Canonical(batch[r][i])}

\* The items r goes on with once they are fixed.
Todo(r) == {i \in Items(r) : status[r][i] # "dropped"}

Fails == faults < MaxFaults /\ faults' = faults + 1
Works == UNCHANGED faults
Goto(r, phase) == pc' = [pc EXCEPT ![r] = phase]
Set(r, i, s) == status' = [status EXCEPT ![r][i] = s]

Init ==
    /\ file \in Directories
    /\ keyLoc \in KeyLocs
    /\ \E jobs \in Jobs :
          /\ batch = [r \in Runs |-> jobs[r].names]
          /\ mode = [r \in Runs |-> jobs[r].mode]
    /\ pc = [r \in Runs |-> "check"]
    /\ status = [r \in Runs |-> [i \in DOMAIN batch[r] |-> "todo"]]
    /\ got = [r \in Runs |-> [i \in DOMAIN batch[r] |-> Nothing]]
    /\ faults = 0

-----------------------------------------------------------------------------
\* Bug: names are compared, not what they lead to.
AliasesByName(output, others) == output \in others

\* reject_output_alias: would the entry of the output be one of these files?
Aliases(output, others) == \E o \in others : Canonical(o) = output

\* The whole batch is checked before anything is written.
BatchAliases(r) ==
    \E i \in Kept(r) :
        Aliases(SigOf[batch[r][i]], {batch[r][j] : j \in Kept(r)} \union {keyLoc})

\* Bug: the list is cut to what is left.
CheckCutting(r) ==
    /\ pc[r] = "check"
    /\ Works
    /\ Goto(r, IF (\E i \in Items(r) : ~Exists(batch[r][i])) \/ BatchAliases(r)
               THEN "err" ELSE "work")
    /\ status' = [status EXCEPT ![r] = [i \in Kept(r) |-> "todo"]]
    /\ UNCHANGED <<file, given, got>>

\* Deduplication, the alias check and the decryption of the key.
Check(r) ==
    /\ pc[r] = "check"
    /\ \/ /\ Works
          /\ Goto(r, IF (\E i \in Items(r) : ~Exists(batch[r][i])) \/ BatchAliases(r)
                     THEN "err" ELSE "work")
          /\ status' = [status EXCEPT ![r] =
                          [i \in Items(r) |-> IF i \in Kept(r) THEN "todo" ELSE "dropped"]]
       \/ Fails /\ Goto(r, "err") /\ UNCHANGED status
    /\ UNCHANGED <<file, given, got>>

\* Legacy mode buffers whole messages, and is sequential to bound the memory.
InOrder(r) == mode[r].sequential \/ mode[r].legacy

\* Bug: a failure stops the items after it.
MayStartAfterSuccess(r, i) ==
    /\ pc[r] = "work" /\ status[r][i] = "todo"
    /\ InOrder(r) => \A j \in Todo(r) : j < i => status[r][j] = "signed"

MayStart(r, i) ==
    /\ pc[r] = "work" /\ status[r][i] = "todo"
    /\ InOrder(r) => \A j \in Todo(r) : j < i => status[r][j] \in {"signed", "failed"}

\* create_signature, up to the signature: the message is read.
Read(r, i) ==
    /\ MayStart(r, i)
    /\ LET l == batch[r][i] IN
       \/ /\ Works
          /\ Exists(l) /\ ~Aliases(SigOf[l], {l, keyLoc})
          /\ got' = [got EXCEPT ![r][i] = file[Canonical(l)]]
          /\ Set(r, i, "read")
       \/ /\ (Works /\ (~Exists(l) \/ Aliases(SigOf[l], {l, keyLoc}))) \/ Fails
          /\ Set(r, i, "failed") /\ UNCHANGED got
    /\ UNCHANGED <<file, given, pc>>

\* Bug: no create_new.
RefusedLinks(r, l) == file[l].kind = "link"

\* Does write_signature_file refuse what is at l?
Refused(r, l) == IF mode[r].force THEN file[l].kind = "link" ELSE Exists(l)

\* write_signature_file: without force, a failing write leaves a partial file.
Write(r, i) ==
    /\ pc[r] = "work" /\ status[r][i] = "read"
    /\ LET l == SigOf[batch[r][i]] IN
       \/ /\ Works /\ ~Refused(r, l)
          /\ file' = [file EXCEPT ![l] = Signature(r, got[r][i])]
          /\ Set(r, i, "signed")
       \/ /\ (Works /\ Refused(r, l)) \/ Fails
          /\ Set(r, i, "failed") /\ UNCHANGED file
       \/ /\ Fails /\ ~mode[r].force /\ ~Exists(l)
          /\ file' = [file EXCEPT ![l] = Partial(r)]
          /\ Set(r, i, "failed")
    /\ UNCHANGED <<given, pc, got>>

\* Bug: any for all.
VerdictAny(r) ==
    IF \E i \in Todo(r) : status[r][i] = "failed" THEN "total" ELSE "ok"

\* How a run of several items ends (print_summary); a single one returns its error.
Verdict(r) ==
    LET failed == {i \in Todo(r) : status[r][i] = "failed"} IN
    IF failed = {} THEN "ok"
    ELSE IF Cardinality(Todo(r)) = 1 THEN "err"
    ELSE IF failed = Todo(r) THEN "total" ELSE "partial"

Summarise(r) ==
    /\ pc[r] = "work"
    /\ \A i \in Todo(r) : status[r][i] \in {"signed", "failed"}
    /\ Goto(r, Verdict(r))
    /\ UNCHANGED <<file, given, status, got, faults>>

Step(r) == Check(r) \/ Summarise(r) \/ \E i \in Items(r) : Read(r, i) \/ Write(r, i)

Next == \E r \in Runs : Step(r)

Spec == Init /\ [][Next]_vars

\* Every run keeps going: the pool hands out every item.
FairSpec == Spec /\ \A r \in Runs : WF_vars(Step(r))

-----------------------------------------------------------------------------
TypeOK ==
    /\ DOMAIN file = Locs
    /\ \A l \in Locs : file[l].kind \in {"none", "data", "link", "sig", "partial"}
    /\ keyLoc \in KeyLocs
    /\ [r \in Runs |-> [names |-> batch[r], mode |-> mode[r]]] \in Jobs
    /\ pc \in [Runs -> {"check", "work"} \union Ended]
    /\ \A r \in Runs :
          /\ status[r] \in [Items(r) -> {"todo", "dropped", "read", "signed", "failed"}]
          /\ DOMAIN got[r] = Items(r)
    /\ faults \in Nat

\* The files a run was given: by entry and by what a symlink leads to.
Inputs(r) ==
    LET names == {batch[r][i] : i \in Items(r)} \union {keyLoc} IN
    names \union {Canonical(l) : l \in names}

(***************************************************************************)
(* A run never changes a message of its batch or the secret key, whatever  *)
(* the names alias ("Signing refuses a signature path that resolves to a   *)
(* message being signed or to the secret key", SECURITY.md).               *)
(***************************************************************************)
InputsIntact ==
    [][\A r \in Runs : status'[r] # status[r] /\ pc[r] = "work" =>
          \A l \in Inputs(r) : file'[l] = file[l]]_vars

(***************************************************************************)
(* The exit status tells what is on disk: ok, every file kept is signed;   *)
(* total, none is; partial, some are and some are not.  A later run with   *)
(* --force may have replaced a signature.                                  *)
(***************************************************************************)
Wrote(r, i) ==
    LET entry == file[SigOf[batch[r][i]]] IN
    entry.kind = "sig" /\ (entry.by = r \/ mode[entry.by].force)

ExitTellsTruth ==
    \A r \in Runs :
        LET mine == {i \in Todo(r) : file[SigOf[batch[r][i]]] = Signature(r, got[r][i])} IN
        /\ pc[r] = "ok" => \A i \in Todo(r) : Wrote(r, i)
        /\ pc[r] \in {"total", "err"} => mine = {}
        /\ pc[r] = "partial" => mine # Todo(r) /\ \E i \in Todo(r) : Wrote(r, i)

(***************************************************************************)
(* A run never fails against its own signature, as it would if a message   *)
(* named twice were signed twice ("Deduplicate files to prevent race       *)
(* conditions when signing the same file multiple times").                 *)
(***************************************************************************)
NeverAgainstItself ==
    \A r \in Runs : \A i \in Items(r) :
        status[r][i] = "failed" => file[SigOf[batch[r][i]]] # Signature(r, got[r][i])

(***************************************************************************)
(* Of the runs without --force that sign one message, one at most creates  *)
(* the signature (test_concurrent_signature_creation).                     *)
(***************************************************************************)
SignedOnce ==
    \A r, q \in Runs : \A i \in Items(r), j \in Items(q) :
        /\ status[r][i] = "signed" /\ ~mode[r].force
        /\ status[q][j] = "signed" /\ ~mode[q].force
        /\ batch[r][i] = batch[q][j]
        => r = q /\ i = j

(***************************************************************************)
(* A failing file never stops the rest: every run reaches its summary.     *)
(***************************************************************************)
EveryBatchEnds == <>(\A r \in Runs : pc[r] \in Ended)
=============================================================================
