------------------------------- MODULE Verify -------------------------------
(***************************************************************************)
(* `minisign -V` of one or several messages (rs/src/ops/verify.rs and      *)
(* handle_verify of rs/src/main.rs).  Messages are read block by block     *)
(* while other programs may rewrite them, the signature files and the      *)
(* public key file.                                                        *)
(*                                                                         *)
(* A message is a sequence of blocks.  A signature is who made it and over *)
(* what: Ed25519 and BLAKE2b are taken to be what they should be, and no   *)
(* message is the hash of another.                                         *)
(***************************************************************************)
EXTENDS Naturals, Sequences, FiniteSets

CONSTANTS
    Files,
    Keys, Num,   \* the public keys, and Num[k]: the key number of k
    Contents,    \* the messages there may be
    Boxes,       \* the signature files there may be, see IsBox
    NoBox,       \* no signature file, or one that cannot be parsed
    Worlds,      \* the files before the run: records of message, sigFile, keyFile
    Jobs,        \* what the run is asked for, see IsJob
    MaxSize,     \* MAX_MESSAGE_SIZE_BYTES, in blocks
    MaxChanges,  \* bound on what other programs do
    MaxFaults    \* bound on the failing calls

Signature(key, what) == [by |-> key, over |-> what]
Digest(prehashed, content) == [hashed |-> prehashed, of |-> content]

IsBox(b) ==
    /\ DOMAIN b = {"num", "prehashed", "signature", "comment", "global"}
    /\ b.prehashed \in BOOLEAN /\ b.signature.by \in Keys /\ b.global.by \in Keys

\* Only a single message may be written to the standard output.
IsJob(j) ==
    /\ j.names \in Seq(Files) \ {<<>>}
    /\ j.output => Len(j.names) = 1
    /\ {j.output, j.forcePrehashed, j.sequential, j.keyGiven} \subseteq BOOLEAN

Blocks == UNION {{c[n] : n \in DOMAIN c} : c \in Contents}

ASSUME ContentsTyped == Contents \subseteq Seq(Blocks)
ASSUME WorldsTyped ==
    \A w \in Worlds :
        /\ w.message \in [Files -> Contents] /\ w.sigFile \in [Files -> Boxes \union {NoBox}]
        /\ w.keyFile \in Keys
ASSUME BoxesTyped == NoBox \notin Boxes /\ \A b \in Boxes : IsBox(b)
ASSUME VerifyJobsTyped == \A j \in Jobs : IsJob(j)
ASSUME VerifyBounds == {MaxSize, MaxChanges, MaxFaults} \subseteq Nat

VARIABLES
    message, sigFile,  \* by file
    keyFile,           \* the key in the public key file
    job,
    pc,        \* key, work, or how the run ended
    key,       \* the public key the run has loaded
    status,    \* status[i]: how far the run is with its i-th name
    box,       \* box[i]: its signature, as loaded
    got,       \* got[i]: the blocks read
    out,       \* the messages written to the standard output
    changes, faults

vars == <<message, sigFile, keyFile, job, pc, key, status, box, got, out, changes, faults>>
disk == <<message, sigFile, keyFile, changes>>

Ended == {"ok", "partial", "total", "err"}
Items == DOMAIN job.names
File(i) == job.names[i]

Fails == faults < MaxFaults /\ faults' = faults + 1
Works == UNCHANGED faults
Set(i, s) == status' = [status EXCEPT ![i] = s]

Init ==
    /\ \E w \in Worlds : message = w.message /\ sigFile = w.sigFile /\ keyFile = w.keyFile
    /\ job \in Jobs
    /\ pc = "key" /\ key = keyFile
    /\ status = [i \in Items |-> "todo"]
    /\ box = [i \in Items |-> NoBox]
    /\ got = [i \in Items |-> <<>>]
    /\ out = <<>> /\ changes = 0 /\ faults = 0

\* load_public_key: the key on the command line, or the one in the file.
LoadKey ==
    /\ pc = "key"
    /\ \/ /\ Works /\ pc' = "work"
          /\ key' \in IF job.keyGiven THEN Keys ELSE {keyFile}
       \/ Fails /\ pc' = "err" /\ UNCHANGED key
    /\ UNCHANGED <<disk, job, status, box, got, out>>

-----------------------------------------------------------------------------
(* One message                                                             *)

KeyFor(i) == key

MayStart(i) ==
    pc = "work" /\ status[i] = "todo"
    /\ (job.sequential => \A j \in Items : j < i => status[j] \in {"verified", "failed"})

\* load_signature
LoadBox(i) ==
    /\ MayStart(i)
    /\ \/ /\ Works /\ box' = [box EXCEPT ![i] = sigFile[File(i)]]
          /\ Set(i, IF sigFile[File(i)] = NoBox THEN "failed" ELSE "loaded")
       \/ Fails /\ Set(i, "failed") /\ UNCHANGED box
    /\ UNCHANGED <<disk, job, pc, key, got, out>>

\* Bug: -H refuses the signatures it should demand.
AdmittedInverted(i) ==
    /\ Num[KeyFor(i)] = box[i].num
    /\ job.forcePrehashed => ~box[i].prehashed

\* The key numbers have to agree, and -H refuses legacy signatures.
Admitted(i) ==
    /\ Num[KeyFor(i)] = box[i].num
    /\ job.forcePrehashed => box[i].prehashed

\* A legacy message is buffered, and so is one that will be written out.
Buffered(i) == ~box[i].prehashed \/ job.output

\* verify_message_signature up to the open file; the size is checked when it is buffered.
Open(i) ==
    /\ pc = "work" /\ status[i] = "loaded"
    /\ \/ /\ Works
          /\ Set(i, IF Admitted(i) /\ (Buffered(i) => Len(message[File(i)]) <= MaxSize)
                    THEN "reading" ELSE "failed")
       \/ Fails /\ Set(i, "failed")
    /\ UNCHANGED <<disk, job, pc, key, box, got, out>>

\* take(MAX_MESSAGE_SIZE_BYTES + 1)
AtCap(i) == Buffered(i) /\ Len(got[i]) = MaxSize + 1

\* The next block of the file, as it is now.
ReadBlock(i) ==
    /\ pc = "work" /\ status[i] = "reading"
    /\ Len(got[i]) < Len(message[File(i)]) /\ ~AtCap(i)
    /\ \/ /\ Works
          /\ got' = [got EXCEPT ![i] = Append(@, message[File(i)][Len(@) + 1])]
          /\ UNCHANGED status
       \/ Fails /\ Set(i, "failed") /\ UNCHANGED got
    /\ UNCHANGED <<disk, job, pc, key, box, out>>

\* Bug: the trusted comment is not looked at.
MessageAuthentic(i) ==
    box[i].signature = Signature(KeyFor(i), Digest(box[i].prehashed, got[i]))

\* crypto_verify and verify_global_signature
Authentic(i) ==
    /\ box[i].signature = Signature(KeyFor(i), Digest(box[i].prehashed, got[i]))
    /\ box[i].global = Signature(KeyFor(i), <<box[i].signature, box[i].comment>>)

\* The end of the file or of what is taken of it, the size again, the signatures.
Judge(i) ==
    /\ pc = "work" /\ status[i] = "reading"
    /\ Len(got[i]) >= Len(message[File(i)]) \/ AtCap(i)
    /\ Works
    /\ Set(i, IF (Buffered(i) => Len(got[i]) <= MaxSize) /\ Authentic(i)
              THEN "verified" ELSE "failed")
    /\ UNCHANGED <<disk, job, pc, key, box, got, out>>

-----------------------------------------------------------------------------
(* The end of the run                                                      *)

\* What was read to be verified, not the file once more.
Emitted == got[1]

\* print_summary; a single message returns its error.
Verdict ==
    LET failed == {i \in Items : status[i] = "failed"} IN
    CASE failed = {} -> "ok"
      [] failed # {} /\ Cardinality(Items) = 1 -> "err"
      [] failed = Items /\ Cardinality(Items) > 1 -> "total"
      [] OTHER -> "partial"

\* Bug: the message is written out whatever the verdict is.
FinishEmitting ==
    /\ pc = "work"
    /\ \A i \in Items : status[i] \in {"verified", "failed"}
    /\ Works /\ pc' = Verdict
    /\ out' = IF job.output THEN <<Emitted>> ELSE out
    /\ UNCHANGED <<disk, job, key, status, box, got>>

Finish ==
    /\ pc = "work"
    /\ \A i \in Items : status[i] \in {"verified", "failed"}
    /\ \/ /\ Works /\ pc' = Verdict
          /\ out' = IF job.output /\ status[1] = "verified" THEN <<Emitted>> ELSE out
       \/ /\ Fails /\ job.output /\ status[1] = "verified"
          /\ pc' = "err" /\ UNCHANGED out
    /\ UNCHANGED <<disk, job, key, status, box, got>>

-----------------------------------------------------------------------------
\* Another program rewrites a file in place: an open file changes as well.
Change ==
    /\ changes < MaxChanges /\ changes' = changes + 1 /\ pc \notin Ended
    /\ \/ /\ \E f \in Files, c \in Contents : message' = [message EXCEPT ![f] = c]
          /\ UNCHANGED <<sigFile, keyFile>>
       \/ /\ \E f \in Files, b \in Boxes \union {NoBox} : sigFile' = [sigFile EXCEPT ![f] = b]
          /\ UNCHANGED <<message, keyFile>>
       \/ keyFile' \in Keys /\ UNCHANGED <<message, sigFile>>
    /\ UNCHANGED <<job, pc, key, status, box, got, out, faults>>

Step ==
    \/ LoadKey \/ Finish
    \/ \E i \in Items : LoadBox(i) \/ Open(i) \/ ReadBlock(i) \/ Judge(i)

Next == Step \/ Change

Spec == Init /\ [][Next]_vars

-----------------------------------------------------------------------------
TypeOK ==
    /\ message \in [Files -> Contents]
    /\ sigFile \in [Files -> Boxes \union {NoBox}]
    /\ keyFile \in Keys /\ key \in Keys /\ job \in Jobs
    /\ pc \in {"key", "work"} \union Ended
    /\ status \in [Items -> {"todo", "loaded", "reading", "verified", "failed"}]
    /\ box \in [Items -> Boxes \union {NoBox}]
    /\ DOMAIN got = Items
    /\ Len(out) <= 1 /\ (out # <<>> => job.output /\ status[1] = "verified")
    /\ changes \in Nat /\ faults \in Nat

(***************************************************************************)
(* A message is verified only once all of the file has been read, even if  *)
(* it has grown since its size was checked: a large file is never taken    *)
(* for the part of it that fits the buffer.  If nobody touched the files,  *)
(* the key signed all of the message, together with the trusted comment.   *)
(* And what -o writes out is what the key signed, whatever has happened to *)
(* the file since ("emit the content captured during verification - not a  *)
(* second read from disk").                                                *)
(***************************************************************************)
AcceptedIsSigned ==
    [][/\ \A i \in Items : status[i] # "verified" /\ status'[i] = "verified" =>
             /\ Len(got[i]) >= Len(message[File(i)])
             /\ changes = 0 =>
                   LET b == sigFile[File(i)] IN
                   /\ b.signature = Signature(key, Digest(b.prehashed, message[File(i)]))
                   /\ b.global = Signature(key, <<b.signature, b.comment>>)
                   /\ job.forcePrehashed => b.prehashed
       /\ out' # out =>
             box[1].signature = Signature(key, Digest(box[1].prehashed, out'[1]))]_vars

(***************************************************************************)
(* Conversely a message that nobody touches is refused only for a reason:  *)
(* the signature is not the key's for this message and comment, it is a    *)
(* legacy one under -H, or the message is too large to be buffered.        *)
(***************************************************************************)
GoodIsAccepted ==
    \A i \in Items : status[i] = "failed" /\ changes = 0 /\ faults = 0 =>
        LET b == sigFile[File(i)] IN
        \/ b = NoBox
        \/ b.num # Num[key]
        \/ b.signature # Signature(key, Digest(b.prehashed, message[File(i)]))
        \/ b.global # Signature(key, <<b.signature, b.comment>>)
        \/ job.forcePrehashed /\ ~b.prehashed
        \/ (~b.prehashed \/ job.output) /\ Len(message[File(i)]) > MaxSize

=============================================================================
