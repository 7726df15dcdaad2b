----------------------------- MODULE AtomicFile -----------------------------
(***************************************************************************)
(* The writers of single key and signature files on Unix                   *)
(* (rs/src/ops/file_utils.rs): atomic_replace_file, write_file with and    *)
(* without force, and atomic_create_secret_key, several of them at once on *)
(* one path.  The directory has a copy in memory and one on disk; a power  *)
(* loss puts back a state between the last directory sync and the present, *)
(* and may tear a file whose data was not synced.                          *)
(***************************************************************************)
EXTENDS Naturals, Sequences, FiniteSets

CONSTANTS
    Overwriters,  \* atomic_replace_file: secret keys, with force
    Replacers,    \* write_file with force: public keys and signatures
    Linkers,      \* atomic_create_secret_key: secret keys, without force
    Plain,        \* write_file without force
    None, Old, Symlink,  \* nothing, a file or a symlink at the path before
    Torn,         \* contents cut short
    BareName,     \* the path has no directory part, as in `-s minisign.key`
    MaxFaults     \* bound on the failing calls

Writers == Overwriters \union Replacers \union Linkers \union Plain
Staged == Writers \ Plain
Creators == Linkers \union Plain
Before == {None, Old, Symlink}

ASSUME DistinctContents ==
    Cardinality(Before \union {Torn}) = 4 /\ Writers \cap (Before \union {Torn}) = {}
ASSUME OneKindEach ==
    /\ Overwriters \cap (Replacers \union Creators) = {}
    /\ Replacers \cap Creators = {} /\ Linkers \cap Plain = {}
ASSUME Switches == BareName \in BOOLEAN /\ MaxFaults \in Nat

VARIABLES
    entries,  \* what the path has named, the present entry last
    durable,  \* the entries before this index are gone even from the disk
    written,  \* the writers whose file holds all its contents
    synced,   \* the writers whose file's data is on disk
    tmp,      \* the writers whose temporary file exists
    pc,       \* pc[w]: the next call of w, or how it ended
    result,   \* result[w]: what w returns once its temporary file is dropped
    warned,   \* the writers that have warned about their temporary file
    faults

vars == <<entries, durable, written, synced, tmp, pc, result, warned, faults>>

Present == entries[Len(entries)]
Ended == {"ok", "err", "killed"}

Fails == faults < MaxFaults /\ faults' = faults + 1
Works == UNCHANGED faults
Goto(w, label) == pc' = [pc EXCEPT ![w] = label]
Return(w, r) == Goto(w, "dropTmp") /\ result' = [result EXCEPT ![w] = r]

Init ==
    /\ entries \in {<<x>> : x \in Before}
    /\ durable = 1
    /\ written = {} /\ synced = {} /\ tmp = {} /\ warned = {}
    /\ pc = [w \in Writers |->
               IF w \in Replacers THEN "checkLink" ELSE IF w \in Plain THEN "create" ELSE "open"]
    /\ result = [w \in Writers |-> "err"]
    /\ faults = 0

-----------------------------------------------------------------------------
\* reject_symlink: write_file with force refuses to replace a symlink.
CheckLink(w) ==
    /\ pc[w] = "checkLink"
    /\ \/ Works /\ Goto(w, IF Present = Symlink THEN "err" ELSE "open")
       \/ Fails /\ Goto(w, "err")
    /\ UNCHANGED <<entries, durable, written, synced, tmp, result, warned>>

\* create_new on a fresh random name.
OpenTmp(w) ==
    /\ pc[w] = "open"
    /\ \/ Works /\ tmp' = tmp \union {w} /\ Goto(w, "write") /\ UNCHANGED result
       \/ Fails /\ Return(w, "err") /\ UNCHANGED tmp
    /\ UNCHANGED <<entries, durable, written, synced, warned>>

\* set_permissions and write_all.
WriteTmp(w) ==
    /\ pc[w] = "write"
    /\ \/ Works /\ written' = written \union {w} /\ Goto(w, "sync") /\ UNCHANGED result
       \/ Fails /\ Return(w, "err") /\ UNCHANGED written
    /\ UNCHANGED <<entries, durable, synced, tmp, warned>>

\* Bug: an error returns at once.
SyncTmpReturning(w) ==
    /\ pc[w] = "sync"
    /\ \/ Works /\ synced' = synced \union {w} /\ Goto(w, "install")
       \/ Fails /\ Goto(w, "err") /\ UNCHANGED synced
    /\ UNCHANGED <<entries, durable, written, tmp, result, warned>>

\* sync_all
SyncTmp(w) ==
    /\ pc[w] = "sync"
    /\ \/ Works /\ synced' = synced \union {w} /\ Goto(w, "install") /\ UNCHANGED result
       \/ Fails /\ Return(w, "err") /\ UNCHANGED synced
    /\ UNCHANGED <<entries, durable, written, tmp, warned>>

\* Bug: Ok as soon as the file has its name.
RenameThenOk(w) ==
    /\ pc[w] = "install" /\ w \notin Linkers
    /\ \/ /\ Works
          /\ entries' = Append(entries, w) /\ tmp' = tmp \ {w}
          /\ Goto(w, "ok") /\ UNCHANGED result
       \/ Fails /\ Return(w, "err") /\ UNCHANGED <<entries, tmp>>
    /\ UNCHANGED <<durable, written, synced, warned>>

\* rename replaces whatever is there and takes the temporary name away.
Rename(w) ==
    /\ pc[w] = "install" /\ w \notin Linkers
    /\ \/ /\ Works
          /\ entries' = Append(entries, w) /\ tmp' = tmp \ {w}
          /\ Goto(w, "syncDir") /\ UNCHANGED result
       \/ Fails /\ Return(w, "err") /\ UNCHANGED <<entries, tmp>>
    /\ UNCHANGED <<durable, written, synced, warned>>

\* hard_link fails with EEXIST when anything is there; both names stay.
Link(w) ==
    /\ pc[w] = "install" /\ w \in Linkers
    /\ \/ /\ Works /\ Present = None
          /\ entries' = Append(entries, w)
          /\ Goto(w, "syncDir") /\ UNCHANGED result
       \/ /\ (Works /\ Present # None) \/ Fails
          /\ Return(w, "err") /\ UNCHANGED entries
    /\ UNCHANGED <<durable, written, synced, tmp, warned>>

\* sync_parent_directory does nothing for a path without a directory part.
SyncDir(w) ==
    /\ pc[w] = "syncDir"
    /\ \E r \in {"ok", "err"} :
          /\ IF r = "ok" THEN Works ELSE Fails /\ ~BareName
          /\ IF w \in Linkers THEN Return(w, r) ELSE Goto(w, r) /\ UNCHANGED result
          /\ durable' = IF r = "ok" /\ ~BareName THEN Len(entries) ELSE durable
    /\ UNCHANGED <<entries, written, synced, tmp, warned>>

\* The temporary file goes; a replacing writer keeps quiet when there is none.
DropTmp(w) ==
    /\ pc[w] = "dropTmp"
    /\ \/ Works /\ w \in tmp /\ tmp' = tmp \ {w} /\ UNCHANGED warned
       \/ /\ Works /\ w \notin tmp /\ UNCHANGED tmp
          /\ warned' = IF w \in Linkers THEN warned \union {w} ELSE warned
       \/ Fails /\ w \in tmp /\ warned' = warned \union {w} /\ UNCHANGED tmp
    /\ Goto(w, result[w])
    /\ UNCHANGED <<entries, durable, written, synced, result>>

\* Bug: staged under a temporary name that nothing drops.
CreateViaTmp(w) ==
    /\ pc[w] = "create"
    /\ \/ /\ Works /\ Present = None /\ tmp' = tmp \union {w}
          /\ entries' = Append(entries, w) /\ Goto(w, "fill")
       \/ /\ (Works /\ Present # None) \/ Fails
          /\ Goto(w, "err") /\ UNCHANGED <<entries, tmp>>
    /\ UNCHANGED <<durable, written, synced, result, warned>>

\* write_file without force: create_new at the path itself, then write_all.
Create(w) ==
    /\ pc[w] = "create"
    /\ \/ /\ Works /\ Present = None
          /\ entries' = Append(entries, w) /\ Goto(w, "fill")
       \/ /\ (Works /\ Present # None) \/ Fails
          /\ Goto(w, "err") /\ UNCHANGED entries
    /\ UNCHANGED <<durable, written, synced, tmp, result, warned>>

Fill(w) ==
    /\ pc[w] = "fill"
    /\ \/ Works /\ written' = written \union {w} /\ Goto(w, "ok")
       \/ Fails /\ Goto(w, "err") /\ UNCHANGED written
    /\ UNCHANGED <<entries, durable, synced, tmp, result, warned>>

-----------------------------------------------------------------------------
\* One process is killed: its files stay as they are.
Kill(w) ==
    /\ pc[w] \notin Ended
    /\ Goto(w, "killed")
    /\ UNCHANGED <<entries, durable, written, synced, tmp, result, warned, faults>>

\* The machine stops: unsynced directory changes and data may be lost.
PowerLoss ==
    /\ \E i \in durable..Len(entries) : entries' = SubSeq(entries, 1, i)
    /\ durable' = Len(entries')
    /\ written' \in {s \union (written \cap synced) : s \in SUBSET written}
    /\ pc' = [w \in Writers |-> IF pc[w] \in Ended THEN pc[w] ELSE "killed"]
    /\ UNCHANGED <<synced, tmp, result, warned, faults>>

Step(w) ==
    \/ CheckLink(w) \/ OpenTmp(w) \/ WriteTmp(w) \/ SyncTmp(w) \/ Rename(w) \/ Link(w)
    \/ SyncDir(w) \/ DropTmp(w) \/ Create(w) \/ Fill(w)

Next == PowerLoss \/ \E w \in Writers : Step(w) \/ Kill(w)

Spec == Init /\ [][Next]_vars

-----------------------------------------------------------------------------
TypeOK ==
    /\ entries \in Seq(Writers \union Before) /\ Len(entries) > 0
    /\ durable \in 1..Len(entries)
    /\ synced \subseteq Writers /\ written \subseteq Writers
    /\ tmp \subseteq Staged /\ warned \subseteq Staged
    /\ pc \in [Writers -> {"checkLink", "open", "write", "sync", "install", "syncDir",
                           "dropTmp", "create", "fill"} \union Ended]
    /\ result \in [Writers -> {"ok", "err"}]
    /\ faults \in Nat

Seen == {entries[i] : i \in 1..Len(entries)}

(***************************************************************************)
(* A staged file that was reported as written is still in the directory's  *)
(* past or present after a power loss (sync_parent_directory: "Required    *)
(* ... to guarantee that the new directory entry survives a crash").       *)
(***************************************************************************)
OkSurvivesPowerLoss == \A w \in Staged : pc[w] = "ok" => w \in Seen

(***************************************************************************)
(* A writer that failed has removed its temporary file or has warned that  *)
(* it could not ("The temp file is removed on any failure").               *)
(***************************************************************************)
FailureLeavesNoTmp == \A w \in Staged : pc[w] \in {"ok", "err"} => w \notin tmp \/ w \in warned

(***************************************************************************)
(* The writers implement OutputFile; the staged ones are its Durable.      *)
(***************************************************************************)
Outcome(w) ==
    CASE pc[w] \in {"ok", "err"} -> pc[w]
      [] pc[w] = "killed" -> "lost"
      [] OTHER -> "running"

Contents(x) == IF x \in Staged \ written THEN Torn ELSE x

History == [i \in 1..Len(entries) |-> Contents(entries[i])]
Outcomes == [w \in Writers |-> Outcome(w)]

Promise == INSTANCE OutputFile WITH
    Durable <- Staged, history <- History, outcome <- Outcomes

KeepsPromise == Promise!Spec
=============================================================================
