# minisign_rs in TLA+

`minisign_rs` (`rs/`) is a Rust implementation of minisign: it generates Ed25519
key pairs, keeps the secret key in a password-encrypted file, signs files,
verifies signatures, and may keep the password in the credential store of the
operating system. The repository also holds the C minisign (`src/`), the
reference it has to interoperate with.

The program is a set of short commands. What is hard about it is not any one
command but what they share: a directory, a key file, a credential store, and a
file format with another program. These modules model that sharing.

Paths in this file, as in the comments of the modules, are relative to the
repository.

## 1. Inventory

| Component | Source | State | Operations |
|---|---|---|---|
| Key pair writer | `rs/src/ops/generate.rs` | two final paths, temporary and `.bak` files, the `.force.lock` file | `write_keypair_files_create_new`, `write_keypair_files_with_overwrite`, `acquire_force_overwrite_lock`, commit, rollback |
| Single file writers | `rs/src/ops/file_utils.rs` | one path, its temporary file, what is durable | `atomic_replace_file`, `atomic_create_secret_key`, `write_file`, `sync_parent_directory` |
| Secret key file | `rs/src/keys.rs`, `crypto.rs`, `ops/change.rs`, `ops/inspect.rs`, `ops/recreate.rs` | key number, secret and checksum, encrypted or not; scrypt limits | new, parse, decrypt, re-encrypt, decode limits, inspect |
| Commands around one key | `rs/src/main.rs`, `credential_store.rs` | the key file, the store, the password in hand | load, budget check, get, prompt, use, change, save, forget |
| Signing | `rs/src/ops/sign.rs` | messages, signatures, a thread pool | deduplicate, alias check, read, sign, write, summarise |
| Verification | `rs/src/ops/verify.rs` | messages, signatures, a public key, a thread pool | load, check, stream, judge, write out |
| Text of signatures, public and secret keys | `rs/src/signature.rs`, `keys.rs`, `validation.rs`; `src/minisign.c`, `src/helpers.c` | lines, comments, line ends | sign, publish, keep, rekey, parse, in both programs |
| Inspection | `rs/src/ops/inspect.rs` | none | what a file is taken for, what is said of the scrypt limits |
| Command line | `rs/src/cli.rs`, `main.rs`; `src/minisign.c` | none | take bundles apart, look for options, refuse, dispatch; getopt |
| Display, word list, errors | `rs/src/wordlist.rs`, `errors.rs` | none | pure |

They interact through the file system, never through memory: `generate`, `change`
and `recreate` write through the single file writers or the key pair writer;
every command loads the key file once and acts on the copy later, for seconds,
without a lock; the credential store is keyed by an id that is computed from the
key file, and is changed before or after the file in a call of its own. Inside a
process only signing and verification use threads, and these share nothing but
the directory.

Behaviours that are hard to test here:

- two processes between any two file system calls of one another (`-G` with
  `-G`, with and without `--force`; `-S` with `-S`; a command with `-K`);
- a call that fails half way, and the undo of what was done before it, which may
  fail too;
- a process that is killed, and a machine that loses power, between the write,
  the sync, the rename or link and the directory sync;
- a lock file whose age is read in one call and that is removed in another;
- a key file, a credential and a message that change after they were looked at;
- a credential store that fails, or that drops or cuts what it said it saved;
- options that are bundled, reordered and glued to their values, and still have to
  mean what the C program takes them for;
- limits and lengths: the scrypt parameters of a damaged file, a message at the
  size limit that grows, a comment that just fits or just does not fit a buffer
  of the C program.

`PROJECT.json` lists each of these hazards at its line, with the property that
covers it or the reason why none does.

## 2. Modules

| Module | Models | Role |
|---|---|---|
| `KeypairFiles` | directory, temporary files, steps shared by both key pair writers | extended by the next two |
| `KeypairCreate` | `-G` | component |
| `KeypairOverwrite` | `-G --force` | component |
| `Keypair` | runs of both kinds over one directory | composition |
| `OutputFile` | what a file writer promises | abstract specification |
| `AtomicFile` | the Unix writers of one file, with power loss | implements `OutputFile` |
| `KeyFile` | one secret key file over its life | component |
| `CommandLine` | from the arguments to the command, here and with getopt | extended by `KeySession` |
| `KeySession` | `-G`, `-S`, `-I`, `-R`, `-K`, the key file and the credential store | component |
| `BatchSign` | `-S` of several messages, several runs | component |
| `Verify` | `-V` of several messages in a changing directory | component |
| `FileText` | signature, public key and secret key files of both programs, and what `-I` takes them for | component |
| `KeypairCreateProofs`, `KeypairOverwriteProofs`, `AtomicFileProofs`, `KeySessionProofs`, `BatchSignProofs`, `VerifyProofs`, `KeyFileProofs`, `FileTextProofs` | | theorems, see 6 |
| `MC*` | | instances for TLC |

`Keypair` composes `KeypairCreate` and `KeypairOverwrite`; `AtomicFile` instantiates
`OutputFile` with a refinement mapping; `KeySession` starts its commands with
`CommandLine`. In `KeySession`, `BatchSign` and
`KeyFile` a write of a file is one step: `AtomicFile` is where it is taken apart,
and its promise (all of the contents at once, never over a file when creating) is
what justifies the single step.

### How state and actions correspond to the code

**KeypairFiles, KeypairCreate, KeypairOverwrite.** `file[path]` is whose pair is
at `secret_path` or `public_path`; `lock` is the lock file with its creator and
whether its age is past `2 * FORCE_OVERWRITE_LOCK_TIMEOUT`; `pc[p]` is the next
file system call of run `p`, `tmp[p]` and `bak[p]` its temporary and backup
files, `told[p]` what it wrote to stderr. Every file system call is one step, and
may fail. A backup or a temporary name is random in the code, so it belongs to
one run. `Crash(p)` kills a run between two calls. `LockAges` lets the lock file
go stale; with `SlowHolders = FALSE` only that of a run which is dead. The
rollback is entered at the stage that the failing commit step names, as
`CommitKeypairFilesError` carries it.

**AtomicFile.** `entries` is what the path has named, one entry per rename, link
or creation; `durable` is the entry of the last directory sync. `PowerLoss`
returns to any entry since then and may tear files whose data were not synced.

**KeyFile.** A field is a value and the set of pads it is XORed with, so that
encryption and decryption with one pad cancel. `opslimit` and `memlimit` are
numbers, scaled down, and their encoding and decoding are the arithmetic of
`calculate_kdf_params` and `decode_kdf_params`, in its order. `Rot` damages one
field. `file.past` remembers what the properties are about: the last password,
whether anything rotted, and whether it did so in the unencrypted form.

**CommandLine.** An argument is its dashes and its letters. `expand_combined_flags`
and `parse_args` are the functions of that name, with pico_args modelled from its
calls: `TakeFlag` and `TakeValue` remove an option wherever it stands. `Command` adds
the usage errors of the handlers. `getopt` reads the same arguments letter by letter and
from left to right, as the `while` loop of `src/minisign.c` does, but with the options
of this program: what is compared is the way they are read, not which there are. Along
the way `Scan` notes whether anything is `odd`: a value or a file that looks like an
option, whether or not a later one replaces it, or the `--` that announces one.

**KeySession.** A process starts with the arguments it was given (`Start`) and becomes
the command `cmd[p]` that the parser and the handler make of them; `asked[p]` is what
getopt reads. `loaded[p]` is the copy of the key file that the handler acts on;
`Rekey` loads it a second time, as `change` does; `fresh[p]` is the key file about to
be written. `Exists` and `Install` are `-G`. An encrypted file has a credential id of
its own, because each encryption takes a fresh salt; all unencrypted versions of a key
pair share one. The store is external and modelled from how `credential_store.rs` uses
it; with `LossyStore` it may drop or cut a secret and report success, which is what the
read-back in `main.rs` looks for. `told[p]` is what became of the calls of the store,
said to the user or not.

**BatchSign.** A location is a directory entry, perhaps a symlink. `Check` is the
deduplication and the alias check of the whole batch, `Read` and `Write` are the
two ends of signing one message, which other items and other runs may come
between. In legacy or sequential mode the items are taken in order.

**Verify.** A message is a sequence of blocks and is read block by block;
`Change` rewrites a message, a signature file or the key file at any moment. The
signature records who made it and over what: Ed25519 and BLAKE2b are ideal.

**FileText.** A file is a sequence of lines, each with its kind (the prefix), its
comment and its ending. Lengths are the real byte lengths; of a comment's bytes only
the worst one counts, and whether its words name a kind of key. `RustSign`,
`RustPublish`, `RustKeep`, `RustRekey` and `CSign`, `CPublish`, `CKeep`, `CRekey` write
(`Keep` makes a secret key file, `Rekey` writes it again after a change of password:
here with the comment of its new kind, in C with the one that was there); `Edit` converts line ends, cuts or adds the last line feed or a blank
line, rewords a comment or drops a prefix; the operators named `...Reads...` are the
parsers. `Inspected` is what `-I` takes a file for: first by its comment, then by
whichever parser accepts it. `CSign` is both builds of the C program: CMake's default
MinSizeRel defines NDEBUG, so that a line feed in a comment passes and makes two lines;
with the assertions the program aborts, and some whole lines may be in the file.

## 3. Plan

The order is that of the damage a mistake does: a destroyed key before a lost
password, before a missing signature, before a file the other program refuses.

Done:

1. the key pair writers, alone and together (`KeypairFiles`, `KeypairCreate`,
   `KeypairOverwrite`, `Keypair`), and their theorems;
2. the writers of one file against `OutputFile`, with power loss, and the theorem
   that they implement it;
3. the commands around one key and the credential store (`KeySession`), from the
   command line on (`CommandLine`), and their theorems;
4. signing and verification of several files (`BatchSign`, `Verify`), and their
   theorems;
5. the secret key file (`KeyFile`), and its theorems;
6. the text of signatures, public keys and secret keys, and what inspection takes
   a file for (`FileText`), and its theorems.

Left:

- the overwrite of a secret key outside Unix (`rs/src/ops/file_utils.rs:123-190`),
  as a second implementation of `OutputFile`;
- `write_file` of the C program and its signing and verifying as sequences of calls;
- liveness of the commands of `KeySession`.

## 4. Runs

| Run | Instance | What it shows |
|---|---|---|
| `keypair_create` | 3 runs of `-G`, 2 failing calls, each run may be killed | one winner; a failure without a warning leaves no key; no two pairs side by side; nobody else's file is touched |
| `keypair_overwrite` | 2 runs of `-G --force`, 3 failing calls, one may be killed | the lock excludes; a failure is undone or the run says that it could not; a key is destroyed only when a complete pair replaces it; every other run ends, a dead run's lock included |
| `stale_lock` | 2 runs, a lock left over, nothing fails | **violated**: the slower waiter removes the faster one's new lock |
| `mixed_modes` | one `-G`, one `-G --force`, nothing fails | **violated**: the losing `-G` removes the other's secret key |
| `atomic_file` | one writer of each of the four kinds on one path, 2 failing calls, kills, any number of power losses | the writers implement `OutputFile` and clean up |
| `bare_name` | one overwriting writer of `-s minisign.key` | **violated**: Ok is not durable |
| `key_session` | any two of 43 command lines, a store that may drop or cut, 2 failing calls, kills | options are read as getopt reads them or refused; what the store holds opens the file it is filed under; the old password goes; what is said of a save is so |
| `store_failure` | one `-K`, one failing call | **violated**: a store that fails ends the command |
| `batch_sign` | two runs, six directory entries, one failing call | the exit code tells what was signed; no signature lands on an input, the key or its own message; no message is signed twice; every run ends |
| `verify` | one or two messages of 1 to 4 blocks, a limit of 2, a change of any one file at any moment, one failing call | what nobody touches and is good is accepted; what is accepted, and what is written out, is what the key's owner signed, whatever changes meanwhile |
| `key_file` | 2 processes, 2 passwords, 2 writes, 1 damaged field | a file opens with its password and no other, as the same key or not at all; key derivation stays within the budget; limits decode to what was encoded or not at all; `-I` foretells what a use comes to |
| `file_text` | signatures, public keys and secret keys of both programs, comments at each limit, with each kind of bad byte and naming a kind of key, 3 edits | each program reads what the other wrote; Rust accepts no signature that C refuses, and reads the keys that C reads; `-I` takes a key for the kind it is |

Why the bounds are enough. Three runs of `-G` are the least for one to undo while
two others race for what it freed; two failing calls are the least for a failure
and a failed undo. The overwrite needs three failures: one that starts the
rollback, one in the rollback of each file. A third run under the lock would wait
like the second, and the theorems of section 6 hold for any number, under the premise
named there. Four writers are one of each kind; what they do to each other depends on the kind alone, and
the theorems again cover any number. Two commands suffice for the store because a
property relates the file to one id, which one command wrote and another changed;
the theorems hold for any number. The 43 command lines hold every action with every
option that its handler reads, in several spellings, and one of each way to be
refused.
Six directory entries hold a message, its signature, the signature's signature, a
second pair and the key, and the second message may be a link to the first one or
to its signature. A message of one block more than the limit, and one of exactly
the limit, are both in `verify`; the block that appears between the stat and the
read is one change. In `key_file` the limits are the source's shifted down by 17
bits, so that overflow, the budget, the weak threshold and an exact multiple each
have a value on both sides. Lengths in `file_text` are not scaled. Three edits are too
few for blank lines to draw a key file out past the 4096 bytes that the Rust program
reads; the proof needs that case, and `ReadersAgree` excepts it.

The four violated runs state what the repository says of itself. In order:

- `stale_lock`, `YoungLockKept`: `acquire_force_overwrite_lock`
  (`rs/src/ops/generate.rs:735`) removes by name the lock whose age it has read in
  an earlier call. `rs/tests/unit/ops/generate.rs:607` says "a lock younger than
  the stale threshold must not be removed".
- `mixed_modes`, `CreateLeavesOthersAlone`: `write_keypair_files_create_new`
  (`rs/src/ops/generate.rs:572`) undoes its secret key by name, and takes no lock.
  `rs/SECURITY.md:99` says that without `--force` "an existing file is never
  overwritten". What happens here goes further: the existing key is removed.
- `bare_name`, `OkSurvivesPowerLoss`: `sync_parent_directory`
  (`rs/src/ops/file_utils.rs:77`) does nothing for an empty parent.
- `store_failure`, `StoreErrorsNeverBlock`: `get_password_with_credential_store`
  (`rs/src/main.rs:181`) passes the store's error on, with the user at hand to be
  asked. `rs/docs/USAGE.md:340` says "Credential store errors never block
  operations", line 271 of it that the program falls back to the prompt, and
  `rs/src/credential_store.rs:85` that callers should.

Each property of the other runs is also shown to depend on the code: `PROJECT.json`
names for each a changed definition (a dropped guard, a missing clean-up, a swapped
order; the operators marked `Bug:` in the modules) under which TLC finds it violated.

## 5. Fairness

Two properties are liveness; all others are checked under the plain specification.

- `EveryOverwriteEnds` assumes `FairOverwriteSpec`: weak fairness of the steps of
  each run, since the operating system schedules every process, and of `LockAges`,
  since the clock goes on. Nothing is assumed of `Crash` or of failures, which a
  bound limits. A run waits at most `MaxPolls` polls, for the 30 seconds of
  `FORCE_OVERWRITE_LOCK_TIMEOUT`, and then fails: ending includes that.
- `EveryBatchEnds` assumes weak fairness of the steps of each run: a rayon pool
  takes every item from its queue, and the sequential loop goes through its list.

`CHECK_DEADLOCK FALSE` stands in every configuration because commands end: a state
in which all of them have is a state without successor.

## 6. Proofs

The theorems hold for every set of processes, files, passwords and so on, every bound
on failing calls, and every set of processes that may be killed; what else a module
assumes of its constants is named below. 40 theorems are listed in `PROJECT.json`; the
rest are lemmas. They state every property that a run checks, but for the two liveness
properties and the four that runs refute.

Induction over the naturals is by least counterexample throughout: the numbers for which
a fact fails have a least one (`LeastExists`), which is not 0 and whose predecessor would
be one too. In this way the recursive functions of the models (the powers of two, the sum
of the lengths of lines, the parser's loop over the options, getopt's loop over the
arguments) are shown to exist and to have the properties that are used.

**`KeypairCreateProofs`.** `CreateTypeCorrect`, `OkStaysInstalled`, `FailureIsClean`,
`PairsNeverMixed`, `ForeignFilesAreKept`, `RaceHasOneWinner`. Assumed: `None`, `Old` and the processes
are different values and the fault bound is a number. The properties speak of runs
that have ended and are not inductive; `CreateInv` adds what a run owns at each
point of its program (`OwnInv`): nothing before the first link, the secret key
alone until the public one is linked, the pair until an undo starts. A link takes
effect only on an empty path and a removal only on the run's own file, so another
run's step leaves this true. That removal *by name* hits the run's own file is a
consequence of the invariant, not an assumption; it is what fails in `mixed_modes`.
`RaceHasOneWinner` needs at least one run, and `RaceInv`: without a fault and over an
empty directory nobody fails until one has linked the secret key, and that run goes
through.

**`KeypairOverwriteProofs`.** `OverwriteTypeCorrect`, unconditionally; `LockExcludes`,
`CommitIsComplete`, `KeysSurvive`, `FailureUndone` and `MixNeedsCritical` for any number
of runs as long as `[]RightlyStale`, that is, as long as no run is about to remove a lock
file as stale while another run is under the lock. The code does not see to that: the age
is read in one call and acted on in the next, by name. With a lock file left over and two
runs that wait for it the premise fails, and `stale_lock` is the counterexample. For two
runs, no lock file left over at the start and no run that holds it for longer than the
stale age (`TwoRuns`, the class of the run `keypair_overwrite`), the premise is itself a theorem,
`TwoRunsBreakRightly`: by `BreakInv` a stale lock file is that of a run that has ended, so
only the other run can find it. `TwoRunsOverwriteSafely` puts these together: the five
properties for two runs, either of which may be killed anywhere, recovery of the other
from the lock it leaves included, and any calls of which may fail. `OverwriteInv` is the
type, `LockInv` (who is inside the lock owns the lock file) and for each run what it
has staged, backed up and committed (`SecretInv`, `PublicInv`, `BackupInv`). That a
run is alone makes its view of the directory exact; that no key is destroyed then
follows call by call. `FailureUndone` adds `UndoneInv`: at each stage of the rollback
of a run that has not printed CRITICAL, what it has no more aside, no more in place, and
what it has put back. `MixNeedsCritical` adds `PairInv`: what a run has aside and what is
in place belong together, until somebody prints CRITICAL.

**`AtomicFileProofs`.** `AtomicTypeCorrect`; `WritersAreTidy`; and
`WritersKeepPromise`, that `AtomicFile` implements `OutputFile` for any number of
writers of each kind, any failures, kills and power losses, if the path has a
directory part (`BareName = FALSE`: `bare_name` shows why). `PromiseInv` says of each
writer that its file reaches the path only whole and synced (`FileInv`) and that a
writer that returned Ok, or is about to once its temporary file is gone, has its
entry at or before the last directory sync (`DiskInv`). With it the history of
`OutputFile` is the sequence of entries; a rename, a link or a creation is
`TakeEffect`, a call that ends the writer is `Succeed` or `GiveUp`, a power loss is
`PowerLoss`, and every other call changes nothing that the promise speaks of.

**`KeySessionProofs`.** `SessionTypeCorrect`, `StoredPasswordsOpen`, `OldPasswordsGo`,
`SavesAreAnswered`, and `CommandsReadAsGetopt`, for any commands, any command lines and any
passwords. Assumed: the names of the special values differ (`NamesDiffer`,
`NothingIsNoOption`), the bound and the switch have their types (`SessionBounds`), and
command lines are sequences of arguments (`CommandLinesTyped`). That a command is one action comes from `parse_args` refusing two and
the handlers refusing none (`OneAction`). `LocalInv` says of each command, at each point
of its handler, which handler it is in (`RouteInv`), whose file it is about to write
(`ReadyInv`), that a password to be saved has opened what was loaded (`HeldInv`), and
what it has said (`ToldInv`). `FilesInv` says that every version of the file that anyone
can see was written once, by a command that is past that point; so an id stands for one
password, and `StoreInv` says what each entry of the store can be. `GoneInv` and
`SavedInv` carry the other two properties over the last steps of a command.

`CommandsReadAsGetopt` is about two algorithms that have nothing in common: getopt goes
from left to right, and this program takes bundles apart and then searches the whole line
once for each option. The argument goes through what both make of *tokens*, arguments of
one letter each. As long as nothing odd has come, getopt is after each argument where it
would be after the tokens it is taken apart into (`ScanReads`, `ScannedReads`), and then an
option that takes a value is followed by a bare argument (`NothingOddIsApart`). On such
tokens, taking an option with its value out, wherever the first one stands, and having it
on from the start changes nothing in getopt's reading of the rest (`FlagOut`, `ValueOut`);
this is the invariant of the parser's loop (`Sound`). When every option has been looked
for, what is left is bare, and are the files (`FilesLeft`), or it is an option that is
unknown or there twice, which getopt refuses too (`OptionLeft`). `AskedInv` ties this to
the processes.

**`BatchSignProofs`.** `BatchTypeCorrect`, `ExitIsTrue`, `NoRunAgainstItself`,
`SignatureCreatedOnce`, `BatchKeepsInputs`, for any runs, names, directories and jobs.
Assumed: the constants have their types, and two names have different signature names
(`SignatureNamesDiffer`; the code appends `.minisig`). `BatchInv` is the shape and, of
each run, that the check comes first (`OrderInv`), that the items left after it have
different names (`DistinctInv`, by the least index of each), that signed means written
(`SignedInv`, `ByInv`), what the exit status counts (`EndInv`), and that no signature
will land on what a name of the batch or the key leads to (`ClearInv`), which stays true
because the runs leave symlinks alone and make none.

**`VerifyProofs`.** `VerifyTypeCorrect`, `GoodNeverRefused`, `OnlySignedAccepted`, for
any files, keys, contents and boxes, any limit and any number of changes. Assumed: the
constants have their types. `VerifyInv` is the shape, the order of the steps
(`OrderInv`), that what has been read of a message nobody touched is how it begins
(`ReadInv`), and what a judgement was based on (`JudgedInv`).

**`KeyFileProofs`.** `FileOpens`, `OnlyTheGenuineKey`, `KdfInBudget`, for any processes
and passwords, any limits and widths, any number of writes and of damaged fields.
Assumed: `KeyFileAssumption`, the types of the numbers. `KeyFileInv` says of the file and
of every copy somebody has loaded (`GoodFile`) that it is one of the two things the
writers make if nothing has rotted (`Fresh`), and that its checksum is genuine or rotten
if it has (`Sound`); two different pads never cancel (`TwoPads`), so a wrong password
never yields a checksum that fits. `KeyFileTypeCorrect`, `DecodedExactly` and
`InspectionForetells` rest on the arithmetic of the limits: powers of two double and grow
(`Shifted`), so that of all limits only the ones that some `log_n` encodes to decode, and to
that `log_n`; and what `inspect` says of an encrypted key is what decryption of that copy
would come to. `KeyFileAssumption` also says that there is a password and that the limits
this program writes fit their integers.

**`FileTextProofs`.** `TextTypeCorrect`, `WrittenAlwaysRead`, `ReadersAlwaysAgree`,
`KindAlwaysTold`, for comments of any length with any of the bad bytes, and any number of
changes. Assumed: comments are comments (`CommentsTyped`), the default one fits
(`DefaultFits`), and the bound is a number. `TextInv` says of a file that its first line is
a comment (`HeadInv`), that nothing but blank lines comes after a key (`TailInv`), and what
lines either program has written (`MadeInv`): a file whose text is kept has those lines, up
to their ends. That this program reads every key which C reads failed at first for the key
file drawn out by blank lines, a case beyond the bounds of the run.

Only model-checked: the two liveness properties, `EveryOverwriteEnds` and
`EveryBatchEnds`, which are out of the prover's reach.

## 7. What is abstracted and what is not modelled

- Cryptography is ideal: a signature is who made it over what, a digest is its
  input, a pad is known to who has the password and the salt. Key derivation
  always succeeds within its limits.
- A torn file is one value; which bytes are missing makes no difference to a
  reader that checks a signature or a checksum. Base64 and byte offsets are left
  out, and a damaged field is a different one of the same type.
- `Path::exists` is exact: that a stat fails for another reason than absence is a
  hazard listed without a property.
- The lock guard runs on every return. The one path that leaves the lock is a
  failing removal, of which the code warns.
- Random names do not collide; `create_new` would make a collision an error.
- In `CommandLine` the long names of the short options, `--option=value`, `--help`
  and `--version`, and the options that change nothing in these models are left out,
  as is the validation of a comment by the parser. In `KeySession` `-p` names some
  public key, and whether the one that `-G` would write exists is a free choice.
- In `KeySession` the writing of the pair by `-G` is one step, which `KeypairCreate`
  and `KeypairOverwrite` take apart.
- The C program signs without `-p` in `FileText`; its writers are not modelled as
  sequences of calls.
- Not modelled: display, the word list, errors, cryptography, everything that is
  compiled on Windows only (no run of the Unix program reaches it), the rest of the C
  program, build files and tests. `PROJECT.json` gives the reason for each.

## 8. Observations

Seen while modelling, and not the subject of a run:

- `--force` renames the old secret key away before it renames the new one into
  place (`rs/src/ops/generate.rs:620`), so the path is empty in between, whereas
  `rs/SECURITY.md:100` speaks of an atomic rename. The key itself survives under
  its backup name (`KeyNotDestroyed`).
- `--forget-password` is served before the check of the scrypt budget
  (`rs/src/main.rs:621`, `867-871`); `rs/SECURITY.md:77` can be read otherwise.
- Two `-K` at once take no lock (`rs/src/ops/change.rs:194`): both return Ok and
  the later write wins. `StoredPasswordOpens` holds all the same. A `-K` that overlaps
  a `-G --force` can replace the new secret key by the old one under a new password.
- After "NOT persisted" what the store made of the password stays there
  (`rs/src/main.rs:219`), and a later command ends at it.
- `-R`, `-V` and `-I --no-decrypt` with `--save-password`, `-I --save-password` on an
  unencrypted key, `-K --forget-password --save-password` and `-G --forget-password`
  are accepted and the option has no effect, without a word.
- A value that looks like an option (`-c -W`, `-t -l`) is taken for the option, and a
  lone `-` or `--` is refused, unlike getopt. `rs/src/cli.rs:3` says "matching the C
  minisign interface exactly"; `ReadAsGetopt` excepts these.
- The getopt compared with is that of glibc, which finds options after the first
  file as well. That of BSD stops at the first file, and `rs/docs/USAGE.md:126` says
  that all flags must come before `-m` and the files and that "this matches the C
  version's getopt behaviour"; the Rust parser finds an option anywhere.
- `rs/COMPATIBILITY.md` lists `-C` among the identical options; the program
  changes a password with `-K` only.
- Deduplication is by canonical path (`rs/src/ops/sign.rs:441`): of a symlink and
  its target only the first gets a signature, and the run returns Ok.
- When damage turns the key derivation marker of an encrypted file into "none", a
  change of the password encrypts what is there with a valid checksum
  (`rs/src/keys.rs:520`). The check that the key pair fits still refuses it.
- The C program accepts text that the Rust one refuses: an untrusted comment that is
  not printable or not UTF-8, extra lines at the end, a bare carriage return at
  the end. The Rust program accepts lines of the full length with CRLF, and
  comments of public keys over 1003 bytes, that the C one refuses. The C program
  reads, but cannot write, comment lines of 4096 bytes and more.
  `rs/README.md:137-142` calls the two fully interchangeable.
- `-c` with `-G` is the comment of the public key here and of the secret key in C. A
  key whose comment names the other kind cannot be inspected
  (`rs/src/ops/inspect.rs`). A comment with a line feed, or of more than 1003 bytes,
  makes the C program write a secret key file that nobody reads again.
