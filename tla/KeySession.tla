----------------------------- MODULE KeySession -----------------------------
(***************************************************************************)
(* Commands that use one secret key file and the credential store:         *)
(* `-G`, `-S`, `-I`, `-R` and `-K` with `--save-password` and              *)
(* `--forget-password` (the handlers of rs/src/main.rs, change of          *)
(* rs/src/ops/change.rs, and rs/src/credential_store.rs).  A process       *)
(* starts with the arguments it was given and becomes the command that     *)
(* CommandLine makes of them; its reads and writes of the file and its     *)
(* calls of the store are single steps, so two commands interleave between *)
(* them.                                                                   *)
(*                                                                         *)
(* A key file is named by who wrote it: encryption takes a fresh salt, so  *)
(* every encrypted file has a credential id of its own, while all files    *)
(* without a password that hold one key pair share one id, its key number. *)
(***************************************************************************)
EXTENDS CommandLine

CONSTANTS
    Procs,        \* the commands
    CommandLines, \* the arguments they may be started with
    Passwords,    \* what a user types
    None,         \* no password: an unencrypted file, or no entry in the store
    Cut,          \* what is left of a password that did not fit the store
    Old,          \* who wrote the file that was there before
    LossyStore,   \* may the store drop or cut what it said it saved?
    MaxFaults     \* bound on the failing calls

Authors == Procs \union {Old}

\* What a password is saved under.
Ids == [of : Authors, encrypted : BOOLEAN]

ASSUME NamesDiffer ==
    /\ {None, Cut} \cap Passwords = {} /\ None # Cut
    /\ Old \notin Procs /\ None \notin Authors
ASSUME CommandLinesTyped == CommandLines \subseteq Seq(Argument)
ASSUME SessionBounds == MaxFaults \in Nat /\ LossyStore \in BOOLEAN

VARIABLES
    key,       \* the secret key file: who wrote it, its password, whose key pair it holds
    heavy,     \* are the KDF parameters of the old file over the budget?
    password,  \* password[a]: what the file written by a is encrypted with
    store,     \* store[id]: the credential store
    asked,     \* asked[p]: how getopt reads the arguments of p
    cmd,       \* cmd[p]: the command that p makes of them
    pc,        \* pc[p]: the next step of p, or how it ended
    loaded,    \* loaded[p]: the key file as p's handler loaded it
    held,      \* held[p]: the password p has got from the store, a file or the user
    fresh,     \* fresh[p]: the key file that p is about to write
    told,      \* told[p]: what became of p's calls of the store, said or not
    faults

vars == <<key, heavy, password, store, asked, cmd, pc, loaded, held, fresh, told, faults>>
files == <<key, heavy, password>>
request == <<asked, cmd>>
session == <<asked, cmd, loaded, held, fresh>>

Ended == {"ok", "err", "usage", "killed"}
Answers == {"saved", "notPersisted", "unsure", "notSaved", "ignored", "notForgotten"}

Fails == faults < MaxFaults /\ faults' = faults + 1
Works == UNCHANGED faults
Goto(p, label) == pc' = [pc EXCEPT ![p] = label]
Tell(p, what) == told' = [told EXCEPT ![p] = @ \union {what}]

On(p, o) == o \in cmd[p].on

KeyFile(author, given, pair) == [by |-> author, password |-> given, pair |-> pair]
Absent == KeyFile(None, None, None)

\* SeckeyStruct::is_encrypted and credential_id
Encrypted(k) == k.password # None
CredentialId(k) == [of |-> IF Encrypted(k) THEN k.by ELSE k.pair, encrypted |-> Encrypted(k)]

\* check_kdf_budget: nothing this program writes is over the budget.
OverBudget(k) == Encrypted(k) /\ k.by = Old /\ heavy

\* extract_key with a given password
Opens(given, k) == Encrypted(k) => given = k.password

Init ==
    /\ \E old \in Passwords \union {None} :
          /\ key \in {Absent, KeyFile(Old, old, Old)}
          /\ password = [a \in Authors |-> key.password]
          /\ heavy \in IF Encrypted(key) THEN BOOLEAN ELSE {FALSE}
          /\ store \in [Ids -> {None, key.password}]
          /\ \A id \in Ids : store[id] # None => id = CredentialId(key)
    /\ asked = [p \in Procs |-> Nothing] /\ cmd = [p \in Procs |-> Refused]
    /\ pc = [p \in Procs |-> "start"]
    /\ loaded = [p \in Procs |-> Absent] /\ fresh = [p \in Procs |-> Absent]
    /\ held = [p \in Procs |-> None]
    /\ told = [p \in Procs |-> {}] /\ faults = 0

-----------------------------------------------------------------------------
(* The calls of credential_store.rs; a store may drop or cut what it said  *)
(* it saved, and so does the build without one.                            *)

SavedPassword(id) == store[id]
\* The store does not answer, or what is left of the password is no text.
StoreFails(id) == Fails \/ (store[id] = Cut /\ Works)
SavePassword(id, given) ==
    \E kept \in {given} \union IF LossyStore THEN {Cut, store[id]} ELSE {} :
        store' = [store EXCEPT ![id] = kept]
ForgetPassword(id) == store' = [store EXCEPT ![id] = None]

-----------------------------------------------------------------------------
(* Up to the password                                                      *)

\* -I looks at a signature, a public key, or else a secret key.
InspectsSecretKey(c) ==
    "x" \notin c.on /\ ("s" \in c.on \/ {"p", "P"} \cap c.on = {})

\* What a handler does first.
FirstStep(c) ==
    CASE Action(c) = "G" -> "exists"
      [] Action(c) = "V" -> "elsewhere"
      [] Action(c) = "I" /\ InspectsSecretKey(c) ->
             IF "forget-password" \in c.on THEN "load" ELSE "peek"
      [] Action(c) = "I" /\ ~InspectsSecretKey(c) ->
             IF {"forget-password", "p"} \subseteq c.on /\ "x" \notin c.on
             THEN "err" ELSE "elsewhere"
      [] OTHER -> "load"

\* Cli::parse, run, and the checks of the options in the handler.
Start(p) ==
    /\ pc[p] = "start"
    /\ \E argv \in CommandLines :
          LET c == Command(argv) IN
          /\ asked' = [asked EXCEPT ![p] =
                           [reading |-> getopt(argv), odd |-> LooksLikeOption(argv)]]
          /\ cmd' = [cmd EXCEPT ![p] = c]
          /\ Goto(p, IF c = Refused THEN "usage" ELSE FirstStep(c))
    /\ UNCHANGED <<files, store, loaded, held, fresh, told, faults>>

\* Verification, and inspection of what is no secret key: neither file nor store.
Elsewhere(p) ==
    /\ pc[p] = "elsewhere"
    /\ \/ Works /\ Goto(p, "ok")
       \/ Fails /\ Goto(p, "err")
    /\ UNCHANGED <<files, session, store, told>>

\* handle_generate looks whether the files are there before it asks for a password;
\* the public key may be there without the secret key.
Exists(p) ==
    /\ pc[p] = "exists"
    /\ \/ /\ On(p, "f") \/ key = Absent
          /\ Works /\ Goto(p, "newPassword")
       \/ ~On(p, "f") /\ Works /\ Goto(p, "err")
    /\ UNCHANGED <<files, session, store, told>>

\* inspect(): a look at the file and at the store, whose failure is only shown.
Peek(p) ==
    /\ pc[p] = "peek"
    /\ \/ /\ key # Absent
          /\ Works /\ Goto(p, IF Encrypted(key) /\ ~On(p, "no-decrypt") THEN "load" ELSE "ok")
       \/ key = Absent /\ Works /\ Goto(p, "err")
       \/ Fails /\ Goto(p, "err")
    /\ UNCHANGED <<files, session, store, told>>

\* -K takes --password-file for the current password, and only with a way to the new one.
MisplacedPasswordFile(p) ==
    /\ On(p, "K") /\ On(p, "password-file")
    /\ ~Encrypted(key) \/ ~(On(p, "W") \/ On(p, "new-password-file"))

\* Where a handler goes once it has loaded the key.
AfterLoad(p) ==
    IF (On(p, "K") \/ On(p, "I")) /\ On(p, "forget-password") THEN "forget"
    ELSE IF OverBudget(key) \/ MisplacedPasswordFile(p) THEN "err"
    ELSE IF On(p, "S") THEN IF On(p, "W") THEN "use" ELSE "getPassword"
    ELSE IF On(p, "I") \/ Encrypted(key) THEN "getPassword"
    ELSE IF On(p, "K") THEN "newPassword" ELSE "use"

\* Bug: what is kept of the loaded key is the name of its credential.
LoadById(p) ==
    /\ pc[p] = "load"
    /\ \/ /\ key # Absent /\ Works
          /\ loaded' = [loaded EXCEPT ![p].by = CredentialId(key)]
          /\ Goto(p, AfterLoad(p))
       \/ ((key = Absent /\ Works) \/ Fails) /\ Goto(p, "err") /\ UNCHANGED loaded
    /\ UNCHANGED <<files, store, request, held, fresh, told>>

\* load_secret_key and check_kdf_budget, in the handler.
Load(p) ==
    /\ pc[p] = "load"
    /\ \/ /\ key # Absent /\ Works
          /\ loaded' = [loaded EXCEPT ![p] = key]
          /\ Goto(p, AfterLoad(p))
       \/ ((key = Absent /\ Works) \/ Fails) /\ Goto(p, "err") /\ UNCHANGED loaded
    /\ UNCHANGED <<files, store, request, held, fresh, told>>

AfterPassword(p) == IF On(p, "K") THEN "newPassword" ELSE "use"

\* get_password_with_credential_store: --password-file bypasses the store.
GetPassword(p) ==
    /\ pc[p] = "getPassword"
    /\ \/ /\ On(p, "password-file")
          /\ Works /\ Goto(p, "prompt") /\ UNCHANGED held
       \/ /\ ~On(p, "password-file")
          /\ LET saved == SavedPassword(CredentialId(loaded[p])) IN
             \/ /\ Works
                /\ IF saved = None THEN Goto(p, "prompt") ELSE Goto(p, AfterPassword(p))
                /\ held' = [held EXCEPT ![p] = saved]
             \/ /\ StoreFails(CredentialId(loaded[p]))
                /\ Goto(p, "err") /\ UNCHANGED held
    /\ UNCHANGED <<files, store, request, loaded, fresh, told>>

\* prompt_password: a terminal, or the password file.
Prompt(p) ==
    /\ pc[p] = "prompt"
    /\ \/ \E typed \in Passwords :
             Works /\ held' = [held EXCEPT ![p] = typed] /\ Goto(p, AfterPassword(p))
       \/ Fails /\ Goto(p, "err") /\ UNCHANGED held
    /\ UNCHANGED <<files, store, request, loaded, fresh, told>>

-----------------------------------------------------------------------------
(* The operation                                                           *)

AfterUse(p) == IF On(p, "R") THEN "maybeForget" ELSE "save"

\* Bug: the password is saved before the key is opened with it.
UseUnchecked(p) ==
    /\ pc[p] = "use"
    /\ \/ Works /\ Goto(p, AfterUse(p))
       \/ Fails /\ Goto(p, "err")
    /\ UNCHANGED <<files, session, store, told>>

\* Sign, inspect and recreate decrypt the key they loaded, and write elsewhere; one
\* signature file for several messages is refused only here.
Use(p) ==
    /\ pc[p] = "use"
    /\ \/ /\ Works
          /\ Goto(p, IF \/ ~Opens(held[p], loaded[p])
                        \/ On(p, "S") /\ On(p, "x") /\ Messages(cmd[p]) > 1
                     THEN "err" ELSE AfterUse(p))
       \/ Fails /\ Goto(p, "err")
    /\ UNCHANGED <<files, session, store, told>>

\* prompt_password_with_confirmation, unless -W
NewPassword(p) ==
    /\ pc[p] = "newPassword"
    /\ \/ /\ Works
          /\ \E typed \in IF On(p, "W") THEN {None} ELSE Passwords :
                fresh' = [fresh EXCEPT ![p] = KeyFile(p, typed, p)]
          /\ Goto(p, IF On(p, "G") THEN "install" ELSE "rekey")
       \/ Fails /\ ~On(p, "W") /\ Goto(p, "err") /\ UNCHANGED fresh
    /\ UNCHANGED <<files, store, request, loaded, held, told>>

\* change_with_log_n: the file is loaded once more and decrypted as it is now.
Rekey(p) ==
    /\ pc[p] = "rekey"
    /\ \/ /\ key # Absent /\ Opens(held[p], key) /\ ~OverBudget(key) /\ Works
          /\ fresh' = [fresh EXCEPT ![p].pair = key.pair]
          /\ Goto(p, "replace")
       \/ /\ key = Absent \/ ~Opens(held[p], key) \/ OverBudget(key)
          /\ Works /\ Goto(p, "err") /\ UNCHANGED fresh
       \/ Fails /\ Goto(p, "err") /\ UNCHANGED fresh
    /\ UNCHANGED <<files, request, loaded, held, store, told>>

Written(p) ==
    /\ key' = fresh[p]
    /\ password' = [password EXCEPT ![p] = fresh[p].password]

\* write_secret_key_file: an error may come before the rename or after it.
Replace(p) ==
    /\ pc[p] = "replace"
    /\ \/ /\ Written(p)
          /\ \/ Works /\ Goto(p, IF Encrypted(loaded[p]) THEN "forgetOld" ELSE "save")
             \/ Fails /\ Goto(p, "err")
       \/ Fails /\ Goto(p, "err") /\ UNCHANGED <<key, password>>
    /\ UNCHANGED <<heavy, session, store, told>>

\* generate: the pair writers replace a key only under --force; an undo that fails
\* leaves the new key.
Install(p) ==
    /\ pc[p] = "install"
    /\ \/ /\ On(p, "f") \/ key = Absent
          /\ Written(p)
          /\ \/ Works /\ Goto(p, "save")
             \/ Fails /\ Goto(p, "err")
       \/ ~On(p, "f") /\ Works /\ Goto(p, "err") /\ UNCHANGED <<key, password>>
       \/ Fails /\ Goto(p, "err") /\ UNCHANGED <<key, password>>
    /\ UNCHANGED <<heavy, session, store, told>>

-----------------------------------------------------------------------------
(* The credential store                                                    *)

\* Bug: the id is that of the file as it is now.
ForgetCurrent(p) ==
    /\ pc[p] = "forgetOld"
    /\ \/ /\ Works /\ ForgetPassword(CredentialId(key))
          /\ UNCHANGED told
       \/ Fails /\ Tell(p, "notForgotten") /\ UNCHANGED store
    /\ Goto(p, "save")
    /\ UNCHANGED <<files, session>>

\* `let _ = forget_password(&old_credential_id)`
ForgetOld(p) ==
    /\ pc[p] = "forgetOld"
    /\ \/ /\ Works /\ ForgetPassword(CredentialId(loaded[p]))
          /\ UNCHANGED told
       \/ Fails /\ Tell(p, "notForgotten") /\ UNCHANGED store
    /\ Goto(p, "save")
    /\ UNCHANGED <<files, session>>

\* The password to save and the id it is saved under.
ToSave(p) ==
    IF On(p, "K") \/ On(p, "G")
    THEN [id |-> CredentialId(fresh[p]), password |-> fresh[p].password]
    ELSE [id |-> CredentialId(loaded[p]), password |-> held[p]]

\* save_password_to_credential_store, up to set_password
Save(p) ==
    /\ pc[p] = "save"
    /\ LET new == ToSave(p) IN
       \/ /\ ~On(p, "save-password") \/ new.password = None
          /\ IF On(p, "save-password") THEN Tell(p, "ignored") ELSE UNCHANGED told
          /\ Works /\ Goto(p, "maybeForget") /\ UNCHANGED store
       \/ /\ On(p, "save-password") /\ new.password # None
          /\ \/ /\ Works
                /\ SavePassword(new.id, new.password)
                /\ Goto(p, "readBack") /\ UNCHANGED told
             \/ Fails /\ Tell(p, "notSaved") /\ Goto(p, "maybeForget") /\ UNCHANGED store
    /\ UNCHANGED <<files, session>>

\* Bug: any entry will do.
ReadBackSomething(p) ==
    /\ pc[p] = "readBack"
    /\ \/ Works /\ Tell(p, IF SavedPassword(ToSave(p).id) # None THEN "saved" ELSE "notPersisted")
       \/ StoreFails(ToSave(p).id) /\ Tell(p, "unsure")
    /\ Goto(p, "maybeForget")
    /\ UNCHANGED <<files, session, store>>

\* ... and the check that what was saved can be read again.
ReadBack(p) ==
    /\ pc[p] = "readBack"
    /\ \/ /\ Works
          /\ Tell(p, IF SavedPassword(ToSave(p).id) = ToSave(p).password THEN "saved" ELSE "notPersisted")
       \/ StoreFails(ToSave(p).id) /\ Tell(p, "unsure")
    /\ Goto(p, "maybeForget")
    /\ UNCHANGED <<files, session, store>>

\* sign and recreate forget at the very end, when they are asked to.
MaybeForget(p) ==
    /\ pc[p] = "maybeForget"
    /\ Works
    /\ Goto(p, IF (On(p, "S") \/ On(p, "R")) /\ On(p, "forget-password") THEN "forget" ELSE "ok")
    /\ UNCHANGED <<files, session, store, told>>

\* forget_password_with_feedback: an error is the command's error.
Forget(p) ==
    /\ pc[p] = "forget"
    /\ \/ /\ Works /\ ForgetPassword(CredentialId(loaded[p]))
          /\ Goto(p, "ok")
       \/ Fails /\ Goto(p, "err") /\ UNCHANGED store
    /\ UNCHANGED <<files, session, told>>

Kill(p) ==
    /\ pc[p] \notin Ended \union {"start"}
    /\ Goto(p, "killed")
    /\ UNCHANGED <<files, session, store, told, faults>>

Step(p) ==
    \/ Start(p) \/ Elsewhere(p) \/ Exists(p) \/ Peek(p) \/ Load(p) \/ GetPassword(p)
    \/ Prompt(p) \/ Use(p) \/ NewPassword(p) \/ Rekey(p) \/ Replace(p) \/ Install(p)
    \/ ForgetOld(p) \/ Save(p) \/ ReadBack(p) \/ MaybeForget(p) \/ Forget(p)

Next == \E p \in Procs : Step(p) \/ Kill(p)

Spec == Init /\ [][Next]_vars

-----------------------------------------------------------------------------
KeyType == [by : Authors, password : Passwords \union {None}, pair : Authors] \union {Absent}

Commands == {Refused} \union {Command(argv) : argv \in CommandLines}

SessionShape ==
    /\ key \in KeyType /\ heavy \in BOOLEAN
    /\ password \in [Authors -> Passwords \union {None}]
    /\ store \in [Ids -> Passwords \union {None, Cut}]
    /\ pc \in [Procs -> {"start", "elsewhere", "exists", "peek", "load", "getPassword",
                         "prompt", "use", "newPassword", "rekey", "replace", "install",
                         "forgetOld", "save", "readBack", "maybeForget", "forget"}
                        \union Ended]
    /\ cmd \in [Procs -> Commands]
    /\ loaded \in [Procs -> KeyType] /\ fresh \in [Procs -> KeyType]
    /\ held \in [Procs -> Passwords \union {None, Cut}]
    /\ told \in [Procs -> SUBSET Answers]
    /\ faults \in Nat

TypeOK ==
    /\ SessionShape
    /\ \A p \in Procs : pc[p] \notin {"start", "usage"} =>
          Cardinality(cmd[p].on \cap Actions) = 1 /\ cmd[p].on \subseteq Flags \union ValueOptions

(***************************************************************************)
(* However the options are bundled, ordered and glued to their values:     *)
(* what this program takes for the command is what getopt reads, and what  *)
(* it refuses getopt refuses, or it is a combination that makes no sense   *)
(* ("matching the C minisign interface exactly", rs/src/cli.rs).  Values   *)
(* and files that look like options are excepted: here such a value is     *)
(* taken for the option.                                                   *)
(***************************************************************************)
ReadAsGetopt ==
    \A p \in Procs : pc[p] # "start" /\ ~asked[p].odd =>
        LET reading == asked[p].reading IN
        IF cmd[p] # Refused THEN cmd[p] = reading
        ELSE reading # Refused => Excluded(reading.on) \/ UsageError(reading)

Asks(p, o) == cmd[p] # Refused /\ On(p, o)

\* p has saved under the id, or was about to, and has not seen that it worked.
Unconfirmed(p, id) ==
    Asks(p, "save-password") /\ ToSave(p).id = id /\ "saved" \notin told[p]

(***************************************************************************)
(* Whatever commands overlap, fail or are killed: a password saved under   *)
(* the id of an encrypted key file is the password of that file, or what   *)
(* the store made of it, and then the command that saved it has not called *)
(* it saved.  A mistyped password is never saved, and a password never     *)
(* ends up under the id of another version of the file.                    *)
(***************************************************************************)
StoredPasswordOpens ==
    \A a \in Authors :
        LET id == [of |-> a, encrypted |-> TRUE] IN
        \/ store[id] \in {None, password[a]}
        \/ store[id] = Cut /\ \E p \in Procs : Unconfirmed(p, id)

(***************************************************************************)
(* A change that ended well has removed the old password from the store,   *)
(* unless it met a failing store, or a command that overlapped and had     *)
(* loaded or written the old file saved the password again.                *)
(***************************************************************************)
OldPasswordGone ==
    \A p \in Procs :
        /\ pc[p] = "ok" /\ On(p, "K") /\ ~On(p, "forget-password")
        /\ Encrypted(loaded[p]) /\ "notForgotten" \notin told[p]
        => \/ store[CredentialId(loaded[p])] = None
           \/ \E q \in Procs \ {p} :
                  Asks(q, "save-password") /\ (loaded[q] = loaded[p] \/ loaded[p].by = q)

\* The commands that come to the point where a password is saved.
Saves(p) ==
    /\ Asks(p, "save-password")
    /\ \/ On(p, "G") \/ On(p, "S")
       \/ On(p, "I") /\ held[p] # None
       \/ On(p, "K") /\ ~On(p, "forget-password")

(***************************************************************************)
(* --save-password is answered: a command that was told to save, and has   *)
(* ended well, has said what became of it.  And if it has said "Password   *)
(* saved to OS credential store", the saved password opens the key file,   *)
(* as long as its version of the file is the current one, nobody was asked *)
(* to forget, and the store did not spoil a later save of the same one.    *)
(***************************************************************************)
SaveIsAnswered ==
    \A p \in Procs :
        /\ pc[p] = "ok" /\ Saves(p) => told[p] \ {"notForgotten"} # {}
        /\ /\ "saved" \in told[p] /\ Encrypted(key) /\ ToSave(p).id = CredentialId(key)
           /\ \A q \in Procs : ~Asks(q, "forget-password")
           => \/ store[CredentialId(key)] = key.password
              \/ \E q \in Procs : Unconfirmed(q, CredentialId(key))

(***************************************************************************)
(* "Credential store errors never block operations" (rs/docs/USAGE.md): a  *)
(* command that looks for a saved password in vain goes on to the prompt.  *)
(***************************************************************************)
StoreErrorsNeverBlock ==
    [][\A p \in Procs : pc[p] = "getPassword" => pc'[p] # "err"]_vars
=============================================================================
