------------------------------ MODULE KeyFile ------------------------------
(***************************************************************************)
(* One secret key file over its life: what `generate` wrote, what `change` *)
(* re-encrypts, what bit rot does to it, and what sign, recreate and       *)
(* inspect make of it.  Several processes use the file at once; each reads *)
(* it whole and acts on that copy later, with no lock held.                *)
(*                                                                         *)
(* XOR with the scrypt output is symmetric difference of a set of pads:    *)
(* encrypting and decrypting with the same pad cancel, two different pads  *)
(* never do.  The 64-bit limits are scaled down to Width so that TLC can   *)
(* reach the overflow and the budget.                                      *)
(***************************************************************************)
EXTENDS Naturals, FiniteSets

CONSTANTS Process,      \* processes using the file
          Password,     \* passwords a user may type
          NoPassword,   \* an Option<&[u8]> that is None
          LogN,         \* values of log_n a caller may ask `change` for
          RottenLimits, \* pairs bit rot may leave in opslimit and memlimit
          Width,        \* 2^64, scaled
          Bits,         \* 64, scaled: 1 << log_n needs log_n < Bits
          OpsMultiplier, MemMultiplier, R,       \* libsodium's 4, 128; r = 8
          ProductionLogN, WeakLogN,              \* 20 and 17, scaled
          MediumFrom,   \* 256_000_000, scaled
          MaxWrites,    \* bound: changes written
          MaxRot        \* bound: fields rotted

\* 1u64 << k
Shifted[k \in Nat] == IF k = 0 THEN 1 ELSE 2 * Shifted[k - 1]

\* The limits of the two log_n that are constants of the source fit their integers.
ASSUME KeyFileAssumption ==
  /\ Password # {} /\ NoPassword \notin Password
  /\ LogN \subseteq Nat /\ ProductionLogN \in Nat /\ WeakLogN \in Nat
  /\ RottenLimits \subseteq [opslimit : 0 .. Width - 1, memlimit : 0 .. Width - 1]
  /\ OpsMultiplier \in Nat \ {0} /\ MemMultiplier \in Nat \ {0} /\ R \in Nat \ {0}
  /\ Bits \in Nat /\ Width \in Nat /\ Width = Shifted[Bits]
  /\ MemMultiplier * R * Shifted[ProductionLogN] < Width
  /\ OpsMultiplier * R * Shifted[WeakLogN] < Width
  /\ MaxWrites \in Nat /\ MaxRot \in Nat

VARIABLES file,      \* the key file, with what the model remembers of its past
          job,       \* job[p]: what p is doing and the copy it loaded
          writes,    \* changes written so far; also the source of fresh salts
          rots       \* fields rotted so far

vars == <<file, job, writes, rots>>

-----------------------------------------------------------------------------
(* Scrypt limits.                                                          *)

Limits(ops, mem) == [opslimit |-> ops, memlimit |-> mem]
NoLimits == Limits(Width, Width)            \* an Err of the arithmetic
LimitsOf(n) == Limits(OpsMultiplier * Shifted[n] * R, MemMultiplier * Shifted[n] * R)
ProductionLimits == LimitsOf(ProductionLogN)

CalculateKdfParams(n, weak) ==
  IF weak THEN LimitsOf(WeakLogN)
  ELSE IF n >= Bits \/ OpsMultiplier * Shifted[n] * R >= Width
                    \/ MemMultiplier * Shifted[n] * R >= Width
       THEN NoLimits
       ELSE LimitsOf(n)

\* Bug: the budget is that of the next log_n.
OverTwice(mem) == mem > LimitsOf(ProductionLogN + 1).memlimit

OverBudget(mem) == mem > ProductionLimits.memlimit

PowerOfTwo(n) == \E k \in 0 .. Bits - 1 : n = Shifted[k]
TrailingZeros(n) == CHOOSE k \in 0 .. Bits - 1 : n = Shifted[k]

NoLogN == Bits                               \* an Err of the decoding
\* Bug: the derived r may be any.
DecodeAnyR(k) ==
  LET n == k.memlimit \div (MemMultiplier * R)
  IN IF /\ k.memlimit % (MemMultiplier * R) = 0
        /\ n # 0 /\ PowerOfTwo(n)
        /\ k.opslimit # 0 /\ k.opslimit % (OpsMultiplier * n) = 0
     THEN TrailingZeros(n) ELSE NoLogN

\* The checks of decode_kdf_params in their order, each on what the one before
\* let through; ScryptParams::new refuses nothing the last check lets through.
DecodeKdfParams(k) ==
  LET divisor    == MemMultiplier * R
      n          == k.memlimit \div divisor
      opsDivisor == OpsMultiplier * n
      exact      == /\ k.memlimit % divisor = 0
                    /\ n # 0
                    /\ PowerOfTwo(n)
                    /\ opsDivisor < Width
                    /\ k.opslimit % opsDivisor = 0
                    /\ k.opslimit \div opsDivisor = R
  IN IF exact THEN TrailingZeros(n) ELSE NoLogN

\* Bug: limits that decode are not held to the budget.
KdfParamsUnbudgeted(k) == IF DecodeKdfParams(k) = NoLogN THEN "ScryptParamError" ELSE "ok"

\* What the KDF may be run with: decoded first, then held to the budget.
KdfParams(k) ==
  LET n == DecodeKdfParams(k)
  IN IF n = NoLogN THEN "ScryptParamError"
     ELSE IF OverBudget(k.memlimit) THEN "KdfOverBudget"
     ELSE "ok"

-----------------------------------------------------------------------------
(* Key material: a value and the pads it is XORed with.                    *)

Plain(v) == [base |-> v, pads |-> {}]
Xor(x, pad) == [x EXCEPT !.pads = IF pad \in @ THEN @ \ {pad} ELSE @ \cup {pad}]
Rotten(x) == [x EXCEPT !.base = <<"rot">>]

GenuineKeynum == Plain(<<"keynum">>)
GenuineSecret == Plain(<<"secret">>)
\* Bug: the checksum covers the secret only.
ChecksumOfSecret(keynum, secret) == Plain(<<"B2", secret, secret>>)

Checksum(keynum, secret) == Plain(<<"B2", keynum, secret>>)
NoChecksum == Plain(<<"zero">>)

\* dalek's from_keypair_bytes: the stored public half is the scalar's own.
KeypairMatches(secret) == secret = GenuineSecret

\* The 104 bytes scrypt derives from a password, a salt and log_n.
Derive(password, salt, n) == [password |-> password, salt |-> salt, log_n |-> n]

\* Bug: the checksum marker lands in the KDF marker's place.
NewUnencryptedMisplaced(keynum, secret) ==
  [alg |-> "B2", salt |-> 0, opslimit |-> 0, memlimit |-> 0,
   keynum |-> keynum, secret |-> secret, checksum |-> NoChecksum]

NewUnencrypted(keynum, secret) ==
  [alg |-> "none", salt |-> 0, opslimit |-> 0, memlimit |-> 0,
   keynum |-> keynum, secret |-> secret, checksum |-> NoChecksum]

NewEncrypted(keynum, secret, password, salt, limits) ==
  LET pad == Derive(password, salt, DecodeKdfParams(limits))
  IN [alg |-> "Sc", salt |-> salt,
      opslimit |-> limits.opslimit, memlimit |-> limits.memlimit,
      keynum   |-> Xor(keynum, pad),
      secret   |-> Xor(secret, pad),
      checksum |-> Xor(Checksum(keynum, secret), pad)]

\* from_file_contents and from_bytes: of the markers, only the KDF's can rot here.
Readable(k) == k.alg \in {"Sc", "none"}
IsEncrypted(k) == k.alg = "Sc"
IsWeakKdf(k) ==
  /\ IsEncrypted(k)
  /\ \/ k.opslimit < ProductionLimits.opslimit
     \/ k.memlimit < ProductionLimits.memlimit

-----------------------------------------------------------------------------
(* Outcomes: a status, the key that came out, the memory each KDF run used.*)

Failed(status, kdf) ==
  [status |-> status, keynum |-> Plain(<<"zero">>), secret |-> Plain(<<"zero">>), kdf |-> kdf]
Opened(keynum, secret, kdf) ==
  [status |-> "ok", keynum |-> keynum, secret |-> secret, kdf |-> kdf]

Decrypt(k, password) ==
  LET pad    == Derive(password, k.salt, DecodeKdfParams(k))
      keynum == Xor(k.keynum, pad)
      secret == Xor(k.secret, pad)
  IN IF OverBudget(k.memlimit) THEN Failed("KdfOverBudget", {})
     ELSE IF KdfParams(k) # "ok" THEN Failed(KdfParams(k), {})
     ELSE IF Xor(k.checksum, pad) = Checksum(keynum, secret)
     THEN Opened(keynum, secret, {k.memlimit})
     ELSE Failed("ChecksumFailed", {k.memlimit})

ExtractKey(k, password) ==
  IF ~IsEncrypted(k) THEN Opened(k.keynum, k.secret, {})
  ELSE IF password = NoPassword THEN Failed("PasswordRequired", {})
  ELSE Decrypt(k, password)

\* sign and recreate: both refuse a secret whose public half is not its own.
UseKey(k, password) ==
  LET got == ExtractKey(k, password)
  IN IF got.status = "ok" /\ ~KeypairMatches(got.secret)
     THEN Failed("InvalidSecretKey", got.kdf) ELSE got

-----------------------------------------------------------------------------
(* What inspect says of a key.                                             *)

SecurityLevel(mem, fallback) ==
  IF OverBudget(mem) THEN "Unsupported"
  ELSE IF ~fallback THEN "High"
  ELSE IF mem >= MediumFrom THEN "Medium" ELSE "Low"

Report(level, weaker, asked) ==
  [status |-> "inspected", level |-> level, weaker |-> weaker, asked |-> asked]

\* Bug: the credential store is asked before the level is known.
InspectAsking(k) ==
  LET fallback == k.memlimit < ProductionLimits.memlimit
  IN IF ~IsEncrypted(k) THEN Report("None", 1, TRUE)
     ELSE IF DecodeKdfParams(k) = NoLogN THEN Failed("ScryptParamError", {})
     ELSE Report(SecurityLevel(k.memlimit, fallback),
                 IF fallback THEN ProductionLimits.memlimit \div k.memlimit ELSE 1, TRUE)

\* `weaker` is the multiplier of a fallback key, 1 when there is none to show;
\* `asked` whether the credential store was asked for the password's presence.
InspectSecretKey(k) ==
  LET fallback == \/ k.opslimit < ProductionLimits.opslimit
                  \/ k.memlimit < ProductionLimits.memlimit
      level    == SecurityLevel(k.memlimit, fallback)
  IN IF ~IsEncrypted(k) THEN Report("None", 1, TRUE)
     ELSE IF DecodeKdfParams(k) = NoLogN THEN Failed("ScryptParamError", {})
     ELSE Report(level,
                 IF fallback THEN ProductionLimits.memlimit \div k.memlimit ELSE 1,
                 level # "Unsupported")

-----------------------------------------------------------------------------
(* The file and the processes.  `past` is what the model knows and the     *)
(* program does not: the password last written, whether a field rotted,    *)
(* whether one rotted while nothing but the checksum-free form held it.    *)

Kept(k, password, rotted, bare) ==
  [key |-> k, past |-> [password |-> password, rotted |-> rotted, bare |-> bare]]

NoKey == NewUnencrypted(Plain(<<"zero">>), Plain(<<"zero">>))
Idle == [op |-> "idle", held |-> Kept(NoKey, NoPassword, FALSE, FALSE),
         outcome |-> Failed("none", {})]

\* generate writes a pair's secret key; limits its reader would refuse fail it.
Generated ==
  \/ file = Kept(NewUnencrypted(GenuineKeynum, GenuineSecret), NoPassword, FALSE, FALSE)
  \/ \E pw \in Password, n \in LogN, weak \in BOOLEAN :
       LET limits == CalculateKdfParams(n, weak) IN
       /\ KdfParams(limits) = "ok"
       /\ file = Kept(NewEncrypted(GenuineKeynum, GenuineSecret, pw, 0, limits), pw, FALSE, FALSE)

Init ==
  /\ Generated
  /\ job = [p \in Process |-> Idle]
  /\ writes = 0
  /\ rots = 0

\* load_secret_key: the whole file is read, or from_bytes refuses it.
Load(p, op) ==
  /\ job[p].op \in {"idle", "used", "inspected", "changed"}
  /\ job' = [job EXCEPT ![p] =
       IF Readable(file.key)
       THEN [op |-> op, held |-> file, outcome |-> Idle.outcome]
       ELSE Idle]
  /\ UNCHANGED <<file, writes, rots>>

Done == [use |-> "used", inspect |-> "inspected", change |-> "changed"]
Finish(p, outcome) ==
  job' = [job EXCEPT ![p] = [op |-> Done[@.op], held |-> @.held, outcome |-> outcome]]

Use(p, password) ==
  /\ job[p].op = "use"
  /\ Finish(p, UseKey(job[p].held.key, password))
  /\ UNCHANGED <<file, writes, rots>>

Inspect(p) ==
  /\ job[p].op = "inspect"
  /\ Finish(p, InspectSecretKey(job[p].held.key))
  /\ UNCHANGED <<file, writes, rots>>

\* Write back a key made from the copy loaded, whatever the file holds now.
WriteBack(p, k, password, outcome) ==
  /\ writes < MaxWrites
  /\ file' = Kept(k, password, job[p].held.past.rotted, job[p].held.past.bare)
  /\ writes' = writes + 1
  /\ Finish(p, outcome)
  /\ UNCHANGED rots

Refuse(p, outcome) == Finish(p, outcome) /\ UNCHANGED <<file, writes, rots>>

RemovePassword(p, old) ==
  LET got == ExtractKey(job[p].held.key, old) IN
  /\ job[p].op = "change"
  /\ IF got.status = "ok"
     THEN WriteBack(p, NewUnencrypted(got.keynum, got.secret), NoPassword, got)
     ELSE Refuse(p, got)

\* Each refusal in the code's order: the old password, the new one missing, the
\* limits that overflow, the limits a reader would not accept.
SetPassword(p, old, new, n, weak) ==
  LET got    == ExtractKey(job[p].held.key, old)
      limits == CalculateKdfParams(n, weak)
      verdict == KdfParams(limits)
      outcome == IF got.status # "ok" THEN got
                 ELSE IF new = NoPassword THEN Failed("PasswordRequired", got.kdf)
                 ELSE IF limits = NoLimits THEN Failed("ScryptParamError", got.kdf)
                 ELSE IF verdict # "ok" THEN Failed(verdict, got.kdf)
                 ELSE [got EXCEPT !.kdf = @ \cup {limits.memlimit}]
  IN /\ job[p].op = "change"
     /\ IF outcome.status = "ok"
        THEN WriteBack(p, NewEncrypted(got.keynum, got.secret, new, writes + 1, limits),
                       new, outcome)
        ELSE Refuse(p, outcome)

Change(p) ==
  \E old \in Password \cup {NoPassword} :
    \/ RemovePassword(p, old)
    \/ \E new \in Password \cup {NoPassword}, n \in LogN, weak \in BOOLEAN :
         SetPassword(p, old, new, n, weak)

\* Bit rot of one field, or of the pair of limits, under everybody.
RottenForms(k) ==
       {[k EXCEPT !.alg = a] : a \in {"Sc", "none", "bad"} \ {k.alg}}
  \cup {[k EXCEPT !.salt = k.salt + MaxWrites + 1]}
  \cup {[k EXCEPT !.opslimit = l.opslimit, !.memlimit = l.memlimit] : l \in RottenLimits}
  \cup {[k EXCEPT !.keynum = Rotten(@)], [k EXCEPT !.secret = Rotten(@)],
        [k EXCEPT !.checksum = Rotten(@)]}

Rot ==
  /\ rots < MaxRot
  /\ \E k \in RottenForms(file.key) \ {file.key} :
       file' = Kept(k, file.past.password, TRUE,
                    file.past.bare \/ k.alg # "Sc" \/ ~IsEncrypted(file.key))
  /\ rots' = rots + 1
  /\ UNCHANGED <<job, writes>>

Next ==
  \/ \E p \in Process :
       \/ \E op \in {"use", "inspect", "change"} : Load(p, op)
       \/ \E pw \in Password \cup {NoPassword} : Use(p, pw)
       \/ Inspect(p)
       \/ Change(p)
  \/ Rot

Spec == Init /\ [][Next]_vars

-----------------------------------------------------------------------------
(* Properties.                                                             *)

KeyFileTypeOK ==
  /\ file.key.alg \in {"Sc", "none", "bad"}
  /\ file.key.opslimit \in 0 .. Width - 1 /\ file.key.memlimit \in 0 .. Width - 1
  /\ file.past.password \in Password \cup {NoPassword}
  /\ \A p \in Process : job[p].op \in {"idle"} \cup DOMAIN Done \cup {Done[op] : op \in DOMAIN Done}
  /\ writes \in 0 .. MaxWrites /\ rots \in 0 .. MaxRot

\* A file no field of which rotted opens with the password last written to it
\* and gives the generated key and key number, and with no other password, after
\* any interleaving of changes by processes working from stale copies; so no
\* change writes a key that its own reader would refuse (change.rs, keys.rs).
OpensWithItsPassword ==
  ~file.past.rotted =>
    \A pw \in Password \cup {NoPassword} :
      LET got == ExtractKey(file.key, pw)
      IN IF pw = file.past.password \/ ~IsEncrypted(file.key)
         THEN got.status = "ok" /\ got.keynum = GenuineKeynum /\ got.secret = GenuineSecret
         ELSE got.status # "ok"

\* Signing and recreating never work with a secret other than the generated
\* one, whatever rotted and however often a change re-encrypted the damage; and
\* never under another key number unless something rotted in the unencrypted
\* form, which carries no checksum (crypto.rs sign, recreate.rs, keys.rs 521).
NeverAnotherKey ==
  \A p \in Process :
    (job[p].op = "used" /\ job[p].outcome.status = "ok") =>
      /\ job[p].outcome.secret = GenuineSecret
      /\ job[p].held.past.bare \/ job[p].outcome.keynum = GenuineKeynum

\* scrypt is never run with more memory than the production limit, whatever
\* limits rot left in a file or a caller asked a change for: its allocation
\* aborts the process when it fails (crypto.rs, MAX_KDF_MEMLIMIT).
KdfWithinBudget ==
  \A p \in Process : job[p].op \in {"used", "changed"} =>
    \A mem \in job[p].outcome.kdf : mem <= ProductionLimits.memlimit

\* Limits decode to a log_n exactly when they are the limits of that log_n: no
\* other pair is accepted and no representable one is refused (crypto.rs).
LimitsDecodeExactly ==
  LET k == file.key
      n == DecodeKdfParams(k)
  IN IF n = NoLogN
     THEN \A i \in 0 .. Bits - 1 :
            CalculateKdfParams(i, FALSE) \notin {Limits(k.opslimit, k.memlimit)} \ {NoLimits}
     ELSE CalculateKdfParams(n, FALSE) = Limits(k.opslimit, k.memlimit)

\* What inspect says of an encrypted key foretells what a use of that copy will
\* do: refused limits open with no password, Unsupported is exactly the use
\* refused over budget, the credential store is asked only about a key that
\* could be used, the fallback levels are exactly the keys decrypt warns of, and
\* the multiplier is by how much their work falls short (inspect.rs, keys.rs).
InspectForetellsUse ==
  \A p \in Process : (job[p].op = "inspected" /\ IsEncrypted(job[p].held.key)) =>
    LET k    == job[p].held.key
        said == job[p].outcome
        uses == {UseKey(k, pw).status : pw \in Password}
    IN IF said.status # "inspected"
       THEN uses \cap {"ok", "ChecksumFailed", "InvalidSecretKey"} = {}
       ELSE /\ (said.level = "Unsupported") <=> (uses = {"KdfOverBudget"})
            /\ "ScryptParamError" \notin uses
            /\ said.asked => "KdfOverBudget" \notin uses
            /\ IsWeakKdf(k) <=> said.level \in {"Medium", "Low"}
            /\ IsWeakKdf(k) => said.weaker * k.memlimit = ProductionLimits.memlimit
=============================================================================
