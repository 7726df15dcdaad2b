--------------------------- MODULE KeyFileProofs ---------------------------
(***************************************************************************)
(* Proofs about KeyFile, for any processes, passwords, limits, number of   *)
(* changes and of rotted fields.                                           *)
(***************************************************************************)
EXTENDS KeyFile, Integers, NaturalsInduction, WellFoundedInduction, TLAPS

(* What a field, a key and a file with its past are made of.               *)
IsMaterial(x) == x = [base |-> x.base, pads |-> x.pads]

IsLimits(l) == l.opslimit \in 0 .. Width - 1 /\ l.memlimit \in 0 .. Width - 1

IsKey(k) ==
    /\ k = [alg |-> k.alg, salt |-> k.salt, opslimit |-> k.opslimit, memlimit |-> k.memlimit,
            keynum |-> k.keynum, secret |-> k.secret, checksum |-> k.checksum]
    /\ k.alg \in {"Sc", "none", "bad"} /\ IsLimits(k)
    /\ IsMaterial(k.keynum) /\ IsMaterial(k.secret) /\ IsMaterial(k.checksum)

IsFile(f) ==
    /\ f = Kept(f.key, f.past.password, f.past.rotted, f.past.bare)
    /\ IsKey(f.key) /\ f.past.password \in Password \cup {NoPassword}
    /\ f.past.rotted \in BOOLEAN /\ f.past.bare \in BOOLEAN
    /\ f.past.bare => f.past.rotted

\* A file nothing has happened to is what one of the two writers made.
Fresh(f) ==
    ~f.past.rotted =>
        \/ /\ f.key = NewUnencrypted(GenuineKeynum, GenuineSecret)
           /\ f.past.password = NoPassword
        \/ /\ f.past.password \in Password /\ KdfParams(f.key) = "ok"
           /\ f.key = NewEncrypted(GenuineKeynum, GenuineSecret, f.past.password,
                                   f.key.salt, f.key)

GenuineChecksum == Checksum(GenuineKeynum, GenuineSecret)

\* Rot in the encrypted form leaves the checksum of the genuine key, or none.
Sound(f) ==
    ~f.past.bare =>
        \/ f.key.alg = "none" /\ f.key.keynum = GenuineKeynum /\ f.key.secret = GenuineSecret
        \/ f.key.alg = "Sc" /\ f.key.checksum.base \in {GenuineChecksum.base, <<"rot">>}

GoodFile(f) == IsFile(f) /\ Fresh(f) /\ Sound(f)

JobOps == {"idle"} \cup DOMAIN Done \cup {Done[op] : op \in DOMAIN Done}

JobInv(p) ==
    /\ job[p] = [op |-> job[p].op, held |-> job[p].held, outcome |-> job[p].outcome]
    /\ job[p].op \in JobOps
    /\ job[p].op # "idle" => GoodFile(job[p].held)

\* What the outcome of a finished use or change must be.
OutcomeInv(j) ==
    /\ j.op = "used" /\ j.outcome.status = "ok" =>
          j.outcome.secret = GenuineSecret /\ (j.held.past.bare \/ j.outcome.keynum = GenuineKeynum)
    /\ j.op \in {"used", "changed"} =>
          \A mem \in j.outcome.kdf : mem <= ProductionLimits.memlimit
    /\ j.op = "inspected" => j.outcome = InspectSecretKey(j.held.key)

KeyFileInv ==
    /\ GoodFile(file)
    /\ DOMAIN job = Process /\ writes \in 0 .. MaxWrites /\ rots \in 0 .. MaxRot
    /\ \A p \in Process : JobInv(p) /\ OutcomeInv(job[p])

-----------------------------------------------------------------------------
(* 1 << k: what the recursive function is, and that it divides.            *)

\* Any numbers have a least one.
LEMMA LeastExists ==
  ASSUME NEW T, T \subseteq Nat, T # {}
  PROVE  \E x \in T : \A y \in T : x <= y
<1> DEFINE Less == {ab \in Nat \X Nat : ab[1] < ab[2]}
<1>1. IsWellFoundedOn(Less, Nat)
  BY NatLessThanWellFounded DEF OpToRel
<1>2. PICK x \in T : \A y \in T : ~(<<y, x>> \in Less)
  BY <1>1, WFMin
<1>3. ASSUME NEW y \in T PROVE x <= y
  <2>1. <<y, x>> \in Nat \X Nat /\ <<y, x>> \notin Less
    BY <1>2
  <2>2. ~(y < x)
    BY <2>1
  <2>3. QED
    BY <2>2
<1>4. QED
  BY <1>3

\* f is the function up to n.
Doubles(f, n) == f \in [0 .. n -> Nat] /\ f[0] = 1 /\ \A i \in 1 .. n : f[i] = 2 * f[i - 1]

LEMMA DoublesExist == \A n \in Nat : \E f : Doubles(f, n)
<1> DEFINE without == {n \in Nat : ~ \E f : Doubles(f, n)}
<1>1. SUFFICES ASSUME without # {} PROVE FALSE
  OBVIOUS
<1>2. without \subseteq Nat
  OBVIOUS
<1>3. PICK n \in without : \A m \in without : n <= m
  BY <1>1, <1>2, LeastExists, Zenon
<1>4. n \in Nat /\ ~ \E f : Doubles(f, n)
  BY <1>3
<1>5. n # 0
  <2>1. Doubles([i \in 0 .. 0 |-> 1], 0)
    BY DEF Doubles
  <2>2. QED
    BY <1>4, <2>1
<1>6. n - 1 \in Nat /\ n - 1 \notin without
  BY <1>3, <1>4, <1>5
<1>7. PICK f : Doubles(f, n - 1)
  BY <1>6
<1> DEFINE g == [i \in 0 .. n |-> IF i = n THEN 2 * f[n - 1] ELSE f[i]]
<1>8. Doubles(g, n)
  <2>1. g \in [0 .. n -> Nat] /\ g[0] = 1
    BY <1>4, <1>5, <1>7 DEF Doubles
  <2>2. ASSUME NEW i \in 1 .. n PROVE g[i] = 2 * g[i - 1]
    BY <1>4, <1>7 DEF Doubles
  <2>3. QED
    BY <2>1, <2>2 DEF Doubles
<1>9. QED
  BY <1>4, <1>8

LEMMA DoublesAgree ==
  ASSUME NEW m \in Nat, NEW n \in Nat, NEW f, Doubles(f, m), NEW g, Doubles(g, n)
  PROVE  \A i \in Nat : i <= m /\ i <= n => f[i] = g[i]
<1> DEFINE differ == {i \in Nat : i <= m /\ i <= n /\ f[i] # g[i]}
<1>1. SUFFICES ASSUME differ # {} PROVE FALSE
  OBVIOUS
<1>2. differ \subseteq Nat
  OBVIOUS
<1>3. PICK i \in differ : \A j \in differ : i <= j
  BY <1>1, <1>2, LeastExists, Zenon
<1>4. i # 0
  BY <1>3 DEF Doubles
<1>5. i - 1 \in Nat /\ i - 1 \notin differ /\ i \in 1 .. m /\ i \in 1 .. n
  BY <1>3, <1>4
<1>6. f[i - 1] = g[i - 1]
  BY <1>5
<1>7. QED
  BY <1>3, <1>5, <1>6 DEF Doubles

LEMMA ShiftedUnfolds == Shifted = [k \in Nat |-> IF k = 0 THEN 1 ELSE 2 * Shifted[k - 1]]
<1> DEFINE upTo(n) == CHOOSE f : Doubles(f, n)
           g == [k \in Nat |-> upTo(k)[k]]
<1>1. \A n \in Nat : Doubles(upTo(n), n)
  BY DoublesExist, Zenon
<1> HIDE DEF upTo
<1>2. g = [k \in Nat |-> IF k = 0 THEN 1 ELSE 2 * g[k - 1]]
  <2>1. ASSUME NEW k \in Nat PROVE upTo(k)[k] = IF k = 0 THEN 1 ELSE 2 * g[k - 1]
    <3>1. CASE k = 0
      BY <1>1, <3>1 DEF Doubles
    <3>2. CASE k # 0
      <4>1. k - 1 \in Nat /\ k \in 1 .. k
        BY <3>2
      <4>2. upTo(k)[k] = 2 * upTo(k)[k - 1]
        BY <1>1, <4>1 DEF Doubles
      <4>3. upTo(k)[k - 1] = upTo(k - 1)[k - 1]
        BY <1>1, <4>1, DoublesAgree
      <4>4. QED
        BY <3>2, <4>1, <4>2, <4>3
    <3>3. QED
      BY <3>1, <3>2
  <2>2. QED
    BY <2>1
<1>3. \E f : f = [k \in Nat |-> IF k = 0 THEN 1 ELSE 2 * f[k - 1]]
  BY <1>2, Zenon
<1>4. QED
  BY <1>3, Zenon DEF Shifted

LEMMA ShiftedStep ==
  /\ Shifted[0] = 1
  /\ \A n \in Nat : Shifted[n + 1] = 2 * Shifted[n]
<1>1. Shifted[0] = 1
  BY ShiftedUnfolds
<1>2. ASSUME NEW n \in Nat PROVE Shifted[n + 1] = 2 * Shifted[n]
  <2>1. n + 1 \in Nat /\ n + 1 # 0 /\ (n + 1) - 1 = n
    OBVIOUS
  <2>2. QED
    BY <2>1, ShiftedUnfolds
<1>3. QED
  BY <1>1, <1>2

LEMMA ShiftedPositive == \A n \in Nat : Shifted[n] \in Nat /\ Shifted[n] > 0
<1> DEFINE without == {n \in Nat : ~(Shifted[n] \in Nat /\ Shifted[n] > 0)}
<1>1. SUFFICES ASSUME without # {} PROVE FALSE
  OBVIOUS
<1>2. without \subseteq Nat
  OBVIOUS
<1>3. PICK n \in without : \A m \in without : n <= m
  BY <1>1, <1>2, LeastExists, Zenon
<1>4. n # 0
  BY <1>3, ShiftedStep
<1>5. n - 1 \in Nat /\ n - 1 \notin without /\ Shifted[n] = 2 * Shifted[n - 1]
  BY <1>3, <1>4, ShiftedStep
<1>6. QED
  BY <1>3, <1>5

\* Of two powers the lower divides the higher.
LEMMA ShiftedDivides ==
  ASSUME NEW i \in Nat, NEW j \in Nat, i <= j
  PROVE  \E q \in Nat \ {0} : Shifted[j] = q * Shifted[i]
<1> DEFINE without == {n \in Nat : ~ \E q \in Nat \ {0} : Shifted[i + n] = q * Shifted[i]}
<1>1. without = {}
  <2>1. SUFFICES ASSUME without # {} PROVE FALSE
    OBVIOUS
  <2>2. without \subseteq Nat
    OBVIOUS
  <2>3. PICK n \in without : \A m \in without : n <= m
    BY <2>1, <2>2, LeastExists, Zenon
  <2>4. n # 0
    <3>1. Shifted[i + 0] = 1 * Shifted[i]
      BY ShiftedPositive
    <3>2. QED
      BY <2>3, <3>1
  <2>5. n - 1 \in Nat /\ n - 1 \notin without
    BY <2>3, <2>4
  <2>6. PICK q \in Nat \ {0} : Shifted[i + (n - 1)] = q * Shifted[i]
    BY <2>5
  <2>7. i + (n - 1) \in Nat /\ (i + (n - 1)) + 1 = i + n
    BY <2>5
  <2>8. Shifted[i + n] = 2 * (q * Shifted[i])
    BY <2>6, <2>7, ShiftedStep
  <2>9. 2 * (q * Shifted[i]) = (2 * q) * Shifted[i] /\ 2 * q \in Nat \ {0}
    BY ShiftedPositive
  <2>10. QED
    BY <2>3, <2>8, <2>9
<1>2. j - i \in Nat /\ i + (j - i) = j
  OBVIOUS
<1>3. QED
  BY <1>1, <1>2

-----------------------------------------------------------------------------
(* Limits and the log_n they are the encoding of.                          *)

LEMMA DividesProduct ==
  ASSUME NEW a \in Nat, NEW b \in Nat \ {0}
  PROVE  (a * b) % b = 0 /\ (a * b) \div b = a
OBVIOUS

LEMMA ProductOfQuotient ==
  ASSUME NEW a \in Nat, NEW b \in Nat \ {0}
  PROVE  a \div b \in Nat /\ (a % b = 0 => a = (a \div b) * b)
OBVIOUS

Encodes(k, n) ==
    /\ k.opslimit = OpsMultiplier * Shifted[n] * R
    /\ k.memlimit = MemMultiplier * Shifted[n] * R

LEMMA DecodedEncodes ==
  ASSUME NEW k, IsLimits(k), DecodeKdfParams(k) # NoLogN
  PROVE  DecodeKdfParams(k) \in 0 .. Bits - 1 /\ Encodes(k, DecodeKdfParams(k))
<1> DEFINE divisor == MemMultiplier * R
           n == k.memlimit \div divisor
           opsDivisor == OpsMultiplier * n
           i == DecodeKdfParams(k)
<1>1. /\ k.memlimit % divisor = 0 /\ n # 0 /\ PowerOfTwo(n)
      /\ k.opslimit % opsDivisor = 0 /\ k.opslimit \div opsDivisor = R
      /\ i = TrailingZeros(n)
  BY DEF DecodeKdfParams
<1>2. i \in 0 .. Bits - 1 /\ n = Shifted[i]
  BY <1>1 DEF PowerOfTwo, TrailingZeros
<1> HIDE DEF i
<1>3. divisor \in Nat \ {0} /\ k.memlimit \in Nat /\ k.opslimit \in Nat
  BY KeyFileAssumption DEF IsLimits
<1>4. n \in Nat /\ k.memlimit = n * divisor
  BY <1>1, <1>3, ProductOfQuotient
<1>5. opsDivisor \in Nat \ {0}
  BY <1>1, <1>4, KeyFileAssumption
<1>6. k.opslimit = R * opsDivisor
  BY <1>1, <1>3, <1>5, ProductOfQuotient
<1> HIDE DEF n
<1>7. n * divisor = MemMultiplier * n * R /\ R * opsDivisor = OpsMultiplier * n * R
  BY <1>4, KeyFileAssumption
<1>8. QED
  BY <1>2, <1>4, <1>6, <1>7 DEF Encodes, i

LEMMA EncodedDecodes ==
  ASSUME NEW k, IsLimits(k), NEW i \in 0 .. Bits - 1, Encodes(k, i)
  PROVE  DecodeKdfParams(k) # NoLogN
<1> DEFINE divisor == MemMultiplier * R
           n == Shifted[i]
           opsDivisor == OpsMultiplier * n
<1>1. n \in Nat \ {0} /\ divisor \in Nat \ {0} /\ opsDivisor \in Nat \ {0} /\ R \in Nat \ {0}
  BY ShiftedPositive, KeyFileAssumption
<1>2. k.memlimit = n * divisor /\ k.opslimit = R * opsDivisor /\ k.opslimit < Width
  BY <1>1, KeyFileAssumption DEF Encodes, IsLimits
<1>3. PowerOfTwo(n)
  BY DEF PowerOfTwo
<1>4. TrailingZeros(n) \in 0 .. Bits - 1
  BY DEF TrailingZeros
<1> HIDE DEF n, divisor, opsDivisor
<1>5. k.memlimit % divisor = 0 /\ k.memlimit \div divisor = n
  BY <1>1, <1>2, DividesProduct
<1>6. k.opslimit % opsDivisor = 0 /\ k.opslimit \div opsDivisor = R
  BY <1>1, <1>2, DividesProduct
<1>7. opsDivisor < Width
  <2>1. opsDivisor <= R * opsDivisor
    BY <1>1
  <2>2. QED
    BY <1>1, <1>2, <2>1, KeyFileAssumption
<1>8. DecodeKdfParams(k) = TrailingZeros(n)
  BY <1>1, <1>3, <1>5, <1>6, <1>7 DEF DecodeKdfParams, divisor, opsDivisor
<1>9. QED
  BY <1>4, <1>8, KeyFileAssumption DEF NoLogN

LEMMA CalculatedEncodes ==
  ASSUME NEW k, NEW i \in 0 .. Bits - 1, Limits(k.opslimit, k.memlimit) # NoLimits,
         CalculateKdfParams(i, FALSE) = Limits(k.opslimit, k.memlimit)
  PROVE  Encodes(k, i)
<1>1. LimitsOf(i) = Limits(k.opslimit, k.memlimit)
  BY DEF CalculateKdfParams
<1>2. QED
  BY <1>1 DEF LimitsOf, Limits, Encodes

LEMMA EncodesCalculated ==
  ASSUME NEW k, IsLimits(k), NEW i \in 0 .. Bits - 1, Encodes(k, i)
  PROVE  CalculateKdfParams(i, FALSE) = Limits(k.opslimit, k.memlimit)
<1>1. i \in Nat /\ ~(i >= Bits)
  BY KeyFileAssumption
<1>2. ~(k.opslimit >= Width) /\ ~(k.memlimit >= Width)
  BY KeyFileAssumption DEF IsLimits
<1>3. CalculateKdfParams(i, FALSE) = LimitsOf(i)
  BY <1>1, <1>2 DEF CalculateKdfParams, Encodes
<1>4. QED
  BY <1>3 DEF LimitsOf, Encodes

\* Limits decode exactly when they are those of some log_n.
LEMMA DecodeExact ==
  ASSUME NEW k, IsLimits(k)
  PROVE  LET n == DecodeKdfParams(k) IN
         IF n = NoLogN
         THEN \A i \in 0 .. Bits - 1 :
                CalculateKdfParams(i, FALSE) \notin {Limits(k.opslimit, k.memlimit)} \ {NoLimits}
         ELSE CalculateKdfParams(n, FALSE) = Limits(k.opslimit, k.memlimit)
BY DecodedEncodes, EncodedDecodes, CalculatedEncodes, EncodesCalculated

\* A multiple q of the limits of log_n i, or less than them.
LEMMA Compared ==
  ASSUME NEW k, NEW i \in Nat, NEW p, NEW j \in Nat, Encodes(k, i), Encodes(p, j)
  PROVE  /\ i < j => k.opslimit < p.opslimit /\ k.memlimit < p.memlimit
         /\ i >= j => k.opslimit >= p.opslimit /\ k.memlimit >= p.memlimit
         /\ i <= j => \E q \in Nat \ {0} : p.memlimit = q * k.memlimit
<1> DEFINE n == Shifted[i]
           m == Shifted[j]
           ops == OpsMultiplier * R
           mem == MemMultiplier * R
<1>1. n \in Nat \ {0} /\ m \in Nat \ {0} /\ ops \in Nat \ {0} /\ mem \in Nat \ {0}
  BY ShiftedPositive, KeyFileAssumption
<1>2. /\ OpsMultiplier * n * R = ops * n /\ MemMultiplier * n * R = mem * n
      /\ OpsMultiplier * m * R = ops * m /\ MemMultiplier * m * R = mem * m
  BY <1>1, KeyFileAssumption
<1>3. /\ k.opslimit = ops * n /\ k.memlimit = mem * n
      /\ p.opslimit = ops * m /\ p.memlimit = mem * m
  BY <1>2 DEF Encodes
<1>4. i < j => n < m
  <2> SUFFICES ASSUME i < j PROVE n < m
    OBVIOUS
  <2>1. i + 1 \in Nat /\ i + 1 <= j
    OBVIOUS
  <2>2. PICK q \in Nat \ {0} : m = q * Shifted[i + 1]
    BY <2>1, ShiftedDivides
  <2>3. Shifted[i + 1] = 2 * n
    BY ShiftedStep
  <2> HIDE DEF n, m
  <2>4. m = q * (2 * n)
    BY <2>2, <2>3
  <2>5. QED
    BY <1>1, <2>4
<1>5. i >= j => n >= m
  <2> SUFFICES ASSUME i >= j PROVE n >= m
    OBVIOUS
  <2>1. PICK q \in Nat \ {0} : n = q * m
    BY ShiftedDivides
  <2> HIDE DEF n, m
  <2>2. QED
    BY <1>1, <2>1
<1>6. ASSUME i <= j PROVE \E q \in Nat \ {0} : mem * m = q * (mem * n)
  <2>1. PICK q \in Nat \ {0} : m = q * n
    BY <1>6, ShiftedDivides
  <2> HIDE DEF n, m, mem
  <2>2. mem * m = q * (mem * n)
    BY <1>1, <2>1
  <2>3. QED
    BY <2>2
<1> HIDE DEF n, m, ops, mem
<1>7. (n < m => ops * n < ops * m /\ mem * n < mem * m)
      /\ (n >= m => ops * n >= ops * m /\ mem * n >= mem * m)
  BY <1>1
<1>8. QED
  BY <1>3, <1>4, <1>5, <1>6, <1>7

\* What a use of an encrypted key comes to, of which inspection knows only the limits.
LEMMA UseOutcomes ==
  ASSUME NEW k, IsEncrypted(k), NEW pw \in Password
  PROVE  LET status == UseKey(k, pw).status IN
         IF OverBudget(k.memlimit) THEN status = "KdfOverBudget"
         ELSE IF DecodeKdfParams(k) = NoLogN THEN status = "ScryptParamError"
         ELSE status \in {"ok", "ChecksumFailed", "InvalidSecretKey"}
<1>1. ExtractKey(k, pw) = Decrypt(k, pw)
  BY KeyFileAssumption DEF ExtractKey
<1>2. CASE OverBudget(k.memlimit)
  BY <1>1, <1>2 DEF UseKey, Decrypt, Failed
<1>3. CASE ~OverBudget(k.memlimit) /\ DecodeKdfParams(k) = NoLogN
  BY <1>1, <1>3 DEF UseKey, Decrypt, KdfParams, Failed
<1>4. CASE ~OverBudget(k.memlimit) /\ DecodeKdfParams(k) # NoLogN
  <2>1. KdfParams(k) = "ok"
    BY <1>4 DEF KdfParams
  <2>2. Decrypt(k, pw).status \in {"ok", "ChecksumFailed"}
    BY <1>4, <2>1 DEF Decrypt, Failed, Opened
  <2>3. UseKey(k, pw).status \in {Decrypt(k, pw).status, "InvalidSecretKey"}
    BY <1>1 DEF UseKey, Failed
  <2>4. QED
    BY <1>4, <2>2, <2>3
<1>5. QED
  BY <1>2, <1>3, <1>4

LEMMA Foretold ==
  ASSUME NEW k, IsLimits(k), IsEncrypted(k)
  PROVE  LET said == InspectSecretKey(k)
             uses == {UseKey(k, pw).status : pw \in Password}
         IN IF said.status # "inspected"
            THEN uses \cap {"ok", "ChecksumFailed", "InvalidSecretKey"} = {}
            ELSE /\ (said.level = "Unsupported") <=> (uses = {"KdfOverBudget"})
                 /\ "ScryptParamError" \notin uses
                 /\ said.asked => "KdfOverBudget" \notin uses
                 /\ IsWeakKdf(k) <=> said.level \in {"Medium", "Low"}
                 /\ IsWeakKdf(k) => said.weaker * k.memlimit = ProductionLimits.memlimit
<1> DEFINE said == InspectSecretKey(k)
           uses == {UseKey(k, pw).status : pw \in Password}
           i == DecodeKdfParams(k)
           over == OverBudget(k.memlimit)
           weak == \/ k.opslimit < ProductionLimits.opslimit
                   \/ k.memlimit < ProductionLimits.memlimit
<1>1. Password # {}
  BY KeyFileAssumption
<1>2. CASE i = NoLogN
  <2>1. said.status # "inspected"
    BY <1>2 DEF InspectSecretKey, Failed
  <2>2. uses \subseteq {"KdfOverBudget", "ScryptParamError"}
    BY <1>2, UseOutcomes
  <2> HIDE DEF said, uses
  <2>3. QED
    BY <2>1, <2>2 DEF said, uses
<1>3. CASE i # NoLogN
  <2>1. said = Report(SecurityLevel(k.memlimit, weak),
                      IF weak THEN ProductionLimits.memlimit \div k.memlimit ELSE 1,
                      SecurityLevel(k.memlimit, weak) # "Unsupported")
    BY <1>3 DEF InspectSecretKey
  <2>2. IsWeakKdf(k) <=> weak
    BY DEF IsWeakKdf
  <2>3. i \in Nat /\ Encodes(k, i)
    BY <1>3, DecodedEncodes, KeyFileAssumption
  <2>4. ProductionLogN \in Nat /\ Encodes(ProductionLimits, ProductionLogN)
    BY KeyFileAssumption DEF ProductionLimits, LimitsOf, Limits, Encodes
  <2> HIDE DEF i
  <2>5. /\ i < ProductionLogN => /\ k.opslimit < ProductionLimits.opslimit
                                 /\ k.memlimit < ProductionLimits.memlimit
        /\ i >= ProductionLogN => /\ k.opslimit >= ProductionLimits.opslimit
                                  /\ k.memlimit >= ProductionLimits.memlimit
        /\ i <= ProductionLogN =>
              \E q \in Nat \ {0} : ProductionLimits.memlimit = q * k.memlimit
    BY <2>3, <2>4, Compared
  <2>6. /\ k.memlimit \in Nat \ {0} /\ k.opslimit \in Nat
        /\ ProductionLimits.memlimit \in Nat /\ ProductionLimits.opslimit \in Nat
    BY <2>3, <2>4, ShiftedPositive, KeyFileAssumption DEF Encodes
  <2>7. weak <=> i < ProductionLogN
    BY <2>3, <2>4, <2>5, <2>6
  <2>8. weak => ~over
    BY <2>3, <2>4, <2>5, <2>6, <2>7 DEF OverBudget
  <2>9. ASSUME weak PROVE (ProductionLimits.memlimit \div k.memlimit) * k.memlimit = ProductionLimits.memlimit
    <3>1. PICK q \in Nat \ {0} : ProductionLimits.memlimit = q * k.memlimit
      BY <2>3, <2>4, <2>5, <2>7, <2>9
    <3>2. QED
      BY <2>6, <3>1, DividesProduct
  <2> HIDE DEF weak, over
  <2>10. /\ said.status = "inspected"
         /\ said.level = SecurityLevel(k.memlimit, weak)
         /\ said.asked = (said.level # "Unsupported")
         /\ weak => said.weaker = ProductionLimits.memlimit \div k.memlimit
    BY <2>1 DEF Report
  <2>11. /\ said.level = "Unsupported" <=> over
         /\ said.level \in {"Medium", "Low"} <=> weak /\ ~over
    BY <2>10 DEF SecurityLevel, over
  <2>12. IF over THEN uses = {"KdfOverBudget"}
         ELSE uses \subseteq {"ok", "ChecksumFailed", "InvalidSecretKey"}
    BY <1>1, <1>3, UseOutcomes DEF over, i
  <2> HIDE DEF said, uses
  <2>13. /\ (said.level = "Unsupported") <=> (uses = {"KdfOverBudget"})
         /\ "ScryptParamError" \notin uses
         /\ said.asked => "KdfOverBudget" \notin uses
    <3>1. CASE over
      <4>1. uses = {"KdfOverBudget"} /\ said.level = "Unsupported" /\ said.asked = FALSE
        BY <2>10, <2>11, <2>12, <3>1
      <4>2. QED
        BY <4>1
    <3>2. CASE ~over
      <4>1. said.level # "Unsupported" /\ uses \subseteq {"ok", "ChecksumFailed", "InvalidSecretKey"}
        BY <2>11, <2>12, <3>2
      <4>2. "KdfOverBudget" \notin uses /\ "ScryptParamError" \notin uses
        BY <4>1
      <4>3. QED
        BY <4>1, <4>2
    <3>3. QED
      BY <3>1, <3>2
  <2>14. /\ IsWeakKdf(k) <=> said.level \in {"Medium", "Low"}
         /\ IsWeakKdf(k) => said.weaker * k.memlimit = ProductionLimits.memlimit
    BY <2>2, <2>8, <2>9, <2>10, <2>11
  <2>15. QED
    BY <2>10, <2>13, <2>14 DEF said, uses
<1>4. QED
  BY <1>2, <1>3

-----------------------------------------------------------------------------
\* A pad put on and taken off again leaves nothing; another one leaves both.
LEMMA TwoPads ==
  ASSUME NEW v, NEW pad, NEW other
  PROVE  LET x == Xor(Xor(Plain(v), pad), other) IN
         /\ Xor(Plain(v), pad) = [base |-> v, pads |-> {pad}]
         /\ x.base = v
         /\ other = pad => x = Plain(v)
         /\ other # pad => x.pads # {}
<1>1. Xor(Plain(v), pad) = [base |-> v, pads |-> {pad}]
  BY DEF Xor, Plain
<1>2. Xor([base |-> v, pads |-> {pad}], other) =
         [base |-> v, pads |-> IF other \in {pad} THEN {pad} \ {other} ELSE {pad} \union {other}]
  BY DEF Xor
<1>3. {pad} \ {pad} = {}
  OBVIOUS
<1>4. QED
  BY <1>1, <1>2, <1>3 DEF Plain

\* XOR keeps what is underneath.
LEMMA XorKeepsBase ==
  ASSUME NEW x, IsMaterial(x), NEW pad
  PROVE  Xor(x, pad).base = x.base /\ IsMaterial(Xor(x, pad))
BY DEF Xor, IsMaterial

LEMMA LimitsTyped ==
  /\ Width > 0 /\ ProductionLimits.memlimit \in 0 .. Width - 1
  /\ \A mem \in Int : ~OverBudget(mem) => mem <= ProductionLimits.memlimit
  /\ \A n \in LogN, weak \in BOOLEAN :
        LET l == CalculateKdfParams(n, weak) IN l.memlimit \in Int /\ (KdfParams(l) = "ok" => IsLimits(l))
<1>1. \A n \in Nat : /\ MemMultiplier * Shifted[n] * R \in Nat
                     /\ OpsMultiplier * Shifted[n] * R \in Nat
  BY ShiftedPositive, KeyFileAssumption
<1>2. \A n \in Nat : /\ LimitsOf(n).memlimit = MemMultiplier * Shifted[n] * R
                     /\ LimitsOf(n).opslimit = OpsMultiplier * Shifted[n] * R
  BY DEF LimitsOf, Limits
<1>3. Width > 0 /\ ProductionLimits.memlimit \in 0 .. Width - 1
  <2>1. MemMultiplier * R * Shifted[ProductionLogN] = MemMultiplier * Shifted[ProductionLogN] * R
    BY ShiftedPositive, KeyFileAssumption
  <2>2. ProductionLimits.memlimit = MemMultiplier * Shifted[ProductionLogN] * R
    BY <1>2, KeyFileAssumption DEF ProductionLimits
  <2>3. ProductionLimits.memlimit \in Nat /\ ProductionLimits.memlimit < Width /\ Width \in Nat
    BY <1>1, <2>1, <2>2, KeyFileAssumption
  <2>4. QED
    BY <2>3
<1>4. \A mem \in Int : ~OverBudget(mem) => mem <= ProductionLimits.memlimit
  BY <1>3, KeyFileAssumption DEF OverBudget
<1>5. ASSUME NEW n \in LogN, NEW weak \in BOOLEAN
      PROVE  LET l == CalculateKdfParams(n, weak)
             IN  l.memlimit \in Int /\ (KdfParams(l) = "ok" => IsLimits(l))
  <2> DEFINE l == CalculateKdfParams(n, weak)
  <2>1. \/ l = LimitsOf(WeakLogN) \/ l = NoLimits
        \/ /\ l = LimitsOf(n) /\ ~(OpsMultiplier * Shifted[n] * R >= Width)
           /\ ~(MemMultiplier * Shifted[n] * R >= Width)
    BY DEF CalculateKdfParams
  <2> HIDE DEF l
  <2>2. CASE l = LimitsOf(WeakLogN)
    <3>1. l.memlimit \in Nat
      BY <1>1, <1>2, <2>2, KeyFileAssumption
    <3>2. OpsMultiplier * R * Shifted[WeakLogN] = OpsMultiplier * Shifted[WeakLogN] * R
      BY ShiftedPositive, KeyFileAssumption
    <3>3. l.opslimit \in Nat /\ l.opslimit < Width
      BY <1>1, <1>2, <2>2, <3>2, KeyFileAssumption
    <3>4. KdfParams(l) = "ok" => l.memlimit <= ProductionLimits.memlimit
      BY <1>4, <3>1 DEF KdfParams
    <3>5. l.memlimit \in Int /\ (KdfParams(l) = "ok" => IsLimits(l))
      BY <1>3, <3>1, <3>3, <3>4, KeyFileAssumption DEF IsLimits
    <3>6. QED
      BY <3>5 DEF l
  <2>3. CASE l = NoLimits
    <3>1. l.memlimit = Width /\ OverBudget(l.memlimit)
      BY <1>3, <2>3, KeyFileAssumption DEF NoLimits, Limits, OverBudget
    <3>2. l.memlimit \in Int /\ KdfParams(l) # "ok"
      BY <3>1, KeyFileAssumption DEF KdfParams
    <3>3. QED
      BY <3>2 DEF l
  <2>4. CASE /\ l = LimitsOf(n) /\ ~(OpsMultiplier * Shifted[n] * R >= Width)
             /\ ~(MemMultiplier * Shifted[n] * R >= Width)
    <3>1. n \in Nat
      BY KeyFileAssumption
    <3>2. l.memlimit \in 0 .. Width - 1 /\ l.opslimit \in 0 .. Width - 1
      BY <1>1, <1>2, <2>4, <3>1, KeyFileAssumption
    <3>3. l.memlimit \in Int /\ IsLimits(l)
      BY <3>2 DEF IsLimits
    <3>4. QED
      BY <3>3 DEF l
  <2>5. QED
    BY <2>1, <2>2, <2>3, <2>4
<1>6. QED
  BY <1>3, <1>4, <1>5

\* The KDF is run with what the key names, and only within the budget.
LEMMA ExtractWithinBudget ==
  ASSUME NEW k, k.memlimit \in Int, NEW pw
  PROVE  \A mem \in ExtractKey(k, pw).kdf : mem \in Int /\ mem <= ProductionLimits.memlimit
<1>1. \A mem \in Decrypt(k, pw).kdf : mem = k.memlimit /\ ~OverBudget(k.memlimit)
  BY DEF Decrypt, Failed, Opened
<1>2. ExtractKey(k, pw).kdf = {} \/ ExtractKey(k, pw) = Decrypt(k, pw)
  BY DEF ExtractKey, Opened, Failed
<1>3. QED
  BY <1>1, <1>2, LimitsTyped

\* The key a file gives is the genuine one, unless rot befell the bare form.
LEMMA ExtractGenuine ==
  ASSUME NEW f, IsFile(f), Sound(f), ~f.past.bare, NEW pw,
         ExtractKey(f.key, pw).status = "ok"
  PROVE  /\ ExtractKey(f.key, pw).keynum = GenuineKeynum
         /\ ExtractKey(f.key, pw).secret = GenuineSecret
<1> DEFINE k == f.key
<1>1. CASE k.alg = "none"
  BY <1>1 DEF ExtractKey, IsEncrypted, Opened, Sound
<1>2. CASE k.alg = "Sc"
  <2> DEFINE pad == Derive(pw, k.salt, DecodeKdfParams(k))
             keynum == Xor(k.keynum, pad)
             secret == Xor(k.secret, pad)
  <2>1. ExtractKey(k, pw) = Decrypt(k, pw)
    BY <1>2 DEF ExtractKey, IsEncrypted, Failed
  <2>2. /\ Xor(k.checksum, pad) = Checksum(keynum, secret)
        /\ Decrypt(k, pw).keynum = keynum /\ Decrypt(k, pw).secret = secret
    BY <2>1 DEF Decrypt, Failed, Opened
  <2>3. Xor(k.checksum, pad).base = k.checksum.base
    BY XorKeepsBase DEF IsFile, IsKey
  <2>4. k.checksum.base = <<"B2", keynum, secret>>
    BY <2>2, <2>3 DEF Checksum, Plain
  <2>5. k.checksum.base \in {<<"B2", GenuineKeynum, GenuineSecret>>, <<"rot">>}
    BY <1>2 DEF Sound, GenuineChecksum, Checksum, Plain
  <2>6. keynum = GenuineKeynum /\ secret = GenuineSecret
    BY <2>4, <2>5
  <2>7. QED
    BY <2>1, <2>2, <2>6
<1>3. QED
  BY <1>1, <1>2 DEF Sound

\* A file nothing has happened to opens with its password, and with no other.
LEMMA FreshOpens ==
  ASSUME NEW f, IsFile(f), Fresh(f), ~f.past.rotted,
         NEW pw \in Password \cup {NoPassword}
  PROVE  LET got == ExtractKey(f.key, pw) IN
         IF pw = f.past.password \/ ~IsEncrypted(f.key)
         THEN got.status = "ok" /\ got.keynum = GenuineKeynum /\ got.secret = GenuineSecret
         ELSE got.status # "ok"
<1> DEFINE k == f.key
           own == f.past.password
<1>1. CASE k = NewUnencrypted(GenuineKeynum, GenuineSecret)
  BY <1>1 DEF NewUnencrypted, ExtractKey, IsEncrypted, Opened
<1>2. CASE /\ own \in Password /\ KdfParams(k) = "ok"
           /\ k = NewEncrypted(GenuineKeynum, GenuineSecret, own, k.salt, k)
  <2> DEFINE n == DecodeKdfParams(k)
             with == Derive(own, k.salt, n)
             pad == Derive(pw, k.salt, n)
             keynum == Xor(k.keynum, pad)
             secret == Xor(k.secret, pad)
  <2>1. /\ IsEncrypted(k)
        /\ k.keynum = Xor(GenuineKeynum, with) /\ k.secret = Xor(GenuineSecret, with)
        /\ k.checksum = Xor(GenuineChecksum, with)
    BY <1>2 DEF NewEncrypted, IsEncrypted, GenuineChecksum
  <2>2. NoPassword \notin Password
    BY KeyFileAssumption
  <2>3. CASE pw = NoPassword
    BY <1>2, <2>1, <2>2, <2>3 DEF ExtractKey, Failed
  <2>4. CASE pw \in Password
    <3>1. ExtractKey(k, pw) = Decrypt(k, pw)
      BY <2>1, <2>2, <2>4 DEF ExtractKey
    <3>2. Decrypt(k, pw) = IF Xor(k.checksum, pad) = Checksum(keynum, secret)
                           THEN Opened(keynum, secret, {k.memlimit})
                           ELSE Failed("ChecksumFailed", {k.memlimit})
      <4>1. ~OverBudget(k.memlimit)
        BY <1>2 DEF KdfParams
      <4>2. QED
        BY <1>2, <4>1 DEF Decrypt
    <3>3. CASE pw = own
      <4>1. keynum = GenuineKeynum /\ secret = GenuineSecret
        BY <2>1, <3>3, TwoPads DEF GenuineKeynum, GenuineSecret
      <4>2. Xor(k.checksum, pad) = GenuineChecksum
        BY <2>1, <3>3, TwoPads DEF GenuineChecksum, Checksum
      <4>3. QED
        BY <3>1, <3>2, <3>3, <4>1, <4>2 DEF GenuineChecksum, Opened
    <3>4. CASE pw # own
      <4>1. pad # with
        BY <3>4 DEF Derive
      <4>2. Xor(k.checksum, pad).pads # {}
        BY <2>1, <4>1, TwoPads DEF GenuineChecksum, Checksum
      <4>3. Checksum(keynum, secret).pads = {}
        BY DEF Checksum, Plain
      <4>4. Decrypt(k, pw).status # "ok"
        BY <3>2, <4>2, <4>3 DEF Failed
      <4>5. QED
        BY <2>1, <3>1, <3>4, <4>4
    <3>5. QED
      BY <3>3, <3>4
  <2>5. QED
    BY <2>3, <2>4
<1>3. QED
  BY <1>1, <1>2 DEF Fresh

-----------------------------------------------------------------------------
(* What is written is a good file again.                                   *)

LEMMA ExtractMaterial ==
  ASSUME NEW k, IsKey(k), NEW pw
  PROVE  IsMaterial(ExtractKey(k, pw).keynum) /\ IsMaterial(ExtractKey(k, pw).secret)
<1>1. IsMaterial(Plain(<<"zero">>))
  BY DEF IsMaterial, Plain
<1>2. QED
  BY <1>1, XorKeepsBase DEF ExtractKey, Decrypt, Opened, Failed, IsKey

LEMMA BareIsGood ==
  ASSUME NEW f, GoodFile(f), NEW pw, ExtractKey(f.key, pw).status = "ok"
  PROVE  LET got == ExtractKey(f.key, pw) IN
         GoodFile(Kept(NewUnencrypted(got.keynum, got.secret), NoPassword,
                       f.past.rotted, f.past.bare))
<1> DEFINE got == ExtractKey(f.key, pw)
           k == NewUnencrypted(got.keynum, got.secret)
           g == Kept(k, NoPassword, f.past.rotted, f.past.bare)
<1>1. IsMaterial(got.keynum) /\ IsMaterial(got.secret)
  BY ExtractMaterial DEF GoodFile, IsFile
<1>2. IsMaterial(NoChecksum)
  BY DEF NoChecksum, Plain, IsMaterial
<1>3. IsKey(k)
  BY <1>1, <1>2, LimitsTyped, KeyFileAssumption DEF NewUnencrypted, IsKey, IsLimits
<1>4. g.key = k /\ g.past = [password |-> NoPassword, rotted |-> f.past.rotted, bare |-> f.past.bare]
  BY DEF Kept
<1>5. IsFile(g)
  BY <1>3, <1>4 DEF IsFile, GoodFile, Kept
<1>6. ~f.past.bare => got.keynum = GenuineKeynum /\ got.secret = GenuineSecret
  BY ExtractGenuine DEF GoodFile
<1>7. Sound(g)
  BY <1>4, <1>6 DEF Sound, NewUnencrypted
<1>8. Fresh(g)
  BY <1>4, <1>6 DEF Fresh, GoodFile, IsFile
<1>9. QED
  BY <1>5, <1>7, <1>8 DEF GoodFile

LEMMA EncryptedIsGood ==
  ASSUME NEW keynum, NEW secret, IsMaterial(keynum), IsMaterial(secret),
         NEW pw \in Password, NEW salt,
         NEW limits, IsLimits(limits), KdfParams(limits) = "ok",
         NEW rotted \in BOOLEAN, NEW bare \in BOOLEAN, bare => rotted,
         ~bare => keynum = GenuineKeynum /\ secret = GenuineSecret
  PROVE  GoodFile(Kept(NewEncrypted(keynum, secret, pw, salt, limits), pw, rotted, bare))
<1> DEFINE k == NewEncrypted(keynum, secret, pw, salt, limits)
           pad == Derive(pw, salt, DecodeKdfParams(limits))
           g == Kept(k, pw, rotted, bare)
<1>1. /\ k.alg = "Sc" /\ k.salt = salt
      /\ k.opslimit = limits.opslimit /\ k.memlimit = limits.memlimit
      /\ k.keynum = Xor(keynum, pad) /\ k.secret = Xor(secret, pad)
      /\ k.checksum = Xor(Checksum(keynum, secret), pad)
  BY DEF NewEncrypted
<1>2. IsMaterial(Checksum(keynum, secret))
  BY DEF Checksum, Plain, IsMaterial
<1>3. IsKey(k)
  <2>1. IsMaterial(k.keynum) /\ IsMaterial(k.secret) /\ IsMaterial(k.checksum)
    BY <1>1, <1>2, XorKeepsBase
  <2>2. QED
    BY <1>1, <2>1 DEF IsKey, IsLimits, NewEncrypted
<1>4. g.key = k /\ g.past = [password |-> pw, rotted |-> rotted, bare |-> bare]
  BY DEF Kept
<1>5. IsFile(g)
  BY <1>3, <1>4 DEF IsFile, Kept
<1>6. k.checksum.base = Checksum(keynum, secret).base
  BY <1>1, <1>2, XorKeepsBase
<1>7. Sound(g)
  BY <1>1, <1>4, <1>6 DEF Sound, GenuineChecksum
<1>8. Fresh(g)
  <2> SUFFICES ASSUME ~rotted PROVE Fresh(g)
    BY <1>4 DEF Fresh
  <2>1. keynum = GenuineKeynum /\ secret = GenuineSecret
    OBVIOUS
  <2>2. DecodeKdfParams(k) = DecodeKdfParams(limits) /\ KdfParams(k) = "ok"
    BY <1>1 DEF DecodeKdfParams, KdfParams
  <2>3. k = NewEncrypted(GenuineKeynum, GenuineSecret, pw, k.salt, k)
    BY <1>1, <2>1, <2>2 DEF NewEncrypted
  <2>4. QED
    BY <1>4, <2>2, <2>3 DEF Fresh
<1>9. QED
  BY <1>5, <1>7, <1>8 DEF GoodFile

\* Rot is remembered, and spoils the checksum or the form, if not the field alone.
LEMMA RotIsGood ==
  ASSUME GoodFile(file), Rot
  PROVE  GoodFile(file')
<1>1. PICK k \in RottenForms(file.key) :
         file' = Kept(k, file.past.password, TRUE,
                      file.past.bare \/ k.alg # "Sc" \/ ~IsEncrypted(file.key))
  BY DEF Rot
<1>2. IsKey(file.key) /\ IsFile(file)
  BY DEF GoodFile, IsFile
<1>3. file'.key = k /\ file'.past.rotted = TRUE /\ file'.past.password = file.past.password
      /\ file'.past.bare = (file.past.bare \/ k.alg # "Sc" \/ ~IsEncrypted(file.key))
      /\ file' = Kept(k, file'.past.password, file'.past.rotted, file'.past.bare)
  <2> DEFINE bare == file.past.bare \/ k.alg # "Sc" \/ ~IsEncrypted(file.key)
  <2> HIDE DEF bare
  <2>1. file' = Kept(k, file.past.password, TRUE, bare)
    BY <1>1 DEF bare
  <2>2. /\ file'.key = k /\ file'.past.rotted = TRUE /\ file'.past.bare = bare
        /\ file'.past.password = file.past.password
        /\ file' = Kept(k, file'.past.password, file'.past.rotted, file'.past.bare)
    BY <2>1 DEF Kept
  <2>3. QED
    BY <2>2 DEF bare
<1>4. IsKey(k) /\ (k.checksum = file.key.checksum \/ k.checksum = Rotten(file.key.checksum))
  <2>1. \A l \in RottenLimits : IsLimits(l)
    BY KeyFileAssumption DEF IsLimits
  <2>2. \A x : IsMaterial(x) => IsMaterial(Rotten(x))
    BY DEF IsMaterial, Rotten
  <2>3. QED
    BY <1>2, <2>1, <2>2 DEF RottenForms, IsKey, IsLimits
<1>5. IsFile(file')
  BY <1>2, <1>3, <1>4 DEF IsFile
<1>6. Fresh(file')
  BY <1>3 DEF Fresh
<1>7. Sound(file')
  <2> SUFFICES ASSUME ~file'.past.bare PROVE k.alg = "Sc" /\
                      k.checksum.base \in {GenuineChecksum.base, <<"rot">>}
    BY <1>3 DEF Sound
  <2>1. ~file.past.bare /\ k.alg = "Sc" /\ file.key.alg = "Sc"
    BY <1>3 DEF IsEncrypted
  <2>2. file.key.checksum.base \in {GenuineChecksum.base, <<"rot">>}
    BY <2>1 DEF GoodFile, Sound
  <2>3. Rotten(file.key.checksum).base = <<"rot">>
    BY <1>2 DEF IsKey, IsMaterial, Rotten
  <2>4. QED
    BY <1>4, <2>1, <2>2, <2>3
<1>8. QED
  BY <1>5, <1>6, <1>7 DEF GoodFile

-----------------------------------------------------------------------------
(* The steps.                                                              *)

LEMMA KeyFileInit == Init => KeyFileInv
<1> SUFFICES ASSUME Init PROVE KeyFileInv OBVIOUS
<1>1. IsMaterial(GenuineKeynum) /\ IsMaterial(GenuineSecret) /\ IsMaterial(NoChecksum)
  BY DEF GenuineKeynum, GenuineSecret, NoChecksum, Plain, IsMaterial
<1>2. GoodFile(file)
  <2>1. CASE file = Kept(NewUnencrypted(GenuineKeynum, GenuineSecret), NoPassword, FALSE, FALSE)
    <3>1. /\ file.key = NewUnencrypted(GenuineKeynum, GenuineSecret)
          /\ file.past.password = NoPassword
          /\ file.past.rotted = FALSE /\ file.past.bare = FALSE
      BY <2>1 DEF Kept
    <3>2. IsKey(file.key)
      BY <1>1, <3>1, LimitsTyped, KeyFileAssumption DEF NewUnencrypted, IsKey, IsLimits
    <3>3. IsFile(file)
      <4>1. file = Kept(file.key, file.past.password, file.past.rotted, file.past.bare)
        BY <2>1, <3>1
      <4>2. QED
        BY <3>1, <3>2, <4>1 DEF IsFile
    <3>4. Fresh(file) /\ Sound(file)
      BY <3>1 DEF Fresh, Sound, NewUnencrypted
    <3>5. QED
      BY <3>3, <3>4 DEF GoodFile
  <2>2. ASSUME NEW pw \in Password, NEW n \in LogN, NEW weak \in BOOLEAN,
               KdfParams(CalculateKdfParams(n, weak)) = "ok",
               file = Kept(NewEncrypted(GenuineKeynum, GenuineSecret, pw, 0,
                                        CalculateKdfParams(n, weak)), pw, FALSE, FALSE)
        PROVE  GoodFile(file)
    <3>1. IsLimits(CalculateKdfParams(n, weak))
      BY <2>2, LimitsTyped
    <3>2. QED
      BY <1>1, <2>2, <3>1, EncryptedIsGood
  <2>3. QED
    BY <2>1, <2>2 DEF Init, Generated
<1>3. ASSUME NEW p \in Process PROVE JobInv(p) /\ OutcomeInv(job[p])
  <2>1. job[p] = Idle
    BY DEF Init
  <2>2. QED
    BY <2>1 DEF Idle, JobInv, OutcomeInv, JobOps
<1>4. DOMAIN job = Process /\ writes \in 0 .. MaxWrites /\ rots \in 0 .. MaxRot
  BY KeyFileAssumption DEF Init
<1>5. QED
  BY <1>2, <1>3, <1>4 DEF KeyFileInv

\* The other processes' copies stay as they are.
LEMMA JobsStep ==
  ASSUME KeyFileInv, NEW p \in Process, NEW j, job' = [job EXCEPT ![p] = j],
         j = [op |-> j.op, held |-> j.held, outcome |-> j.outcome],
         j.op \in JobOps, j.op # "idle" => GoodFile(j.held), OutcomeInv(j), GoodFile(file'),
         (writes \in 0 .. MaxWrites)', (rots \in 0 .. MaxRot)'
  PROVE  KeyFileInv'
<1>1. DOMAIN job' = Process /\ job'[p] = j /\ \A q \in Process \ {p} : job'[q] = job[q]
  BY DEF KeyFileInv
<1>2. \A q \in Process : JobInv(q)' /\ OutcomeInv(job'[q])
  BY <1>1 DEF KeyFileInv, JobInv
<1>3. QED
  BY <1>1, <1>2 DEF KeyFileInv

\* A process that finishes keeps its copy.
LEMMA FinishStep ==
  ASSUME KeyFileInv, NEW p \in Process, NEW outcome, Finish(p, outcome), GoodFile(file'),
         (writes \in 0 .. MaxWrites)', (rots \in 0 .. MaxRot)',
         job[p].op \in {"use", "inspect", "change"},
         job[p].op = "use" /\ outcome.status = "ok" =>
             /\ outcome.secret = GenuineSecret
             /\ job[p].held.past.bare \/ outcome.keynum = GenuineKeynum,
         job[p].op # "inspect" =>
             \A mem \in outcome.kdf : mem <= ProductionLimits.memlimit,
         job[p].op = "inspect" => outcome = InspectSecretKey(job[p].held.key)
  PROVE  KeyFileInv'
<1> DEFINE j == [op |-> Done[job[p].op], held |-> job[p].held, outcome |-> outcome]
<1>1. job' = [job EXCEPT ![p] = j]
  BY DEF Finish
<1>2. GoodFile(job[p].held)
  BY DEF KeyFileInv, JobInv
<1>3. /\ j.op = "used" => job[p].op = "use"
      /\ j.op = "changed" => job[p].op = "change"
      /\ j.op = "inspected" => job[p].op = "inspect"
      /\ j.op \in JobOps
  BY DEF Done, JobOps
<1>4. OutcomeInv(j)
  BY <1>3 DEF OutcomeInv
<1>5. QED
  BY <1>1, <1>2, <1>3, <1>4, JobsStep

\* How often a key has been written, and how much has rotted, stays within its bound.
LEMMA WritesBounded ==
  ASSUME KeyFileInv, rots' = rots, writes' = writes \/ (writes < MaxWrites /\ writes' = writes + 1)
  PROVE  (writes \in 0 .. MaxWrites)' /\ (rots \in 0 .. MaxRot)'
BY KeyFileAssumption DEF KeyFileInv

LEMMA UseStep ==
  ASSUME KeyFileInv, NEW p \in Process, NEW pw, Use(p, pw)
  PROVE  KeyFileInv'
<1> DEFINE f == job[p].held
           got == ExtractKey(f.key, pw)
           outcome == UseKey(f.key, pw)
<1>1. Finish(p, outcome) /\ job[p].op = "use" /\ file' = file
  BY DEF Use
<1>2. GoodFile(f) /\ GoodFile(file')
  BY <1>1 DEF KeyFileInv, JobInv
<1>3. \/ outcome = Failed("InvalidSecretKey", got.kdf)
      \/ outcome = got /\ (got.status = "ok" => got.secret = GenuineSecret)
  BY DEF UseKey, KeypairMatches
<1>4. \A mem \in got.kdf : mem <= ProductionLimits.memlimit
  BY <1>2, ExtractWithinBudget DEF GoodFile, IsFile, IsKey, IsLimits
<1>5. outcome.kdf = got.kdf
  BY <1>3 DEF Failed
<1>6. outcome.status = "ok" => /\ outcome.secret = GenuineSecret
                               /\ f.past.bare \/ outcome.keynum = GenuineKeynum
  <2> SUFFICES ASSUME outcome.status = "ok"
               PROVE  outcome.secret = GenuineSecret /\ (f.past.bare \/ outcome.keynum = GenuineKeynum)
    OBVIOUS
  <2>1. outcome = got /\ got.status = "ok" /\ got.secret = GenuineSecret
    BY <1>3 DEF Failed
  <2>2. ~f.past.bare => got.keynum = GenuineKeynum
    BY <1>2, <2>1, ExtractGenuine DEF GoodFile
  <2>3. QED
    BY <2>1, <2>2
<1>7. (writes \in 0 .. MaxWrites)' /\ (rots \in 0 .. MaxRot)'
  BY WritesBounded DEF Use
<1>8. QED
  BY <1>1, <1>2, <1>4, <1>5, <1>6, <1>7, FinishStep

LEMMA InspectStep ==
  ASSUME KeyFileInv, NEW p \in Process, Inspect(p)
  PROVE  KeyFileInv'
<1>1. Finish(p, InspectSecretKey(job[p].held.key)) /\ job[p].op = "inspect" /\ file' = file
  BY DEF Inspect
<1>2. GoodFile(file')
  BY <1>1 DEF KeyFileInv
<1>3. (writes \in 0 .. MaxWrites)' /\ (rots \in 0 .. MaxRot)'
  BY WritesBounded DEF Inspect
<1>4. QED
  BY <1>1, <1>2, <1>3, FinishStep

LEMMA RemoveStep ==
  ASSUME KeyFileInv, NEW p \in Process, NEW old, RemovePassword(p, old)
  PROVE  KeyFileInv'
<1> DEFINE f == job[p].held
           got == ExtractKey(f.key, old)
<1>1. job[p].op = "change" /\ Finish(p, got)
  BY DEF RemovePassword, WriteBack, Refuse
<1>2. GoodFile(f) /\ GoodFile(file)
  BY <1>1 DEF KeyFileInv, JobInv
<1>3. \A mem \in got.kdf : mem <= ProductionLimits.memlimit
  BY <1>2, ExtractWithinBudget DEF GoodFile, IsFile, IsKey, IsLimits
<1>4. \/ /\ got.status = "ok"
         /\ file' = Kept(NewUnencrypted(got.keynum, got.secret), NoPassword,
                         f.past.rotted, f.past.bare)
      \/ file' = file
  BY DEF RemovePassword, WriteBack, Refuse
<1>5. GoodFile(file')
  BY <1>2, <1>4, BareIsGood
<1>6. (writes \in 0 .. MaxWrites)' /\ (rots \in 0 .. MaxRot)'
  BY WritesBounded DEF RemovePassword, WriteBack, Refuse
<1>7. QED
  BY <1>1, <1>3, <1>5, <1>6, FinishStep

LEMMA SetStep ==
  ASSUME KeyFileInv, NEW p \in Process, NEW old, NEW new \in Password \cup {NoPassword},
         NEW n \in LogN, NEW weak \in BOOLEAN, SetPassword(p, old, new, n, weak)
  PROVE  KeyFileInv'
<1> DEFINE f == job[p].held
           got == ExtractKey(f.key, old)
           limits == CalculateKdfParams(n, weak)
           verdict == KdfParams(limits)
           done == [got EXCEPT !.kdf = @ \cup {limits.memlimit}]
           outcome == IF got.status # "ok" THEN got
                      ELSE IF new = NoPassword THEN Failed("PasswordRequired", got.kdf)
                      ELSE IF limits = NoLimits THEN Failed("ScryptParamError", got.kdf)
                      ELSE IF verdict # "ok" THEN Failed(verdict, got.kdf)
                      ELSE done
<1>1. /\ job[p].op = "change"
      /\ IF outcome.status = "ok"
         THEN WriteBack(p, NewEncrypted(got.keynum, got.secret, new, writes + 1, limits),
                        new, outcome)
         ELSE Refuse(p, outcome)
  BY Zenon DEF SetPassword
<1>2. GoodFile(f) /\ GoodFile(file)
  BY <1>1 DEF KeyFileInv, JobInv
<1>3. \A mem \in got.kdf : mem <= ProductionLimits.memlimit
  BY <1>2, ExtractWithinBudget DEF GoodFile, IsFile, IsKey, IsLimits
<1>4. got = [status |-> got.status, keynum |-> got.keynum, secret |-> got.secret, kdf |-> got.kdf]
  BY DEF ExtractKey, Decrypt, Opened, Failed
<1>5. limits.memlimit \in Int /\ (verdict = "ok" => IsLimits(limits))
  BY LimitsTyped
<1>6. verdict = "ok" => limits.memlimit <= ProductionLimits.memlimit
  BY <1>5, LimitsTyped DEF KdfParams
<1>7. done.kdf = got.kdf \cup {limits.memlimit}
  <2> HIDE DEF got, limits
  <2>1. QED
    BY <1>4
<1> HIDE DEF got, limits, verdict, done
<1>8. \A mem \in outcome.kdf : mem <= ProductionLimits.memlimit
  BY <1>3, <1>6, <1>7 DEF Failed
<1>9. outcome.status = "ok" => got.status = "ok" /\ new # NoPassword /\ verdict = "ok"
  BY DEF Failed
<1> HIDE DEF outcome
<1>10. GoodFile(file')
  <2>1. CASE outcome.status # "ok"
    BY <1>1, <1>2, <2>1 DEF Refuse
  <2>2. CASE outcome.status = "ok"
    <3>1. file' = Kept(NewEncrypted(got.keynum, got.secret, new, writes + 1, limits), new,
                       f.past.rotted, f.past.bare)
      BY <1>1, <2>2 DEF WriteBack
    <3>2. IsMaterial(got.keynum) /\ IsMaterial(got.secret)
      BY <1>2, ExtractMaterial DEF got, GoodFile, IsFile
    <3>3. ~f.past.bare => got.keynum = GenuineKeynum /\ got.secret = GenuineSecret
      BY <1>2, <1>9, <2>2, ExtractGenuine DEF got, GoodFile
    <3>4. /\ f.past.rotted \in BOOLEAN /\ f.past.bare \in BOOLEAN
          /\ f.past.bare => f.past.rotted
      BY <1>2 DEF GoodFile, IsFile
    <3>5. new \in Password /\ KdfParams(limits) = "ok" /\ IsLimits(limits)
      BY <1>5, <1>9, <2>2 DEF verdict
    <3>6. QED
      BY <3>1, <3>2, <3>3, <3>4, <3>5, EncryptedIsGood
  <2>3. QED
    BY <2>1, <2>2
<1>11. Finish(p, outcome)
  BY <1>1 DEF WriteBack, Refuse
<1>12. (writes \in 0 .. MaxWrites)' /\ (rots \in 0 .. MaxRot)'
  BY <1>1, WritesBounded DEF WriteBack, Refuse
<1>13. QED
  BY <1>1, <1>8, <1>10, <1>11, <1>12, FinishStep

LEMMA LoadStep ==
  ASSUME KeyFileInv, NEW p \in Process, NEW op \in {"use", "inspect", "change"}, Load(p, op)
  PROVE  KeyFileInv'
<1> DEFINE j == IF Readable(file.key)
                THEN [op |-> op, held |-> file, outcome |-> Idle.outcome] ELSE Idle
<1>1. job' = [job EXCEPT ![p] = j] /\ GoodFile(file) /\ file' = file
  BY DEF Load, KeyFileInv
<1>2. /\ j = [op |-> j.op, held |-> j.held, outcome |-> j.outcome]
      /\ j.op # "idle" => j.held = file
      /\ j.op \notin {"used", "changed", "inspected"} /\ j.op \in JobOps
  BY DEF Idle, JobOps, Done
<1> HIDE DEF j
<1>3. OutcomeInv(j)
  BY <1>2 DEF OutcomeInv
<1>4. (writes \in 0 .. MaxWrites)' /\ (rots \in 0 .. MaxRot)'
  BY DEF Load, KeyFileInv
<1>5. QED
  BY <1>1, <1>2, <1>3, <1>4, JobsStep

LEMMA KeyFileStep == KeyFileInv /\ [Next]_vars => KeyFileInv'
<1> SUFFICES ASSUME KeyFileInv, [Next]_vars PROVE KeyFileInv' OBVIOUS
<1>1. CASE UNCHANGED vars
  BY <1>1 DEF vars, KeyFileInv, JobInv
<1>2. CASE Rot
  <2>1. GoodFile(file') /\ job' = job
    BY <1>2, RotIsGood DEF KeyFileInv, Rot
  <2>2. (writes \in 0 .. MaxWrites)' /\ (rots \in 0 .. MaxRot)'
    BY <1>2, KeyFileAssumption DEF KeyFileInv, Rot
  <2>3. QED
    BY <2>1, <2>2 DEF KeyFileInv, JobInv
<1>3. ASSUME NEW p \in Process, Change(p) PROVE KeyFileInv'
  <2>1. PICK old \in Password \cup {NoPassword} :
           \/ RemovePassword(p, old)
           \/ \E new \in Password \cup {NoPassword}, n \in LogN, weak \in BOOLEAN :
                SetPassword(p, old, new, n, weak)
    BY <1>3 DEF Change
  <2>2. QED
    BY <2>1, RemoveStep, SetStep
<1>4. ASSUME NEW p \in Process, NEW op \in {"use", "inspect", "change"}, Load(p, op)
      PROVE  KeyFileInv'
  BY <1>4, LoadStep
<1>5. ASSUME NEW p \in Process, NEW pw \in Password \cup {NoPassword}, Use(p, pw)
      PROVE  KeyFileInv'
  BY <1>5, UseStep
<1>6. ASSUME NEW p \in Process, Inspect(p) PROVE KeyFileInv'
  BY <1>6, InspectStep
<1>7. QED
  BY <1>1, <1>2, <1>3, <1>4, <1>5, <1>6 DEF Next, vars

LEMMA KeyFileInvariant == Spec => []KeyFileInv
BY KeyFileInit, KeyFileStep, PTL DEF Spec

-----------------------------------------------------------------------------
\* A file nothing has happened to opens with the password last written to it, gives the
\* generated key, and opens with no other password; whatever stale copies were changed.
THEOREM FileOpens == Spec => []OpensWithItsPassword
<1>1. KeyFileInv => OpensWithItsPassword
  <2> SUFFICES ASSUME KeyFileInv, ~file.past.rotted, NEW pw \in Password \cup {NoPassword}
               PROVE  LET got == ExtractKey(file.key, pw) IN
                      IF pw = file.past.password \/ ~IsEncrypted(file.key)
                      THEN /\ got.status = "ok" /\ got.keynum = GenuineKeynum
                           /\ got.secret = GenuineSecret
                      ELSE got.status # "ok"
    BY DEF OpensWithItsPassword
  <2>1. IsFile(file) /\ Fresh(file)
    BY DEF KeyFileInv, GoodFile
  <2>2. QED
    BY <2>1, FreshOpens
<1>2. QED
  BY <1>1, KeyFileInvariant, PTL

\* Signing and recreating never work with another secret, nor, unless rot befell the
\* form without a checksum, under another key number.
THEOREM OnlyTheGenuineKey == Spec => []NeverAnotherKey
<1>1. KeyFileInv => NeverAnotherKey
  BY DEF KeyFileInv, OutcomeInv, NeverAnotherKey
<1>2. QED
  BY <1>1, KeyFileInvariant, PTL

\* Scrypt is never run with more memory than the production limit.
THEOREM KdfInBudget == Spec => []KdfWithinBudget
<1>1. KeyFileInv => KdfWithinBudget
  BY DEF KeyFileInv, OutcomeInv, KdfWithinBudget
<1>2. QED
  BY <1>1, KeyFileInvariant, PTL

\* The file's limits fit their integers, and the password last written is one a user may
\* type, or none.
THEOREM KeyFileTypeCorrect == Spec => []KeyFileTypeOK
<1>1. KeyFileInv => KeyFileTypeOK
  BY DEF KeyFileInv, GoodFile, IsFile, IsKey, IsLimits, JobInv, JobOps, KeyFileTypeOK
<1>2. QED
  BY <1>1, KeyFileInvariant, PTL

\* Limits decode to a log_n exactly when they are the limits of that log_n, whatever the
\* width and the multipliers, for every pair that rot may leave.
THEOREM DecodedExactly == Spec => []LimitsDecodeExactly
<1>1. KeyFileInv => LimitsDecodeExactly
  BY DecodeExact DEF KeyFileInv, GoodFile, IsFile, IsKey, LimitsDecodeExactly
<1>2. QED
  BY <1>1, KeyFileInvariant, PTL

\* What inspection says of an encrypted key is what a use of that copy comes to.
THEOREM InspectionForetells == Spec => []InspectForetellsUse
<1>1. KeyFileInv => InspectForetellsUse
  <2> SUFFICES ASSUME KeyFileInv, NEW p \in Process, job[p].op = "inspected",
                      IsEncrypted(job[p].held.key)
               PROVE  LET k    == job[p].held.key
                          said == job[p].outcome
                          uses == {UseKey(k, pw).status : pw \in Password}
                      IN IF said.status # "inspected"
                         THEN uses \cap {"ok", "ChecksumFailed", "InvalidSecretKey"} = {}
                         ELSE /\ (said.level = "Unsupported") <=> (uses = {"KdfOverBudget"})
                              /\ "ScryptParamError" \notin uses
                              /\ said.asked => "KdfOverBudget" \notin uses
                              /\ IsWeakKdf(k) <=> said.level \in {"Medium", "Low"}
                              /\ IsWeakKdf(k) => said.weaker * k.memlimit = ProductionLimits.memlimit
    BY DEF InspectForetellsUse
  <2>1. job[p].outcome = InspectSecretKey(job[p].held.key)
    BY DEF KeyFileInv, OutcomeInv
  <2>2. IsLimits(job[p].held.key)
    BY DEF KeyFileInv, JobInv, GoodFile, IsFile, IsKey
  <2>3. QED
    BY <2>1, <2>2, Foretold
<1>2. QED
  BY <1>1, KeyFileInvariant, PTL
=============================================================================
