-------------------------- MODULE KeySessionProofs --------------------------
(***************************************************************************)
(* Proofs about KeySession, for every set of commands, command lines and   *)
(* passwords, every number of failing calls, and a store that may drop or  *)
(* cut what it is given.                                                   *)
(***************************************************************************)
EXTENDS KeySession, FiniteSetTheorems, NaturalsInduction, SequenceTheorems,
        WellFoundedInduction, TLAPS

-----------------------------------------------------------------------------
(***************************************************************************)
(* A command that is not refused is one action: parse_args refuses two,    *)
(* the handlers refuse none.                                               *)
(***************************************************************************)
LEMMA OneAction ==
  ASSUME NEW c \in Commands, c # Refused
  PROVE  \E a \in Actions : c.on \cap Actions = {a}
<1>1. PICK argv \in CommandLines : c = Command(argv)
  BY DEF Commands
<1>2. c = parse_args(argv) /\ ~UsageError(c)
  BY <1>1 DEF Command
<1>3. ~(Cardinality(c.on \cap Actions) > 1)
  <2> DEFINE end == ValuesTaken(FlagsTaken(Unparsed(argv)))
  <2>1. /\ ~(Cardinality(end.on \cap Actions) > 1)
        /\ c = [on |-> end.on, value |-> end.value, files |-> end.args]
    BY <1>2 DEF parse_args
  <2> HIDE DEF end
  <2>2. QED
    BY <2>1
<1>4. c.on \cap Actions # {}
  BY <1>2 DEF UsageError, NoAction
<1>5. IsFiniteSet(Actions)
  <2>1. Actions = {"G"} \union {"S"} \union {"V"} \union {"R"} \union {"K"} \union {"I"}
    BY DEF Actions
  <2>2. QED
    BY <2>1, FS_Singleton, FS_Union
<1>6. IsFiniteSet(c.on \cap Actions)
  BY <1>5, FS_Subset
<1>7. Cardinality(c.on \cap Actions) = 1
  BY <1>3, <1>4, <1>6, FS_CardinalityType, FS_EmptySet
<1>8. QED
  BY <1>6, <1>7, FS_Singleton

-----------------------------------------------------------------------------
(***************************************************************************)
(* What parse_args collects are options.  The parser's state after each    *)
(* option it has looked for is a function: it exists, and along it nothing *)
(* but the option looked for is put on.                                    *)
(***************************************************************************)
\* Any numbers have a least one.
LEMMA LeastExists ==
  ASSUME NEW T, T \subseteq Nat, T # {}
  PROVE  \E x \in T : \A y \in T : x <= y
<1> DEFINE Less == {ab \in Nat \X Nat : ab[1] < ab[2]}
<1>1. IsWellFoundedOn(Less, Nat)
  BY NatLessThanWellFounded DEF OpToRel
<1>2. PICK x \in T : \A y \in T : ~(<<y, x>> \in Less)
  BY <1>1, WFMin
<1>3. ASSUME NEW y \in T PROVE x <= y
  <2>1. <<y, x>> \in Nat \X Nat /\ <<y, x>> \notin Less
    BY <1>2
  <2>2. ~(y < x)
    BY <2>1
  <2>3. QED
    BY <2>2
<1>4. QED
  BY <1>3

\* f has the parser's states from st on, after each of the first n options.
FlagSteps(f, st, n) ==
    f = [i \in 0 .. n |-> IF i = 0 THEN st ELSE TakeFlag(f[i - 1], FlagOrder[i])]
ValueSteps(f, st, n) ==
    f = [i \in 0 .. n |-> IF i = 0 THEN st ELSE TakeValue(f[i - 1], ValueOrder[i])]

LEMMA FlagStepsExist == \A st : \A n \in Nat : \E f : FlagSteps(f, st, n)
<1> SUFFICES ASSUME NEW st PROVE \A n \in Nat : \E f : FlagSteps(f, st, n)
  OBVIOUS
<1> DEFINE without == {n \in Nat : ~ \E f : FlagSteps(f, st, n)}
<1>1. SUFFICES ASSUME without # {} PROVE FALSE
  OBVIOUS
<1>2. without \subseteq Nat
  OBVIOUS
<1>3. PICK n \in without : \A m \in without : n <= m
  BY <1>1, <1>2, LeastExists, Zenon
<1>4. n \in Nat /\ ~ \E f : FlagSteps(f, st, n)
  BY <1>3
<1>5. n # 0
  <2>1. FlagSteps([i \in 0 .. 0 |-> st], st, 0)
    BY DEF FlagSteps
  <2>2. QED
    BY <1>4, <2>1
<1>6. n - 1 \in Nat /\ n - 1 \notin without
  BY <1>3, <1>4, <1>5
<1>7. PICK f : FlagSteps(f, st, n - 1)
  BY <1>6
<1> DEFINE g == [i \in 0 .. n |-> IF i = n THEN TakeFlag(f[n - 1], FlagOrder[n]) ELSE f[i]]
<1>8. FlagSteps(g, st, n)
  <2>1. ASSUME NEW i \in 0 .. n
        PROVE  g[i] = IF i = 0 THEN st ELSE TakeFlag(g[i - 1], FlagOrder[i])
    BY <1>4, <1>5, <1>7 DEF FlagSteps
  <2>2. QED
    BY <2>1 DEF FlagSteps
<1>9. QED
  BY <1>4, <1>8

LEMMA ValueStepsExist == \A st : \A n \in Nat : \E f : ValueSteps(f, st, n)
<1> SUFFICES ASSUME NEW st PROVE \A n \in Nat : \E f : ValueSteps(f, st, n)
  OBVIOUS
<1> DEFINE without == {n \in Nat : ~ \E f : ValueSteps(f, st, n)}
<1>1. SUFFICES ASSUME without # {} PROVE FALSE
  OBVIOUS
<1>2. without \subseteq Nat
  OBVIOUS
<1>3. PICK n \in without : \A m \in without : n <= m
  BY <1>1, <1>2, LeastExists, Zenon
<1>4. n \in Nat /\ ~ \E f : ValueSteps(f, st, n)
  BY <1>3
<1>5. n # 0
  <2>1. ValueSteps([i \in 0 .. 0 |-> st], st, 0)
    BY DEF ValueSteps
  <2>2. QED
    BY <1>4, <2>1
<1>6. n - 1 \in Nat /\ n - 1 \notin without
  BY <1>3, <1>4, <1>5
<1>7. PICK f : ValueSteps(f, st, n - 1)
  BY <1>6
<1> DEFINE g == [i \in 0 .. n |-> IF i = n THEN TakeValue(f[n - 1], ValueOrder[n]) ELSE f[i]]
<1>8. ValueSteps(g, st, n)
  <2>1. ASSUME NEW i \in 0 .. n
        PROVE  g[i] = IF i = 0 THEN st ELSE TakeValue(g[i - 1], ValueOrder[i])
    BY <1>4, <1>5, <1>7 DEF ValueSteps
  <2>2. QED
    BY <2>1 DEF ValueSteps
<1>9. QED
  BY <1>4, <1>8

LEMMA FlagsTakenSteps ==
  ASSUME NEW st
  PROVE  \E f : FlagSteps(f, st, Len(FlagOrder)) /\ FlagsTaken(st) = f[Len(FlagOrder)]
<1> DEFINE f == CHOOSE g : FlagSteps(g, st, Len(FlagOrder))
<1>1. Len(FlagOrder) \in Nat
  BY DEF FlagOrder
<1>2. FlagSteps(f, st, Len(FlagOrder))
  BY <1>1, FlagStepsExist, Zenon
<1>3. FlagsTaken(st) = f[Len(FlagOrder)]
  BY Zenon DEF FlagsTaken, FlagSteps
<1> HIDE DEF f
<1>4. QED
  BY <1>2, <1>3

LEMMA ValuesTakenSteps ==
  ASSUME NEW st
  PROVE  \E f : ValueSteps(f, st, Len(ValueOrder)) /\ ValuesTaken(st) = f[Len(ValueOrder)]
<1> DEFINE f == CHOOSE g : ValueSteps(g, st, Len(ValueOrder))
<1>1. Len(ValueOrder) \in Nat
  BY DEF ValueOrder
<1>2. ValueSteps(f, st, Len(ValueOrder))
  BY <1>1, ValueStepsExist, Zenon
<1>3. ValuesTaken(st) = f[Len(ValueOrder)]
  BY Zenon DEF ValuesTaken, ValueSteps
<1> HIDE DEF f
<1>4. QED
  BY <1>2, <1>3

\* A parser's state whose options are options.
Options(st) ==
    /\ DOMAIN st = {"args", "on", "value", "bad"}
    /\ st.on \subseteq Flags \union ValueOptions

LEMMA FlagsTakenOptions ==
  ASSUME NEW st, Options(st)
  PROVE  Options(FlagsTaken(st))
<1> DEFINE N == Len(FlagOrder)
<1>1. N \in Nat /\ \A i \in 1 .. N : FlagOrder[i] \in Flags
  BY DEF FlagOrder, Flags, ToSet
<1>2. PICK f : FlagSteps(f, st, N) /\ FlagsTaken(st) = f[N]
  BY FlagsTakenSteps
<1> HIDE DEF N
<1> DEFINE without == {n \in Nat : n <= N /\ ~Options(f[n])}
<1>3. without = {}
  <2>1. SUFFICES ASSUME without # {} PROVE FALSE
    OBVIOUS
  <2>2. without \subseteq Nat
    OBVIOUS
  <2>3. PICK n \in without : \A m \in without : n <= m
    BY <2>1, <2>2, LeastExists, Zenon
  <2>4. n \in 1 .. N /\ n \in 0 .. N
    BY <1>1, <1>2, <2>3 DEF FlagSteps
  <2>5. Options(f[n - 1])
    <3>1. n - 1 \in Nat /\ n - 1 <= N /\ ~(n <= n - 1)
      BY <1>1, <2>4
    <3>2. n - 1 \notin without
      BY <2>3, <3>1
    <3>3. QED
      BY <3>1, <3>2
  <2>6. f[n] = TakeFlag(f[n - 1], FlagOrder[n])
    BY <1>2, <2>4 DEF FlagSteps
  <2>7. Options(f[n])
    BY <1>1, <2>4, <2>5, <2>6 DEF Options, TakeFlag
  <2>8. QED
    BY <2>3, <2>7
<1>4. QED
  BY <1>1, <1>2, <1>3

LEMMA ValuesTakenOptions ==
  ASSUME NEW st, Options(st)
  PROVE  Options(ValuesTaken(st))
<1> DEFINE N == Len(ValueOrder)
<1>1. N \in Nat /\ \A i \in 1 .. N : ValueOrder[i] \in ValueOptions
  BY DEF ValueOrder, ValueOptions, ToSet
<1>2. PICK f : ValueSteps(f, st, N) /\ ValuesTaken(st) = f[N]
  BY ValuesTakenSteps
<1> HIDE DEF N
<1> DEFINE without == {n \in Nat : n <= N /\ ~Options(f[n])}
<1>3. without = {}
  <2>1. SUFFICES ASSUME without # {} PROVE FALSE
    OBVIOUS
  <2>2. without \subseteq Nat
    OBVIOUS
  <2>3. PICK n \in without : \A m \in without : n <= m
    BY <2>1, <2>2, LeastExists, Zenon
  <2>4. n \in 1 .. N /\ n \in 0 .. N
    BY <1>1, <1>2, <2>3 DEF ValueSteps
  <2>5. Options(f[n - 1])
    <3>1. n - 1 \in Nat /\ n - 1 <= N /\ ~(n <= n - 1)
      BY <1>1, <2>4
    <3>2. n - 1 \notin without
      BY <2>3, <3>1
    <3>3. QED
      BY <3>1, <3>2
  <2>6. f[n] = TakeValue(f[n - 1], ValueOrder[n])
    BY <1>2, <2>4 DEF ValueSteps
  <2>7. Options(f[n])
    <3> DEFINE was == f[n - 1]
               o == ValueOrder[n]
               at == SelectInSeq(was.args, LAMBDA arg : arg = Option(o))
    <3>1. f[n] = TakeValue(was, o) /\ Options(was) /\ o \in ValueOptions
      BY <1>1, <2>4, <2>5, <2>6
    <3> HIDE DEF was, o
    <3>2. \/ f[n] = was
          \/ f[n] = [was EXCEPT !.bad = TRUE]
          \/ f[n] = [was EXCEPT !.args = RemoveAt(RemoveAt(@, at), at),
                               !.on = @ \union {o}, !.value[o] = was.args[at + 1]]
      BY <3>1 DEF TakeValue
    <3> HIDE DEF at
    <3>3. DOMAIN f[n] = DOMAIN was /\ f[n].on \in {was.on, was.on \union {o}}
      <4>1. CASE f[n] = was
        BY <4>1
      <4>2. CASE f[n] = [was EXCEPT !.bad = TRUE]
        BY <3>1, <4>2 DEF Options
      <4>3. CASE f[n] = [was EXCEPT !.args = RemoveAt(RemoveAt(@, at), at),
                               !.on = @ \union {o}, !.value[o] = was.args[at + 1]]
        BY <3>1, <4>3 DEF Options
      <4>4. QED
        BY <3>2, <4>1, <4>2, <4>3
    <3>4. QED
      BY <3>1, <3>3 DEF Options
  <2>8. QED
    BY <2>3, <2>7
<1>4. QED
  BY <1>1, <1>2, <1>3

LEMMA CommandOptions ==
  ASSUME NEW c \in Commands, c # Refused
  PROVE  c.on \subseteq Flags \union ValueOptions
<1>1. PICK argv \in CommandLines : c = Command(argv)
  BY DEF Commands
<1>2. c = parse_args(argv)
  BY <1>1 DEF Command
<1> DEFINE end == ValuesTaken(FlagsTaken(Unparsed(argv)))
<1>3. Options(end)
  <2>1. Options(Unparsed(argv))
    BY DEF Options, Unparsed
  <2>2. QED
    BY <2>1, FlagsTakenOptions, ValuesTakenOptions
<1>4. c.on = end.on
  <2>1. c = [on |-> end.on, value |-> end.value, files |-> end.args]
    BY <1>2 DEF parse_args
  <2> HIDE DEF end
  <2>2. QED
    BY <2>1
<1>5. QED
  BY <1>3, <1>4 DEF Options

-----------------------------------------------------------------------------
(***************************************************************************)
(* What getopt makes of arguments with one letter each: every one is a     *)
(* value, a file or an option.                                             *)
(***************************************************************************)
Known == Flags \union ValueOptions
Letters == Known \union STRING
Token == {arg \in Argument : arg.dashes > 0 => Len(arg.text) = 1}

Read(st, arg) ==
    IF st.wants # Nothing THEN Filled(st, arg)
    ELSE IF arg.dashes = 0
    THEN [st EXCEPT !.files = Append(@, arg), !.odd = @ \/ arg.dashes > 0]
    ELSE Seen(st, arg.text[1])

\* r has the states of the scan of args from st on.
Steps(r, st, args) ==
    r = [i \in 0 .. Len(args) |-> IF i = 0 THEN st ELSE Read(r[i - 1], args[i])]
Reading(st, args) == (CHOOSE r : Steps(r, st, args))[Len(args)]

LEMMA OptionLists ==
  /\ Len(FlagOrder) = 16 /\ Len(ValueOrder) = 9
  /\ Flags = {FlagOrder[i] : i \in 1 .. 16} /\ ValueOptions = {ValueOrder[i] : i \in 1 .. 9}
  /\ Flags \cap ValueOptions = {}
  /\ LongFlags \subseteq Flags /\ LongValues \subseteq ValueOptions
  /\ VALUE_FLAGS = ValueOptions \ LongValues
<1>1. Len(FlagOrder) = 16 /\ DOMAIN FlagOrder = 1 .. 16
  BY DEF FlagOrder
<1>2. Len(ValueOrder) = 9 /\ DOMAIN ValueOrder = 1 .. 9
  BY DEF ValueOrder
<1>3. Flags = {FlagOrder[i] : i \in 1 .. 16}
  BY <1>1 DEF Flags, ToSet
<1>4. ValueOptions = {ValueOrder[i] : i \in 1 .. 9}
  BY <1>2 DEF ValueOptions, ToSet
<1>5. ValueOptions = VALUE_FLAGS \union LongValues
  BY <1>4 DEF ValueOrder, VALUE_FLAGS, LongValues
<1>6. Flags = Actions \union LongFlags \union {"f", "H", "l", "o", "q", "Q", "W"}
  BY <1>3 DEF FlagOrder, Actions, LongFlags
<1>7. QED
  BY <1>1, <1>2, <1>3, <1>4, <1>5, <1>6 DEF VALUE_FLAGS, LongValues, Actions, LongFlags

\* A token is an option exactly when it is spelt so.
LEMMA Spelt ==
  ASSUME NEW arg \in Token, arg.dashes > 0, NEW o \in Known
  PROVE  arg = Option(o) <=> arg.text[1] = o
<1>1. /\ arg \in [dashes : 0 .. 2, text : Seq(STRING)] /\ Len(arg.text) = 1
      /\ arg.dashes \in {1, 2} /\ 1 \in DOMAIN arg.text
  BY DEF Token, Argument
<1>2. arg.text = <<arg.text[1]>>
  BY <1>1
<1>3. arg = Arg(arg.dashes, <<arg.text[1]>>)
  BY <1>1, <1>2 DEF Arg
<1>4. arg.dashes = 1 => arg.text[1] \notin LongFlags \union LongValues
  BY <1>1 DEF Token, Argument
<1>5. arg.dashes = 2 => (arg.text[1] \in Known => arg.text[1] \in LongFlags \union LongValues)
  BY <1>1 DEF Token, Argument, Known
<1>6. /\ Option(o) = Arg(IF o \in LongFlags \union LongValues THEN 2 ELSE 1, <<o>>)
      /\ Option(o).text[1] = o
  BY DEF Option, Long, Short, Arg
<1>7. QED
  BY <1>1, <1>3, <1>4, <1>5, <1>6

LEMMA OptionIsDashed == \A o : Option(o).dashes > 0 /\ Option(o).text[1] = o
  BY DEF Option, Long, Short, Arg

LEMMA StepsExist ==
  ASSUME NEW st, NEW args \in Seq(Token)
  PROVE  \E r : Steps(r, st, args)
<1> DEFINE upTo(r, n) == r = [i \in 0 .. n |-> IF i = 0 THEN st ELSE Read(r[i - 1], args[i])]
           without == {n \in Nat : ~ \E r : upTo(r, n)}
<1>1. without = {}
  <2>1. SUFFICES ASSUME without # {} PROVE FALSE
    OBVIOUS
  <2>2. without \subseteq Nat
    OBVIOUS
  <2>3. PICK n \in without : \A m \in without : n <= m
    BY <2>1, <2>2, LeastExists, Zenon
  <2>4. n \in Nat /\ ~ \E r : upTo(r, n)
    BY <2>3
  <2>5. n # 0
    <3>1. upTo([i \in 0 .. 0 |-> st], 0)
      OBVIOUS
    <3>2. QED
      BY <2>4, <3>1
  <2>6. n - 1 \in Nat /\ n - 1 \notin without
    <3>1. n - 1 \in Nat /\ ~(n <= n - 1)
      BY <2>4, <2>5
    <3> HIDE DEF without
    <3>2. QED
      BY <2>3, <3>1
  <2>7. PICK r : upTo(r, n - 1)
    BY <2>6
  <2> DEFINE s == [i \in 0 .. n |-> IF i = n THEN Read(r[n - 1], args[n]) ELSE r[i]]
  <2>8. upTo(s, n)
    <3>1. ASSUME NEW i \in 0 .. n
          PROVE  s[i] = IF i = 0 THEN st ELSE Read(s[i - 1], args[i])
      BY <2>4, <2>5, <2>7
    <3>2. QED
      BY <3>1
  <2>9. QED
    BY <2>4, <2>8
<1>2. Len(args) \in Nat
  OBVIOUS
<1>3. \E r : upTo(r, Len(args))
  BY <1>1, <1>2
<1>4. QED
  BY <1>3 DEF Steps

LEMMA StepsAgree ==
  ASSUME NEW st, NEW args \in Seq(Token), NEW r, Steps(r, st, args), NEW s, Steps(s, st, args)
  PROVE  r = s
<1> DEFINE n == Len(args)
           differ == {i \in Nat : i <= n /\ r[i] # s[i]}
<1>1. n \in Nat
  OBVIOUS
<1> HIDE DEF n
<1>2. differ = {}
  <2>1. SUFFICES ASSUME differ # {} PROVE FALSE
    OBVIOUS
  <2>2. differ \subseteq Nat
    OBVIOUS
  <2>3. PICK i \in differ : \A j \in differ : i <= j
    BY <2>1, <2>2, LeastExists, Zenon
  <2>4. i # 0 /\ i \in 0 .. n
    BY <1>1, <2>3 DEF Steps, n
  <2>5. i - 1 \in Nat /\ i - 1 <= n /\ ~(i <= i - 1)
    BY <1>1, <2>4
  <2>6. r[i - 1] = s[i - 1]
    BY <2>3, <2>5
  <2>7. r[i] = s[i]
    BY <2>4, <2>6 DEF Steps, n
  <2>8. QED
    BY <2>3, <2>7
<1>3. r = [i \in 0 .. n |-> r[i]] /\ s = [i \in 0 .. n |-> s[i]]
  BY DEF Steps, n
<1>4. \A i \in 0 .. n : r[i] = s[i]
  BY <1>1, <1>2
<1>5. QED
  BY <1>3, <1>4

LEMMA ReadingIs ==
  ASSUME NEW st, NEW args \in Seq(Token), NEW r, Steps(r, st, args)
  PROVE  Reading(st, args) = r[Len(args)]
<1>1. Steps(CHOOSE s : Steps(s, st, args), st, args)
  BY Zenon
<1>2. (CHOOSE s : Steps(s, st, args)) = r
  BY <1>1, StepsAgree
<1>3. QED
  BY <1>2 DEF Reading

LEMMA StepsAt ==
  ASSUME NEW st, NEW args \in Seq(Token), NEW r, Steps(r, st, args)
  PROVE  /\ DOMAIN r = 0 .. Len(args) /\ r[0] = st
         /\ \A i \in 1 .. Len(args) : r[i] = Read(r[i - 1], args[i]) /\ i - 1 \in 0 .. Len(args)
  BY DEF Steps

ScanState ==
    [on : SUBSET Letters, value : [ValueOptions -> Argument \union {Nothing}],
     files : Seq(Argument), wants : ValueOptions \union {Nothing}, over : BOOLEAN,
     bad : BOOLEAN, odd : BOOLEAN]

LEMMA TokenTypes ==
  ASSUME NEW arg \in Token
  PROVE  /\ arg \in Argument /\ arg.dashes \in 0 .. 2 /\ arg.text \in Seq(STRING)
         /\ arg.dashes > 0 => arg.text[1] \in Letters
<1>1. arg \in Argument /\ arg.dashes \in 0 .. 2 /\ arg.text \in Seq(STRING)
  BY DEF Token, Argument
<1>2. ASSUME arg.dashes > 0 PROVE arg.text[1] \in Letters
  BY <1>1, <1>2 DEF Token, Letters
<1>3. QED
  BY <1>1, <1>2

LEMMA ReadTyped ==
  ASSUME NEW st \in ScanState, NEW arg \in Token
  PROVE  /\ Read(st, arg) \in ScanState
         /\ Read(st, arg).wants # Nothing =>
               Read(st, arg).wants \in ValueOptions /\ arg = Option(Read(st, arg).wants)
         /\ st.on \subseteq Read(st, arg).on
         /\ st.bad => Read(st, arg).bad
         /\ st.odd => Read(st, arg).odd
         /\ st.over = Read(st, arg).over
<1>1. /\ arg \in Argument /\ arg.dashes \in 0 .. 2
      /\ arg.dashes > 0 => arg.text[1] \in Letters
  BY TokenTypes
<1>2. CASE st.wants # Nothing
  BY <1>1, <1>2 DEF Read, Filled, ScanState
<1>3. CASE st.wants = Nothing /\ arg.dashes = 0
  <2>1. Append(st.files, arg) \in Seq(Argument)
    BY <1>1 DEF ScanState
  <2>2. QED
    BY <1>1, <1>3, <2>1 DEF Read, ScanState
<1>4. CASE st.wants = Nothing /\ arg.dashes > 0
  <2> DEFINE o == arg.text[1]
  <2>1. Read(st, arg) = Seen(st, o)
    BY <1>1, <1>4 DEF Read
  <2>2. o \in Letters
    BY <1>1, <1>4
  <2>3. o \in ValueOptions => arg = Option(o)
    BY <1>4, Spelt DEF Known
  <2> HIDE DEF o
  <2> DEFINE b == st.bad \/ o \notin Flags \union ValueOptions \/ o \in st.on
             w == IF o \in ValueOptions THEN o ELSE Nothing
  <2>4. Read(st, arg) = [st EXCEPT !.bad = b, !.on = st.on \union {o}, !.wants = w]
    BY <2>1 DEF Seen, ScanState
  <2>5. b \in BOOLEAN /\ (st.bad => b)
    BY DEF ScanState
  <2>6. /\ w \in ValueOptions \union {Nothing}
        /\ w # Nothing => w \in ValueOptions /\ arg = Option(w)
    BY <2>3
  <2> HIDE DEF b, w
  <2>7. Read(st, arg) \in ScanState
    <3>1. Read(st, arg) = [on |-> st.on \union {o}, value |-> st.value, files |-> st.files,
                           wants |-> w, over |-> st.over, bad |-> b, odd |-> st.odd]
      BY <2>4 DEF ScanState
    <3>2. st.on \union {o} \in SUBSET Letters /\ b \in BOOLEAN
      BY <2>2, <2>5 DEF ScanState
    <3>3. w \in ValueOptions \union {Nothing}
      BY <2>6
    <3>4. QED
      BY <3>1, <3>2, <3>3 DEF ScanState
  <2>8. /\ Read(st, arg).on = st.on \union {o} /\ Read(st, arg).bad = b
        /\ Read(st, arg).wants = w /\ Read(st, arg).odd = st.odd
        /\ Read(st, arg).over = st.over
    BY <2>4 DEF ScanState
  <2>9. st.bad => Read(st, arg).bad
    BY <2>5, <2>8
  <2>10. QED
    BY <2>6, <2>7, <2>8, <2>9
<1>5. QED
  BY <1>1, <1>2, <1>3, <1>4

LEMMA StepsTyped ==
  ASSUME NEW st \in ScanState, st.wants = Nothing, NEW args \in Seq(Token),
         NEW r, Steps(r, st, args)
  PROVE  \A i \in 0 .. Len(args) :
           /\ r[i] \in ScanState
           /\ r[i].wants # Nothing =>
                 i > 0 /\ r[i].wants \in ValueOptions /\ args[i] = Option(r[i].wants)
<1> DEFINE n == Len(args)
           Fine(i) == /\ r[i] \in ScanState
                      /\ r[i].wants # Nothing =>
                            i > 0 /\ r[i].wants \in ValueOptions /\ args[i] = Option(r[i].wants)
           without == {i \in Nat : i <= n /\ ~Fine(i)}
<1>1. n \in Nat /\ \A i \in 1 .. n : args[i] \in Token
  OBVIOUS
<1>2. ASSUME NEW i \in 1 .. n, r[i - 1] \in ScanState PROVE Fine(i)
  <2>1. r[i] = Read(r[i - 1], args[i]) /\ args[i] \in Token /\ i > 0
    BY <1>1, StepsAt
  <2>2. QED
    BY <1>2, <2>1, ReadTyped
<1>3. Fine(0)
  BY StepsAt
<1> HIDE DEF n
<1>4. \A i \in 1 .. n : Fine(i - 1) => Fine(i)
  BY <1>2
<1> HIDE DEF Fine
<1>5. without = {}
  <2>1. SUFFICES ASSUME without # {} PROVE FALSE
    OBVIOUS
  <2>2. without \subseteq Nat
    OBVIOUS
  <2>3. PICK i \in without : \A j \in without : i <= j
    BY <2>1, <2>2, LeastExists, Zenon
  <2>4. i \in 1 .. n
    BY <1>1, <1>3, <2>3
  <2>5. i - 1 \in Nat /\ i - 1 <= n /\ ~(i <= i - 1)
    BY <1>1, <2>4
  <2>6. Fine(i - 1)
    BY <2>3, <2>5
  <2>7. QED
    BY <1>4, <2>3, <2>4, <2>6
<1>6. QED
  BY <1>1, <1>5 DEF Fine, n

\* What is on, refused or odd stays so.
LEMMA StepsGrow ==
  ASSUME NEW st \in ScanState, st.wants = Nothing, NEW args \in Seq(Token),
         NEW r, Steps(r, st, args), NEW i \in 0 .. Len(args), NEW j \in i .. Len(args)
  PROVE  /\ r[i].on \subseteq r[j].on
         /\ r[i].bad => r[j].bad
         /\ r[i].odd => r[j].odd
<1> DEFINE n == Len(args)
           Grows(k) == /\ r[i].on \subseteq r[k].on
                       /\ r[i].bad => r[k].bad
                       /\ r[i].odd => r[k].odd
           without == {k \in Nat : i <= k /\ k <= n /\ ~Grows(k)}
<1>1. n \in Nat /\ \A k \in 1 .. n : args[k] \in Token
  OBVIOUS
<1>2. ASSUME NEW k \in 1 .. n, Grows(k - 1) PROVE Grows(k)
  <2>1. r[k] = Read(r[k - 1], args[k]) /\ args[k] \in Token /\ k - 1 \in 0 .. n
    BY <1>1, StepsAt
  <2>2. r[k - 1] \in ScanState
    BY <2>1, StepsTyped
  <2>3. QED
    BY <1>2, <2>1, <2>2, ReadTyped
<1>3. Grows(i) /\ i \in 0 .. n /\ j \in i .. n
  OBVIOUS
<1> HIDE DEF n, Grows
<1>4. without = {}
  <2>1. SUFFICES ASSUME without # {} PROVE FALSE
    OBVIOUS
  <2>2. without \subseteq Nat
    OBVIOUS
  <2>3. PICK k \in without : \A m \in without : k <= m
    BY <2>1, <2>2, LeastExists, Zenon
  <2>4. k \in 1 .. n /\ i < k
    BY <1>1, <1>3, <2>3
  <2>5. k - 1 \in Nat /\ i <= k - 1 /\ k - 1 <= n /\ ~(k <= k - 1)
    BY <1>1, <1>3, <2>4
  <2>6. Grows(k - 1)
    BY <2>3, <2>5
  <2>7. QED
    BY <1>2, <2>3, <2>4, <2>6
<1>5. Grows(j)
  BY <1>1, <1>3, <1>4
<1>6. QED
  BY <1>5 DEF Grows

-----------------------------------------------------------------------------
(***************************************************************************)
(* Taking an option out of the arguments, wherever it stands, and putting  *)
(* it on does not change what getopt makes of them.                        *)
(***************************************************************************)
LEMMA RemoveAtIs ==
  ASSUME NEW T, NEW s \in Seq(T), NEW k \in 1 .. Len(s)
  PROVE  /\ RemoveAt(s, k) \in Seq(T) /\ Len(RemoveAt(s, k)) = Len(s) - 1
         /\ \A i \in 1 .. Len(s) - 1 : RemoveAt(s, k)[i] = IF i < k THEN s[i] ELSE s[i + 1]
<1> DEFINE n == Len(s)
           a == SubSeq(s, 1, k - 1)
           b == SubSeq(s, k + 1, n)
<1>1. n \in Nat /\ k \in 1 .. n
  OBVIOUS
<1>2. a \in Seq(T) /\ Len(a) = k - 1 /\ \A i \in 1 .. k - 1 : a[i] = s[i]
  OBVIOUS
<1>3. b \in Seq(T) /\ Len(b) = n - k /\ \A i \in 1 .. n - k : b[i] = s[k + i]
  OBVIOUS
<1>4. RemoveAt(s, k) = a \o b
  BY DEF RemoveAt
<1> HIDE DEF a, b, n
<1>5. /\ a \o b \in Seq(T) /\ Len(a \o b) = n - 1
      /\ \A i \in 1 .. n - 1 : (a \o b)[i] = IF i < k THEN a[i] ELSE b[i - (k - 1)]
  <2>1. /\ a \o b \in Seq(T) /\ Len(a \o b) = Len(a) + Len(b)
        /\ \A i \in 1 .. Len(a) + Len(b) :
              (a \o b)[i] = IF i <= Len(a) THEN a[i] ELSE b[i - Len(a)]
    BY <1>2, <1>3, ConcatProperties
  <2>2. QED
    BY <1>1, <1>2, <1>3, <2>1
<1>6. ASSUME NEW i \in 1 .. n - 1 PROVE (a \o b)[i] = IF i < k THEN s[i] ELSE s[i + 1]
  <2>1. CASE i < k
    BY <1>1, <1>2, <1>5, <2>1
  <2>2. CASE ~(i < k)
    <3>1. i - (k - 1) \in 1 .. n - k /\ k + (i - (k - 1)) = i + 1
      BY <1>1, <2>2
    <3>2. QED
      BY <1>3, <1>5, <2>2, <3>1
  <2>3. QED
    BY <2>1, <2>2
<1>7. QED
  BY <1>4, <1>5, <1>6 DEF n

LEMMA FirstAt ==
  ASSUME NEW T, NEW s \in Seq(T), NEW e, NEW j \in 1 .. Len(s), s[j] = e
  PROVE  LET k == SelectInSeq(s, LAMBDA v : v = e) IN
         k \in 1 .. Len(s) /\ s[k] = e /\ \A i \in 1 .. k - 1 : s[i] # e
<1> DEFINE those == {i \in 1 .. Len(s) : s[i] = e}
           k == SelectInSeq(s, LAMBDA v : v = e)
<1>1. those # {} /\ those \subseteq Nat
  OBVIOUS
<1>2. k = Min(those)
  BY <1>1 DEF SelectInSeq
<1>3. PICK m \in those : \A i \in those : m <= i
  BY <1>1, LeastExists, Zenon
<1>4. k \in those /\ \A i \in those : k <= i
  BY <1>2, <1>3, Zenon DEF Min
<1> HIDE DEF k, those
<1>5. k \in 1 .. Len(s) /\ s[k] = e /\ \A i \in 1 .. k - 1 : s[i] # e
  BY <1>4 DEF those
<1>6. QED
  BY <1>5 DEF k

With(st, o) == [st EXCEPT !.on = @ \union {o}]
LEMMA WithIs ==
  ASSUME NEW st \in ScanState, NEW o
  PROVE  With(st, o) = [on |-> st.on \union {o}, value |-> st.value, files |-> st.files,
                        wants |-> st.wants, over |-> st.over, bad |-> st.bad, odd |-> st.odd]
<1> DEFINE w == With(st, o)
<1>1. w = [st EXCEPT !.on = st.on \union {o}]
  BY DEF With
<1> HIDE DEF w
<1>2. /\ w.on = st.on \union {o} /\ w.value = st.value /\ w.files = st.files
      /\ w.wants = st.wants /\ w.over = st.over /\ w.bad = st.bad /\ w.odd = st.odd
      /\ DOMAIN w = {"on", "value", "files", "wants", "over", "bad", "odd"}
  BY <1>1 DEF ScanState
<1>3. w = [x \in DOMAIN w |-> w[x]]
  BY <1>1
<1>4. QED
  BY <1>2, <1>3 DEF w

WithValue(st, o, v) ==
    [st EXCEPT !.on = @ \union {o}, !.value = [@ EXCEPT ![o] = v]]

\* What has been taken out makes no difference to another token.
LEMMA ReadWith ==
  ASSUME NEW st \in ScanState, NEW arg \in Token, NEW o \in Known, arg # Option(o)
  PROVE  Read(With(st, o), arg) = With(Read(st, arg), o)
<1>1. arg.dashes \in 0 .. 2
  BY TokenTypes
<1>2. CASE st.wants # Nothing
  BY <1>2 DEF Read, Filled, With, ScanState
<1>3. CASE st.wants = Nothing /\ arg.dashes = 0
  BY <1>3 DEF Read, With, ScanState
<1>4. CASE st.wants = Nothing /\ arg.dashes > 0
  <2> DEFINE l == arg.text[1]
  <2>1. l # o
    BY <1>4, Spelt
  <2>2. Read(With(st, o), arg) = Seen(With(st, o), l) /\ Read(st, arg) = Seen(st, l)
    BY <1>1, <1>4 DEF Read, With, ScanState
  <2> HIDE DEF l
  <2>3. (l \in st.on \union {o}) <=> (l \in st.on)
    BY <2>1
  <2>4. QED
    BY <2>2, <2>3, ZenonT(40) DEF Seen, With, ScanState
<1>5. QED
  BY <1>1, <1>2, <1>3, <1>4

LEMMA ReadWithValue ==
  ASSUME NEW st \in ScanState, NEW arg \in Token, NEW o \in ValueOptions, arg # Option(o),
         st.wants # o, NEW v \in Argument
  PROVE  Read(WithValue(st, o, v), arg) = WithValue(Read(st, arg), o, v)
<1>1. arg.dashes \in 0 .. 2
  BY TokenTypes
<1>2. CASE st.wants # Nothing
  <2>1. st.wants \in ValueOptions
    BY <1>2 DEF ScanState
  <2>2. [[st.value EXCEPT ![o] = v] EXCEPT ![st.wants] = arg]
          = [[st.value EXCEPT ![st.wants] = arg] EXCEPT ![o] = v]
    BY <2>1 DEF ScanState
  <2>3. QED
    BY <1>2, <2>2 DEF Read, Filled, WithValue, ScanState
<1>3. CASE st.wants = Nothing /\ arg.dashes = 0
  BY <1>3 DEF Read, WithValue, ScanState
<1>4. CASE st.wants = Nothing /\ arg.dashes > 0
  <2> DEFINE l == arg.text[1]
  <2>1. l # o
    BY <1>4, Spelt DEF Known
  <2>2. Read(WithValue(st, o, v), arg) = Seen(WithValue(st, o, v), l) /\ Read(st, arg) = Seen(st, l)
    BY <1>1, <1>4 DEF Read, WithValue, ScanState
  <2> HIDE DEF l
  <2>3. (l \in st.on \union {o}) <=> (l \in st.on)
    BY <2>1
  <2> DEFINE val == [st.value EXCEPT ![o] = v]
             stv == WithValue(st, o, v)
  <2>4. /\ stv = [st EXCEPT !.on = @ \union {o}, !.value = val]
        /\ WithValue(Seen(st, l), o, v)
             = [Seen(st, l) EXCEPT !.on = @ \union {o}, !.value = val]
    BY DEF WithValue, Seen, ScanState
  <2> HIDE DEF val, stv
  <2>5. Seen(stv, l) = WithValue(Seen(st, l), o, v)
    <3> DEFINE b == st.bad \/ l \notin Flags \union ValueOptions \/ l \in st.on
               w == IF l \in ValueOptions THEN l ELSE Nothing
    <3>1. Seen(st, l) = [st EXCEPT !.bad = b, !.on = @ \union {l}, !.wants = w]
      BY DEF Seen
    <3>2. Seen(stv, l) = [stv EXCEPT !.bad = b, !.on = @ \union {l}, !.wants = w]
      BY <2>3, <2>4 DEF Seen, ScanState
    <3> HIDE DEF b, w
    <3>3. Seen(stv, l) = [on |-> (st.on \union {o}) \union {l}, value |-> val,
                          files |-> st.files, wants |-> w, over |-> st.over, bad |-> b,
                          odd |-> st.odd]
      BY <2>4, <3>2 DEF ScanState
    <3>4. WithValue(Seen(st, l), o, v)
            = [on |-> (st.on \union {l}) \union {o}, value |-> val,
               files |-> st.files, wants |-> w, over |-> st.over, bad |-> b, odd |-> st.odd]
      BY <2>4, <3>1, ZenonT(40) DEF ScanState
    <3>5. (st.on \union {o}) \union {l} = (st.on \union {l}) \union {o}
      OBVIOUS
    <3>6. QED
      BY <3>3, <3>4, <3>5
  <2>6. QED
    BY <2>2, <2>5 DEF stv
<1>5. QED
  BY <1>1, <1>2, <1>3, <1>4

\* An option that has not come yet is not on.
LEMMA NotOnYet ==
  ASSUME NEW st \in ScanState, st.wants = Nothing, NEW args \in Seq(Token),
         NEW r, Steps(r, st, args), NEW o \in Known, o \notin st.on,
         NEW k \in 0 .. Len(args), \A j \in 1 .. k : args[j] # Option(o)
  PROVE  \A i \in 0 .. k : o \notin r[i].on
<1> DEFINE without == {i \in Nat : i <= k /\ o \in r[i].on}
<1>1. without = {}
  <2>1. SUFFICES ASSUME without # {} PROVE FALSE
    OBVIOUS
  <2>2. without \subseteq Nat
    OBVIOUS
  <2>3. PICK i \in without : \A j \in without : i <= j
    BY <2>1, <2>2, LeastExists, Zenon
  <2>4. i \in 1 .. k /\ i \in 1 .. Len(args)
    BY <2>3, StepsAt
  <2>5. i - 1 \in Nat /\ i - 1 <= k /\ ~(i <= i - 1)
    BY <2>4
  <2>6. o \notin r[i - 1].on
    BY <2>3, <2>5
  <2>7. /\ r[i] = Read(r[i - 1], args[i]) /\ r[i - 1] \in ScanState
        /\ args[i] \in Token /\ args[i] # Option(o)
    BY <2>4, StepsAt, StepsTyped
  <2>8. args[i].dashes > 0 => args[i].text[1] # o
    BY <2>7, Spelt
  <2>9. args[i].dashes \in 0 .. 2
    BY <2>7, TokenTypes
  <2>10. o \notin r[i].on
    BY <2>6, <2>7, <2>8, <2>9 DEF Read, Filled, Seen, ScanState
  <2>11. QED
    BY <2>3, <2>10
<1>2. QED
  BY <1>1

\* What follows an option that takes a value does not look like an option.
Apart(args) ==
    \A i \in 1 .. Len(args) - 1 : \A o \in ValueOptions :
        args[i] = Option(o) => args[i + 1].dashes = 0

\* Nothing before the k-th argument wants it.
Unwanted(args, k) == k > 1 => \A o \in ValueOptions : args[k - 1] # Option(o)

LEMMA DashedIsUnwanted ==
  ASSUME NEW args \in Seq(Token), Apart(args), NEW k \in 1 .. Len(args), args[k].dashes > 0
  PROVE  Unwanted(args, k)
<1>1. SUFFICES ASSUME k > 1, NEW o \in ValueOptions, args[k - 1] = Option(o) PROVE FALSE
  BY DEF Unwanted
<1>2. k - 1 \in 1 .. Len(args) - 1 /\ (k - 1) + 1 = k
  BY <1>1
<1>3. args[k].dashes = 0
  BY <1>1, <1>2 DEF Apart
<1>4. QED
  BY <1>3

LEMMA ApartKept ==
  ASSUME NEW args \in Seq(Token), Apart(args), NEW k \in 1 .. Len(args), Unwanted(args, k)
  PROVE  Apart(RemoveAt(args, k))
<1> DEFINE left == RemoveAt(args, k)
           n == Len(args)
<1>1. /\ n \in Nat /\ Len(left) = n - 1
      /\ \A i \in 1 .. n - 1 : left[i] = IF i < k THEN args[i] ELSE args[i + 1]
  <2>1. /\ Len(left) = n - 1
        /\ \A i \in 1 .. n - 1 : left[i] = IF i < k THEN args[i] ELSE args[i + 1]
    BY RemoveAtIs, Zenon
  <2>2. QED
    BY <2>1
<1> HIDE DEF left, n
<1>2. SUFFICES ASSUME NEW i \in 1 .. (n - 1) - 1, NEW o \in ValueOptions, left[i] = Option(o)
               PROVE  left[i + 1].dashes = 0
  BY <1>1 DEF Apart, left
<1>3. i \in 1 .. n - 1 /\ i + 1 \in 1 .. n - 1
  BY <1>1
<1>4. CASE i + 1 < k
  BY <1>1, <1>2, <1>3, <1>4 DEF Apart, n
<1>5. CASE i + 1 = k
  BY <1>1, <1>2, <1>3, <1>5 DEF Unwanted
<1>6. CASE i + 1 > k
  BY <1>1, <1>2, <1>3, <1>6 DEF Apart, n
<1>7. QED
  BY <1>1, <1>4, <1>5, <1>6

Opened(st, o, w) == [st EXCEPT !.on = @ \union {o}, !.wants = w]

\* The scan comes to the first of an option that is not on.
LEMMA AtOption ==
  ASSUME NEW st \in ScanState, st.wants = Nothing, NEW args \in Seq(Token), Apart(args),
         NEW r, Steps(r, st, args), NEW o \in Known, o \notin st.on,
         NEW k \in 1 .. Len(args), args[k] = Option(o),
         \A j \in 1 .. k - 1 : args[j] # Option(o)
  PROVE  /\ r[k - 1] \in ScanState /\ r[k - 1].wants = Nothing
         /\ o \in Flags => r[k] = Opened(r[k - 1], o, Nothing)
         /\ o \in ValueOptions => r[k] = Opened(r[k - 1], o, o)
<1>1. k - 1 \in 0 .. Len(args) /\ r[k] = Read(r[k - 1], args[k])
  BY StepsAt
<1>2. r[k - 1] \in ScanState
  BY <1>1, StepsTyped
<1>3. args[k].dashes > 0 /\ args[k].dashes # 0 /\ args[k].text[1] = o
  BY OptionIsDashed
<1>4. r[k - 1].wants = Nothing
  BY <1>1, <1>3, StepsTyped, DashedIsUnwanted DEF Unwanted
<1>5. o \notin r[k - 1].on
  <2> DEFINE m == k - 1
  <2>1. m \in 0 .. Len(args) /\ m \in 0 .. m /\ \A j \in 1 .. m : args[j] # Option(o)
    BY <1>1
  <2> HIDE DEF m
  <2>2. \A i \in 0 .. m : o \notin r[i].on
    BY <2>1, NotOnYet
  <2>3. QED
    BY <2>1, <2>2 DEF m
<1>6. r[k] = Seen(r[k - 1], o)
  BY <1>1, <1>3, <1>4 DEF Read
<1> DEFINE q == r[k - 1]
           b == q.bad \/ o \notin Flags \union ValueOptions \/ o \in q.on
           w == IF o \in ValueOptions THEN o ELSE Nothing
<1>7. b = q.bad
  BY <1>2, <1>5 DEF ScanState, Known
<1>8. r[k] = [q EXCEPT !.bad = b, !.on = @ \union {o}, !.wants = w]
  BY <1>6 DEF Seen
<1>9. (o \in Flags => w = Nothing) /\ (o \in ValueOptions => w = o)
  BY OptionLists
<1> HIDE DEF b, w
<1>10. r[k] = Opened(q, o, w)
  BY <1>2, <1>7, <1>8 DEF ScanState, Opened
<1>11. QED
  BY <1>2, <1>4, <1>9, <1>10

LEMMA FlagOut ==
  ASSUME NEW st \in ScanState, st.wants = Nothing, NEW args \in Seq(Token), Apart(args),
         NEW o \in Flags, o \notin st.on,
         NEW k \in 1 .. Len(args), args[k] = Option(o), \A j \in 1 .. k - 1 : args[j] # Option(o)
  PROVE  Reading(With(st, o), RemoveAt(args, k)) = Reading(st, args)
<1> DEFINE left == RemoveAt(args, k)
           n == Len(args)
<1>1. PICK r : Steps(r, st, args)
  BY StepsExist
<1>2. /\ n \in Nat /\ k \in 1 .. n /\ \A i \in 1 .. n : args[i] \in Token
      /\ left \in Seq(Token) /\ Len(left) = n - 1
      /\ \A i \in 1 .. n - 1 : left[i] = IF i < k THEN args[i] ELSE args[i + 1]
  BY RemoveAtIs
<1>3. r[k] = With(r[k - 1], o)
  <2>1. o \in Known
    BY DEF Known
  <2>2. /\ r[k - 1] \in ScanState /\ r[k - 1].wants = Nothing
        /\ r[k] = Opened(r[k - 1], o, Nothing)
    BY <1>1, <2>1, AtOption
  <2>3. QED
    BY <2>2 DEF With, Opened, ScanState
<1>4. \A i \in 1 .. n : /\ r[i] = Read(r[i - 1], args[i]) /\ r[i - 1] \in ScanState
  BY <1>1, StepsAt, StepsTyped
<1>5. r[0] = st
  BY <1>1, StepsAt
<1> HIDE DEF left, n
<1> DEFINE s == [i \in 0 .. n - 1 |-> IF i < k THEN With(r[i], o) ELSE r[i + 1]]
<1>6. ASSUME NEW i \in 0 .. n - 1
      PROVE  s[i] = IF i = 0 THEN With(st, o) ELSE Read(s[i - 1], left[i])
  <2>1. CASE i = 0
    BY <1>2, <1>5, <2>1
  <2>2. CASE i > 0 /\ i < k
    <3>1. With(r[i], o) = Read(With(r[i - 1], o), args[i])
      <4>1. i \in 1 .. n /\ i \in 1 .. k - 1
        BY <1>2, <2>2
      <4>2. o \in Known
        BY DEF Known
      <4>3. QED
        BY <1>2, <1>4, <4>1, <4>2, ReadWith
    <3>2. left[i] = args[i] /\ s[i - 1] = With(r[i - 1], o) /\ s[i] = With(r[i], o)
      BY <1>2, <2>2
    <3>3. QED
      BY <2>2, <3>1, <3>2
  <2>3. CASE i >= k
    <3>1. i \in 1 .. n - 1 /\ i + 1 \in 1 .. n /\ i # 0 /\ i - 1 \in 0 .. n - 1
      BY <1>2, <2>3
    <3>2. s[i] = Read(r[i], args[i + 1]) /\ left[i] = args[i + 1]
      BY <1>2, <1>4, <2>3, <3>1
    <3>3. s[i - 1] = r[i]
      BY <1>2, <1>3, <2>3, <3>1
    <3>4. QED
      BY <3>1, <3>2, <3>3
  <2>4. QED
    BY <1>2, <2>1, <2>2, <2>3
<1>7. Steps(s, With(st, o), left)
  BY <1>2, <1>6 DEF Steps
<1>8. s[n - 1] = r[n]
  BY <1>2, <1>3
<1>9. QED
  BY <1>1, <1>2, <1>7, <1>8, ReadingIs DEF left, n

LEMMA ValueOut ==
  ASSUME NEW st \in ScanState, st.wants = Nothing, NEW args \in Seq(Token), Apart(args),
         NEW o \in ValueOptions, o \notin st.on,
         NEW k \in 1 .. Len(args) - 1, args[k] = Option(o),
         \A j \in 1 .. k - 1 : args[j] # Option(o)
  PROVE  Reading(WithValue(st, o, args[k + 1]), RemoveAt(RemoveAt(args, k), k))
           = Reading(st, args)
<1> DEFINE left == RemoveAt(RemoveAt(args, k), k)
           n == Len(args)
           v == args[k + 1]
<1>1. PICK r : Steps(r, st, args)
  BY StepsExist
<1>2. /\ n \in Nat /\ k \in 1 .. n - 1 /\ \A i \in 1 .. n : args[i] \in Token
      /\ left \in Seq(Token) /\ Len(left) = n - 2
      /\ \A i \in 1 .. n - 2 : left[i] = IF i < k THEN args[i] ELSE args[i + 2]
  <2> DEFINE once == RemoveAt(args, k)
  <2>1. /\ k \in 1 .. n /\ k \in 1 .. n - 1 /\ n \in Nat
        /\ \A i \in 1 .. n : args[i] \in Token
    OBVIOUS
  <2>2. /\ once \in Seq(Token) /\ Len(once) = n - 1
        /\ \A i \in 1 .. n - 1 : once[i] = IF i < k THEN args[i] ELSE args[i + 1]
    BY <2>1, RemoveAtIs
  <2> HIDE DEF once, n
  <2>3a. k \in 1 .. Len(once)
    BY <2>1, <2>2
  <2>3. /\ RemoveAt(once, k) \in Seq(Token) /\ Len(RemoveAt(once, k)) = (n - 1) - 1
        /\ \A i \in 1 .. (n - 1) - 1 :
              RemoveAt(once, k)[i] = IF i < k THEN once[i] ELSE once[i + 1]
    BY <2>2, <2>3a, RemoveAtIs
  <2>4. ASSUME NEW i \in 1 .. n - 2
        PROVE  RemoveAt(once, k)[i] = IF i < k THEN args[i] ELSE args[i + 2]
    <3>1. i \in 1 .. n - 1 /\ i + 1 \in 1 .. n - 1 /\ i \in 1 .. (n - 1) - 1
      BY <2>1
    <3>2. CASE i < k
      BY <2>1, <2>2, <2>3, <3>1, <3>2
    <3>3. CASE ~(i < k)
      BY <2>1, <2>2, <2>3, <3>1, <3>3
    <3>4. QED
      BY <3>2, <3>3
  <2>5. QED
    BY <2>1, <2>3, <2>4 DEF once, n
<1>3. /\ r[k - 1] \in ScanState /\ r[k - 1].wants = Nothing
      /\ r[k] = Opened(r[k - 1], o, o)
  <2>1. o \in Known /\ k \in 1 .. Len(args)
    BY DEF Known
  <2>2. QED
    BY <1>1, <2>1, AtOption
<1>4. v \in Token /\ v \in Argument /\ v.dashes = 0
  <2>1. v \in Token
    BY <1>2
  <2>2. QED
    BY <1>2, <2>1, TokenTypes DEF Apart
<1>5. \A i \in 1 .. n : /\ r[i] = Read(r[i - 1], args[i]) /\ r[i - 1] \in ScanState
  <2>1. ASSUME NEW i \in 1 .. n PROVE r[i] = Read(r[i - 1], args[i]) /\ i - 1 \in 0 .. n
    BY <1>1, StepsAt
  <2>2. \A i \in 0 .. n : r[i] \in ScanState
    BY <1>1, StepsTyped
  <2>3. QED
    BY <2>1, <2>2
<1>6. r[0] = st
  BY <1>1, StepsAt
<1>7. r[k + 1] = WithValue(r[k - 1], o, v)
  <2>1. o # Nothing
    BY NothingIsNoOption
  <2>2. r[k + 1] = Read(r[k], v)
    BY <1>2, <1>5
  <2> HIDE DEF v
  <2>3. r[k].wants = o
    BY <1>3 DEF Opened, ScanState
  <2>4. r[k + 1] = Filled(r[k], v)
    BY <2>1, <2>2, <2>3 DEF Read
  <2> DEFINE q == r[k - 1]
             val == [q.value EXCEPT ![o] = v]
             b == q.odd \/ v.dashes > 0
  <2>5. b = q.odd
    BY <1>3, <1>4 DEF ScanState
  <2>6. r[k].value = q.value /\ r[k].odd = q.odd
    BY <1>3 DEF Opened, ScanState
  <2>7. r[k + 1] = [r[k] EXCEPT !.value = val, !.wants = Nothing, !.odd = b]
    BY <2>3, <2>4, <2>6 DEF Filled
  <2>8. WithValue(q, o, v) = [q EXCEPT !.on = @ \union {o}, !.value = val]
    BY DEF WithValue
  <2> HIDE DEF val, b, q
  <2>9. r[k + 1] = [on |-> q.on \union {o}, value |-> val, files |-> q.files,
                    wants |-> Nothing, over |-> q.over, bad |-> q.bad, odd |-> q.odd]
    <3>1. r[k] = [on |-> q.on \union {o}, value |-> q.value, files |-> q.files,
                  wants |-> o, over |-> q.over, bad |-> q.bad, odd |-> q.odd]
      BY <1>3 DEF Opened, ScanState, q
    <3>2. QED
      <4> DEFINE z == r[k]
      <4>1. z = [on |-> q.on \union {o}, value |-> q.value, files |-> q.files,
                 wants |-> o, over |-> q.over, bad |-> q.bad, odd |-> q.odd]
        BY <3>1
      <4>2. r[k + 1] = [z EXCEPT !.value = val, !.wants = Nothing, !.odd = q.odd]
        BY <2>5, <2>7
      <4> HIDE DEF z
      <4>3. QED
        BY <4>1, <4>2
  <2>10. WithValue(q, o, v)
           = [on |-> q.on \union {o}, value |-> val, files |-> q.files,
              wants |-> Nothing, over |-> q.over, bad |-> q.bad, odd |-> q.odd]
    BY <1>3, <2>8 DEF ScanState, q
  <2>11. QED
    BY <2>9, <2>10 DEF q
<1>8. ASSUME NEW i \in 1 .. k - 1
      PROVE  WithValue(r[i], o, v) = Read(WithValue(r[i - 1], o, v), args[i])
  <2>1. i \in 1 .. n /\ args[i] \in Token /\ args[i] # Option(o)
    BY <1>2
  <2>2. r[i - 1].wants # o
    <3>1. SUFFICES ASSUME r[i - 1].wants = o PROVE FALSE
      OBVIOUS
    <3>2. i - 1 > 0 /\ args[i - 1] = Option(o)
      <4>1. o # Nothing /\ i - 1 \in 0 .. Len(args)
        BY <2>1, NothingIsNoOption DEF n
      <4>2. QED
        BY <1>1, <3>1, <4>1, StepsTyped
    <3>3. i - 1 \in 1 .. k - 1
      BY <3>2
    <3>4. QED
      BY <3>2, <3>3
  <2>3. QED
    BY <1>4, <1>5, <2>1, <2>2, ReadWithValue
<1> HIDE DEF left, n, v
<1> DEFINE s == [i \in 0 .. n - 2 |-> IF i < k THEN WithValue(r[i], o, v) ELSE r[i + 2]]
<1>9. ASSUME NEW i \in 0 .. n - 2
      PROVE  s[i] = IF i = 0 THEN WithValue(st, o, v) ELSE Read(s[i - 1], left[i])
  <2>1. CASE i = 0
    BY <1>2, <1>6, <2>1
  <2>2. CASE i > 0 /\ i < k
    <3>1. WithValue(r[i], o, v) = Read(WithValue(r[i - 1], o, v), args[i])
      BY <1>2, <1>8, <2>2, SMTT(30)
    <3>2. /\ left[i] = args[i] /\ s[i - 1] = WithValue(r[i - 1], o, v)
          /\ s[i] = WithValue(r[i], o, v)
      BY <1>2, <2>2
    <3>3. QED
      BY <2>2, <3>1, <3>2
  <2>3. CASE i >= k
    <3>1. i \in 1 .. n - 2 /\ i + 2 \in 1 .. n /\ i # 0 /\ i - 1 \in 0 .. n - 2
      BY <1>2, <2>3
    <3>2. s[i] = Read(r[i + 1], args[i + 2]) /\ left[i] = args[i + 2]
      <4>1. r[i + 2] = Read(r[(i + 2) - 1], args[i + 2]) /\ (i + 2) - 1 = i + 1
        BY <1>5, <3>1
      <4>2. s[i] = r[i + 2] /\ left[i] = args[i + 2]
        BY <1>2, <2>3, <3>1
      <4>3. QED
        BY <4>1, <4>2
    <3>3. s[i - 1] = r[i + 1]
      BY <1>2, <1>7, <2>3, <3>1
    <3>4. QED
      BY <3>1, <3>2, <3>3
  <2>4. QED
    BY <1>2, <2>1, <2>2, <2>3
<1>10. Steps(s, WithValue(st, o, v), left)
  BY <1>2, <1>9 DEF Steps
<1>11. s[n - 2] = r[n]
  BY <1>2, <1>7
<1>12. QED
  BY <1>1, <1>2, <1>10, <1>11, ReadingIs DEF left, n, v

LEMMA ValueLast ==
  ASSUME NEW st \in ScanState, st.wants = Nothing, NEW args \in Seq(Token), Apart(args),
         NEW o \in ValueOptions, o \notin st.on,
         NEW k \in 1 .. Len(args), k = Len(args), args[k] = Option(o),
         \A j \in 1 .. k - 1 : args[j] # Option(o)
  PROVE  Reading(st, args).wants # Nothing
<1>1. PICK r : Steps(r, st, args)
  BY StepsExist
<1>2. o \in Known /\ o # Nothing
  BY NothingIsNoOption DEF Known
<1>3. /\ r[k - 1] \in ScanState
      /\ r[k] = Opened(r[k - 1], o, o)
  BY <1>1, <1>2, AtOption
<1>4. r[k].wants = o
  BY <1>3 DEF Opened, ScanState
<1>5. QED
  BY <1>1, <1>2, <1>4, ReadingIs

-----------------------------------------------------------------------------
(***************************************************************************)
(* parse_args takes one option after the other out of the arguments.  What *)
(* getopt makes of what has been taken and of what is left stays the same. *)
(***************************************************************************)
ParserState ==
    [args : Seq(Token), on : SUBSET Letters, value : [ValueOptions -> Argument \union {Nothing}],
     bad : BOOLEAN]

\* What has been taken, for getopt to go on with.
AsScan(p) ==
    [on |-> p.on, value |-> p.value, files |-> <<>>, wants |-> Nothing, over |-> FALSE,
     bad |-> FALSE, odd |-> FALSE]

\* p has looked for the options of done, and getopt comes to end.
Sound(p, end, done) ==
    /\ p \in ParserState /\ Apart(p.args) /\ Reading(AsScan(p), p.args) = end
    /\ p.on \subseteq done
    /\ p.bad => end.wants # Nothing
    /\ p.bad \/ \A o \in done : o \in p.on \/ ~Contains(p.args, Option(o))

LEMMA AsScanTyped ==
  ASSUME NEW p \in ParserState
  PROVE  AsScan(p) \in ScanState /\ AsScan(p).wants = Nothing /\ AsScan(p).on = p.on
  BY DEF ParserState, AsScan, ScanState

LEMMA TakenFlag ==
  ASSUME NEW p, NEW end, NEW done, Sound(p, end, done), NEW o \in Flags, o \notin done
  PROVE  Sound(TakeFlag(p, o), end, done \union {o})
<1> DEFINE args == p.args
           k == SelectInSeq(args, LAMBDA v : v = Option(o))
           left == RemoveAt(args, k)
<1>1. /\ args \in Seq(Token) /\ p \in ParserState /\ Apart(args)
      /\ Reading(AsScan(p), args) = end /\ o \notin p.on /\ o \in Letters
  BY DEF Sound, ParserState, Known, Letters
<1>2. CASE ~Contains(args, Option(o))
  <2>1. TakeFlag(p, o) = p
    BY <1>2 DEF TakeFlag
  <2>2. QED
    BY <1>2, <2>1 DEF Sound
<1>3. CASE Contains(args, Option(o))
  <2>1. PICK j \in 1 .. Len(args) : args[j] = Option(o)
    BY <1>3 DEF Contains
  <2>2. k \in 1 .. Len(args) /\ args[k] = Option(o) /\ \A i \in 1 .. k - 1 : args[i] # Option(o)
    BY <1>1, <2>1, FirstAt
  <2>3. TakeFlag(p, o) = [p EXCEPT !.args = left, !.on = @ \union {o}]
    BY <1>3, <2>1 DEF TakeFlag, RemoveFirst
  <2> HIDE DEF k
  <2>4. /\ left \in Seq(Token) /\ Len(left) = Len(args) - 1
        /\ \A i \in 1 .. Len(args) - 1 : left[i] = IF i < k THEN args[i] ELSE args[i + 1]
    BY <1>1, <2>2, RemoveAtIs
  <2>5. Apart(left)
    <3>1. Unwanted(args, k)
      BY <1>1, <2>2, DashedIsUnwanted, OptionIsDashed
    <3>2. QED
      BY <1>1, <2>2, <3>1, ApartKept
  <2>6. Reading(With(AsScan(p), o), left) = end
    <3>1. AsScan(p) \in ScanState /\ AsScan(p).wants = Nothing /\ o \notin AsScan(p).on
      BY <1>1, AsScanTyped
    <3> HIDE DEF args
    <3>2. QED
      BY <1>1, <2>2, <3>1, FlagOut
  <2> DEFINE q == TakeFlag(p, o)
  <2>7. ASSUME NEW a, Contains(left, a) PROVE Contains(args, a)
    <3>1. PICK i \in 1 .. Len(left) : left[i] = a
      BY <2>7 DEF Contains
    <3>2. i \in 1 .. Len(args) /\ i + 1 \in 1 .. Len(args)
      BY <1>1, <2>4, <3>1
    <3>3. QED
      BY <2>4, <3>1, <3>2 DEF Contains
  <2> HIDE DEF left
  <2>8. /\ q.args = left /\ q.on = p.on \union {o} /\ q.bad = p.bad /\ q \in ParserState
        /\ q.value = p.value
    <3>1. q = [args |-> left, on |-> p.on \union {o}, value |-> p.value, bad |-> p.bad]
      BY <1>1, <2>3 DEF ParserState
    <3>2. p.on \union {o} \subseteq Letters
      BY <1>1 DEF ParserState
    <3> HIDE DEF q
    <3>3. QED
      BY <1>1, <2>4, <3>1, <3>2 DEF ParserState
  <2>9. AsScan(q) = With(AsScan(p), o)
    <3>1. AsScan(q) = [on |-> p.on \union {o}, value |-> p.value, files |-> <<>>,
                       wants |-> Nothing, over |-> FALSE, bad |-> FALSE, odd |-> FALSE]
      BY <2>8 DEF AsScan
    <3>2. With(AsScan(p), o)
            = [on |-> p.on \union {o}, value |-> p.value, files |-> <<>>,
               wants |-> Nothing, over |-> FALSE, bad |-> FALSE, odd |-> FALSE]
      <4> DEFINE a == AsScan(p)
      <4>1. /\ a \in ScanState /\ a.on = p.on /\ a.value = p.value /\ a.files = <<>>
            /\ a.wants = Nothing /\ a.over = FALSE /\ a.bad = FALSE /\ a.odd = FALSE
        BY <1>1, AsScanTyped DEF AsScan
      <4> HIDE DEF a
      <4>2. With(a, o) = [on |-> a.on \union {o}, value |-> a.value, files |-> a.files,
                          wants |-> a.wants, over |-> a.over, bad |-> a.bad, odd |-> a.odd]
        BY <4>1, WithIs
      <4>3. QED
        BY <4>1, <4>2 DEF a
    <3>3. QED
      BY <3>1, <3>2
  <2>10. q.bad \/ \A x \in done \union {o} : x \in q.on \/ ~Contains(q.args, Option(x))
    BY <2>7, <2>8 DEF Sound
  <2> HIDE DEF q
  <2>11. QED
    BY <2>5, <2>6, <2>8, <2>9, <2>10 DEF Sound, q
<1>4. QED
  BY <1>2, <1>3

LEMMA TakenValue ==
  ASSUME NEW p, NEW end, NEW done, Sound(p, end, done), NEW o \in ValueOptions, o \notin done
  PROVE  Sound(TakeValue(p, o), end, done \union {o})
<1> DEFINE args == p.args
           k == SelectInSeq(args, LAMBDA v : v = Option(o))
           left == RemoveAt(RemoveAt(args, k), k)
           q == TakeValue(p, o)
<1>1. /\ args \in Seq(Token) /\ p \in ParserState /\ Apart(args)
      /\ Reading(AsScan(p), args) = end /\ o \notin p.on /\ o \in Letters
  BY DEF Sound, ParserState, Known, Letters
<1>2. AsScan(p) \in ScanState /\ AsScan(p).wants = Nothing /\ o \notin AsScan(p).on
  BY <1>1, AsScanTyped
<1>3. CASE ~Contains(args, Option(o))
  <2>1. k = 0
    <3>1. \A j \in 1 .. Len(args) : args[j] # Option(o)
      BY <1>3 DEF Contains
    <3>2. {i \in 1 .. Len(args) : args[i] = Option(o)} = {}
      BY <3>1
    <3>3. QED
      BY <3>2 DEF SelectInSeq
  <2>2. q = p
    BY <2>1 DEF TakeValue
  <2>3. QED
    BY <1>3, <2>2 DEF Sound
<1>4. CASE Contains(args, Option(o))
  <2>1. PICK j \in 1 .. Len(args) : args[j] = Option(o)
    BY <1>4 DEF Contains
  <2>2. k \in 1 .. Len(args) /\ args[k] = Option(o) /\ \A i \in 1 .. k - 1 : args[i] # Option(o)
    BY <1>1, <2>1, FirstAt
  <2>3. q = IF k = Len(args) THEN [p EXCEPT !.bad = TRUE]
            ELSE [p EXCEPT !.args = left, !.on = @ \union {o}, !.value[o] = args[k + 1]]
    BY <2>2 DEF TakeValue
  <2> HIDE DEF k
  <2>4. CASE k = Len(args)
    <3>1. end.wants # Nothing
      <4> HIDE DEF args
      <4>1. QED
        BY <1>1, <1>2, <2>2, <2>4, ValueLast
    <3>2. /\ q.args = args /\ q.on = p.on /\ q.bad = TRUE /\ q \in ParserState
          /\ q.value = p.value
      BY <1>1, <2>3, <2>4 DEF ParserState
    <3>3. AsScan(q) = AsScan(p)
      BY <3>2 DEF AsScan
    <3> HIDE DEF q
    <3>4. QED
      BY <1>1, <3>1, <3>2, <3>3 DEF Sound, q
  <2>5. CASE k # Len(args)
    <3> DEFINE once == RemoveAt(args, k)
    <3>1. k \in 1 .. Len(args) - 1 /\ Len(args) \in Nat /\ k + 1 \in 1 .. Len(args)
      BY <1>1, <2>2, <2>5
    <3>2. /\ once \in Seq(Token) /\ Len(once) = Len(args) - 1
          /\ \A i \in 1 .. Len(args) - 1 : once[i] = IF i < k THEN args[i] ELSE args[i + 1]
      BY <1>1, <2>2, RemoveAtIs
    <3>3. Unwanted(args, k)
      BY <1>1, <2>2, DashedIsUnwanted, OptionIsDashed
    <3>4. Apart(once) /\ Unwanted(once, k)
      <4>1. Apart(once)
        BY <1>1, <2>2, <3>3, ApartKept
      <4>2. ASSUME k > 1 PROVE once[k - 1] = args[k - 1]
        <5>1. k - 1 \in 1 .. Len(args) - 1 /\ k - 1 < k
          BY <3>1, <4>2
        <5> HIDE DEF once, args, left, q
        <5>2. QED
          BY <3>2, <5>1
      <4>3. QED
        BY <3>3, <4>1, <4>2 DEF Unwanted
    <3> HIDE DEF once
    <3>5. k \in 1 .. Len(once) /\ left = RemoveAt(once, k)
      BY <3>1, <3>2 DEF once
    <3>6. /\ left \in Seq(Token) /\ Len(left) = Len(once) - 1
          /\ \A i \in 1 .. Len(once) - 1 : left[i] = IF i < k THEN once[i] ELSE once[i + 1]
      BY <3>2, <3>5, RemoveAtIs, ZenonT(40)
    <3>7. Apart(left)
      BY <3>2, <3>4, <3>5, ApartKept
    <3>8. Reading(WithValue(AsScan(p), o, args[k + 1]), left) = end
      <4> HIDE DEF args
      <4>1. QED
        BY <1>1, <1>2, <2>2, <3>1, ValueOut
    <3>9. ASSUME NEW a, Contains(left, a) PROVE Contains(args, a)
      <4>1. PICK i \in 1 .. Len(left) : left[i] = a
        BY <3>9 DEF Contains
      <4>2. PICK m \in 1 .. Len(once) : once[m] = a
        <5>1. i \in 1 .. Len(once) /\ i + 1 \in 1 .. Len(once) /\ i \in 1 .. Len(once) - 1
          BY <3>1, <3>2, <3>6, <4>1
        <5>2. QED
          BY <3>6, <4>1, <5>1
      <4>3. m \in 1 .. Len(args) /\ m + 1 \in 1 .. Len(args) /\ m \in 1 .. Len(args) - 1
        BY <3>1, <3>2, <4>2
      <4>4. QED
        BY <3>2, <4>2, <4>3 DEF Contains
    <3>10. args[k + 1] \in Argument
      BY <1>1, <3>1, TokenTypes
    <3> DEFINE val == [p.value EXCEPT ![o] = args[k + 1]]
    <3>11. /\ val \in [ValueOptions -> Argument \union {Nothing}]
           /\ q = [p EXCEPT !.args = left, !.on = @ \union {o}, !.value = val]
      BY <1>1, <2>3, <2>5, <3>10 DEF ParserState
    <3>12. WithValue(AsScan(p), o, args[k + 1])
             = [AsScan(p) EXCEPT !.on = @ \union {o}, !.value = val]
      BY DEF WithValue, AsScan
    <3> HIDE DEF left, val, q
    <3>13. /\ q.args = left /\ q.on = p.on \union {o} /\ q.bad = p.bad /\ q \in ParserState
           /\ q.value = val
      BY <1>1, <3>6, <3>11 DEF ParserState
    <3>14. AsScan(q) = WithValue(AsScan(p), o, args[k + 1])
      BY <3>12, <3>13 DEF AsScan
    <3>15. q.bad \/ \A x \in done \union {o} : x \in q.on \/ ~Contains(q.args, Option(x))
      BY <3>9, <3>13 DEF Sound
    <3>16. QED
      BY <3>7, <3>8, <3>13, <3>14, <3>15 DEF Sound, q
  <2>6. QED
    BY <2>4, <2>5
<1>5. QED
  BY <1>3, <1>4

LEMMA NoneTwice ==
  /\ \A i, j \in 1 .. 16 : FlagOrder[i] = FlagOrder[j] => i = j
  /\ \A i, j \in 1 .. 9 : ValueOrder[i] = ValueOrder[j] => i = j
<1>1. \A i, j \in 1 .. 16 : FlagOrder[i] = FlagOrder[j] => i = j
  BY DEF FlagOrder
<1>2. \A i, j \in 1 .. 9 : ValueOrder[i] = ValueOrder[j] => i = j
  BY DEF ValueOrder
<1>3. QED
  BY <1>1, <1>2

LEMMA FlagsTakenSound ==
  ASSUME NEW p, NEW end, Sound(p, end, {})
  PROVE  Sound(FlagsTaken(p), end, Flags)
<1> DEFINE N == Len(FlagOrder)
           done(i) == {FlagOrder[j] : j \in 1 .. i}
<1>1. /\ N = 16 /\ done(N) = Flags /\ \A i \in 1 .. N : FlagOrder[i] \in Flags
      /\ \A i, j \in 1 .. N : FlagOrder[i] = FlagOrder[j] => i = j
  BY OptionLists, NoneTwice
<1>2. PICK f : FlagSteps(f, p, N) /\ FlagsTaken(p) = f[N]
  BY FlagsTakenSteps
<1> HIDE DEF N
<1>3. f[0] = p /\ \A i \in 1 .. N : f[i] = TakeFlag(f[i - 1], FlagOrder[i])
  BY <1>1, <1>2 DEF FlagSteps
<1>4. done(0) = {}
  OBVIOUS
<1>5. ASSUME NEW i \in 1 .. N
      PROVE  done(i) = done(i - 1) \union {FlagOrder[i]} /\ FlagOrder[i] \notin done(i - 1)
  <2>1. 1 .. i = (1 .. i - 1) \union {i} /\ i \in Nat
    BY <1>1
  <2>2. done(i) = done(i - 1) \union {FlagOrder[i]}
    BY <2>1
  <2>3. ASSUME NEW j \in 1 .. i - 1 PROVE FlagOrder[j] # FlagOrder[i]
    <3>1. j \in 1 .. N /\ j # i
      BY <1>1
    <3>2. QED
      BY <1>1, <3>1
  <2>4. QED
    BY <2>2, <2>3
<1> HIDE DEF done
<1> DEFINE without == {i \in Nat : i <= N /\ ~Sound(f[i], end, done(i))}
<1>6. without = {}
  <2>1. SUFFICES ASSUME without # {} PROVE FALSE
    OBVIOUS
  <2>2. without \subseteq Nat
    OBVIOUS
  <2>3. PICK i \in without : \A m \in without : i <= m
    BY <2>1, <2>2, LeastExists, Zenon
  <2>4. i \in 1 .. N
    BY <1>1, <1>3, <1>4, <2>3
  <2>5. i - 1 \in Nat /\ i - 1 <= N /\ ~(i <= i - 1)
    BY <1>1, <2>4
  <2>6. Sound(f[i - 1], end, done(i - 1))
    BY <2>3, <2>5
  <2>7. Sound(f[i], end, done(i))
    BY <1>1, <1>3, <1>5, <2>4, <2>6, TakenFlag
  <2>8. QED
    BY <2>3, <2>7
<1>7. QED
  BY <1>1, <1>2, <1>6

LEMMA ValuesTakenSound ==
  ASSUME NEW p, NEW end, Sound(p, end, Flags)
  PROVE  Sound(ValuesTaken(p), end, Known)
<1> DEFINE N == Len(ValueOrder)
           done(i) == Flags \union {ValueOrder[j] : j \in 1 .. i}
<1>1. /\ N = 9 /\ done(N) = Known
      /\ \A i \in 1 .. N : ValueOrder[i] \in ValueOptions /\ ValueOrder[i] \notin Flags
      /\ \A i, j \in 1 .. N : ValueOrder[i] = ValueOrder[j] => i = j
  <2>1. N = 9
    BY OptionLists
  <2>2. done(N) = Known
    BY OptionLists DEF Known
  <2>3. \A i \in 1 .. N : ValueOrder[i] \in ValueOptions /\ ValueOrder[i] \notin Flags
    BY OptionLists
  <2>4. \A i, j \in 1 .. N : ValueOrder[i] = ValueOrder[j] => i = j
    BY <2>1, NoneTwice
  <2>5. QED
    BY <2>1, <2>2, <2>3, <2>4
<1>2. PICK f : ValueSteps(f, p, N) /\ ValuesTaken(p) = f[N]
  BY ValuesTakenSteps
<1> HIDE DEF N
<1>3. f[0] = p /\ \A i \in 1 .. N : f[i] = TakeValue(f[i - 1], ValueOrder[i])
  BY <1>1, <1>2 DEF ValueSteps
<1>4. done(0) = Flags
  OBVIOUS
<1>5. ASSUME NEW i \in 1 .. N
      PROVE  done(i) = done(i - 1) \union {ValueOrder[i]} /\ ValueOrder[i] \notin done(i - 1)
  <2>1. 1 .. i = (1 .. i - 1) \union {i} /\ i \in Nat
    BY <1>1
  <2>2. done(i) = done(i - 1) \union {ValueOrder[i]}
    BY <2>1
  <2>3. ASSUME NEW j \in 1 .. i - 1 PROVE ValueOrder[j] # ValueOrder[i]
    <3>1. j \in 1 .. N /\ j # i
      BY <1>1
    <3>2. QED
      BY <1>1, <3>1
  <2>4. QED
    BY <1>1, <2>2, <2>3
<1> HIDE DEF done
<1> DEFINE without == {i \in Nat : i <= N /\ ~Sound(f[i], end, done(i))}
<1>6. without = {}
  <2>1. SUFFICES ASSUME without # {} PROVE FALSE
    OBVIOUS
  <2>2. without \subseteq Nat
    OBVIOUS
  <2>3. PICK i \in without : \A m \in without : i <= m
    BY <2>1, <2>2, LeastExists, Zenon
  <2>4. i \in 1 .. N
    BY <1>1, <1>3, <1>4, <2>3
  <2>5. i - 1 \in Nat /\ i - 1 <= N /\ ~(i <= i - 1)
    BY <1>1, <2>4
  <2>6. Sound(f[i - 1], end, done(i - 1))
    BY <2>3, <2>5
  <2>7. Sound(f[i], end, done(i))
    BY <1>1, <1>3, <1>5, <2>4, <2>6, TakenValue
  <2>8. QED
    BY <2>3, <2>7
<1>7. QED
  BY <1>1, <1>2, <1>6

\* When everything has been looked for, what is left are files, or getopt refuses too.
LEMMA FilesLeft ==
  ASSUME NEW p, NEW end, Sound(p, end, Known), ~p.bad,
         \A i \in DOMAIN p.args : ~(p.args[i].dashes > 0)
  PROVE  /\ end.on = p.on /\ end.value = p.value /\ end.files = p.args
         /\ end.wants = Nothing /\ ~end.bad
<1> DEFINE args == p.args
           n == Len(args)
           st == AsScan(p)
           r == [i \in 0 .. n |-> [st EXCEPT !.files = SubSeq(args, 1, i)]]
<1>1. /\ args \in Seq(Token) /\ n \in Nat /\ DOMAIN args = 1 .. n
      /\ \A i \in 1 .. n : args[i] \in Token
  BY DEF Sound, ParserState
<1>2. \A i \in 1 .. n : args[i].dashes = 0
  <2>1. \A i \in 1 .. n : args[i].dashes \in 0 .. 2
    BY <1>1, TokenTypes
  <2>2. QED
    BY <1>1, <2>1
<1>3. /\ st \in ScanState /\ st.on = p.on /\ st.value = p.value /\ st.files = <<>>
      /\ st.wants = Nothing /\ st.over = FALSE /\ st.bad = FALSE /\ st.odd = FALSE
  <2>1. p \in ParserState
    BY DEF Sound
  <2>2. QED
    BY <2>1, AsScanTyped DEF AsScan
<1> HIDE DEF n, st
<1>4. ASSUME NEW i \in 1 .. n
      PROVE  Append(SubSeq(args, 1, i - 1), args[i]) = SubSeq(args, 1, i)
  BY <1>1 DEF n
<1>5. SubSeq(args, 1, 0) = <<>> /\ SubSeq(args, 1, n) = args
  BY <1>1 DEF n
<1> HIDE DEF args
<1>6. ASSUME NEW i \in 0 .. n PROVE r[i] = IF i = 0 THEN st ELSE Read(r[i - 1], args[i])
  <2>1. CASE i = 0
    <3>1. [st EXCEPT !.files = <<>>] = st
      BY <1>3 DEF ScanState
    <3>2. QED
      BY <1>1, <1>5, <2>1, <3>1
  <2>2. CASE i # 0
    <3>1. i \in 1 .. n /\ i - 1 \in 0 .. n
      BY <1>1, <2>2
    <3> DEFINE sofar == SubSeq(args, 1, i - 1)
               q == [st EXCEPT !.files = sofar]
    <3>2. r[i - 1] = q /\ r[i] = [st EXCEPT !.files = Append(sofar, args[i])]
      BY <1>4, <3>1
    <3> HIDE DEF sofar
    <3>3. /\ q.wants = Nothing /\ q.files = sofar /\ q.odd = FALSE
      BY <1>3 DEF ScanState
    <3>4. Read(q, args[i]) = [q EXCEPT !.files = Append(sofar, args[i]), !.odd = FALSE]
      <4> DEFINE b == q.odd \/ args[i].dashes > 0
      <4>1. b = FALSE
        BY <1>2, <3>1, <3>3
      <4>2. Read(q, args[i]) = [q EXCEPT !.files = Append(@, args[i]), !.odd = b]
        BY <1>2, <3>1, <3>3 DEF Read
      <4> HIDE DEF b
      <4>3. QED
        BY <3>3, <4>1, <4>2
    <3>5. Read(q, args[i]) = [st EXCEPT !.files = Append(sofar, args[i])]
      BY <1>3, <3>4 DEF ScanState
    <3> HIDE DEF r, q
    <3>6. QED
      BY <2>2, <3>2, <3>5
  <2>3. QED
    BY <2>1, <2>2
<1>7. Steps(r, st, args)
  BY <1>6 DEF Steps, n
<1>8. r[n] = [st EXCEPT !.files = args]
  BY <1>1, <1>5
<1>9. end = [st EXCEPT !.files = args]
  <2> HIDE DEF r
  <2>1. Reading(st, args) = r[n]
    BY <1>1, <1>7, ReadingIs DEF n
  <2>2. QED
    BY <1>8, <2>1 DEF Sound, st, args
<1>10. QED
  BY <1>3, <1>9 DEF args, ScanState

LEMMA OptionLeft ==
  ASSUME NEW p, NEW end, Sound(p, end, Known), ~p.bad,
         NEW i \in DOMAIN p.args, p.args[i].dashes > 0
  PROVE  end.bad
<1> DEFINE args == p.args
           st == AsScan(p)
<1>1. args \in Seq(Token) /\ p \in ParserState /\ Apart(args) /\ Reading(st, args) = end
  BY DEF Sound, ParserState
<1>2. st \in ScanState /\ st.wants = Nothing /\ st.on = p.on
  BY <1>1, AsScanTyped
<1>3. i \in 1 .. Len(args) /\ i - 1 \in 0 .. Len(args) /\ args[i] \in Token
  BY <1>1
<1>4. args[i].dashes > 0 /\ args[i].dashes # 0
  OBVIOUS
<1>5. \A o \in Known : args[i] = Option(o) => o \in p.on
  BY <1>3 DEF Sound, Contains
<1> HIDE DEF args, st
<1>6. PICK r : Steps(r, st, args)
  BY <1>1, StepsExist
<1>7. r[i] = Read(r[i - 1], args[i]) /\ r[0] = st
  BY <1>1, <1>3, <1>6, StepsAt
<1>8. r[i - 1] \in ScanState /\ r[i] \in ScanState
  BY <1>1, <1>2, <1>3, <1>6, StepsTyped
<1>9. r[i - 1].wants = Nothing
  BY <1>1, <1>2, <1>3, <1>4, <1>6, StepsTyped, DashedIsUnwanted DEF Unwanted
<1>10. st.on \subseteq r[i - 1].on
  <2>1. 0 \in 0 .. Len(args) /\ i - 1 \in 0 .. Len(args)
    BY <1>1, <1>3
  <2>2. QED
    BY <1>1, <1>2, <1>6, <1>7, <2>1, StepsGrow
<1>11. r[i].bad
  <2>1. r[i] = Seen(r[i - 1], args[i].text[1])
    BY <1>4, <1>7, <1>9 DEF Read
  <2>2. args[i].text[1] \notin Known \/ args[i].text[1] \in r[i - 1].on
    BY <1>2, <1>3, <1>4, <1>5, <1>10, Spelt
  <2>3. QED
    BY <1>8, <2>1, <2>2 DEF Seen, Known, ScanState
<1>12. Len(args) \in i .. Len(args) /\ i \in 0 .. Len(args)
  BY <1>1, <1>3
<1>13. r[Len(args)].bad
  BY <1>1, <1>2, <1>6, <1>11, <1>12, StepsGrow
<1>14. QED
  BY <1>1, <1>6, <1>13, ReadingIs

(***************************************************************************)
(* parse_args says what getopt would say of the same tokens, or that the   *)
(* options exclude each other.                                             *)
(***************************************************************************)
Said(end) ==
    IF end.bad \/ end.wants # Nothing \/ Cardinality(end.on \cap Actions) > 1
    THEN Refused
    ELSE [on |-> end.on, value |-> end.value, files |-> end.files]

LEMMA ParsedSays ==
  ASSUME NEW argv, NEW args, args = expand_combined_flags(argv), args \in Seq(Token), Apart(args),
         NEW end, end = Reading(Unscanned, args)
  PROVE  parse_args(argv) = IF Said(end) # Refused /\ Excluded(end.on) THEN Refused ELSE Said(end)
<1> DEFINE p0 == Unparsed(argv)
           p == ValuesTaken(FlagsTaken(p0))
<1>1. Sound(p0, end, {})
  <2>1. /\ p0 = [args |-> args, on |-> {}, value |-> NoValues, bad |-> FALSE]
        /\ NoValues \in [ValueOptions -> Argument \union {Nothing}]
    BY DEF Unparsed, NoValues
  <2>2. p0 \in ParserState /\ p0.args = args /\ p0.on = {} /\ p0.bad = FALSE
    BY <2>1 DEF ParserState
  <2>3. AsScan(p0) = Unscanned
    BY <2>1 DEF AsScan, Unscanned
  <2> HIDE DEF p0
  <2>4. QED
    BY <2>2, <2>3 DEF Sound
<1>2. Sound(p, end, Known)
  BY <1>1, FlagsTakenSound, ValuesTakenSound
<1>3. parse_args(argv) =
        IF \/ p.bad
           \/ Cardinality(p.on \cap Actions) > 1
           \/ Excluded(p.on)
           \/ \E i \in DOMAIN p.args : p.args[i].dashes > 0
        THEN Refused
        ELSE [on |-> p.on, value |-> p.value, files |-> p.args]
  BY DEF parse_args
<1> HIDE DEF p, p0
<1>4. CASE p.bad
  BY <1>2, <1>3, <1>4 DEF Said, Sound
<1>5. CASE ~p.bad /\ \E i \in DOMAIN p.args : p.args[i].dashes > 0
  <2>1. end.bad
    BY <1>2, <1>5, OptionLeft
  <2>2. QED
    BY <1>3, <1>5, <2>1 DEF Said
<1>6. CASE ~p.bad /\ \A i \in DOMAIN p.args : ~(p.args[i].dashes > 0)
  <2>1. /\ end.on = p.on /\ end.value = p.value /\ end.files = p.args
        /\ end.wants = Nothing /\ ~end.bad
    BY <1>2, <1>6, FilesLeft
  <2>2. QED
    BY <1>3, <1>6, <2>1 DEF Said
<1>7. QED
  BY <1>4, <1>5, <1>6

-----------------------------------------------------------------------------
(***************************************************************************)
(* getopt reads bundles as it reads their letters one by one.              *)
(***************************************************************************)
LEMMA ReadingAppended ==
  ASSUME NEW st, NEW a \in Seq(Token), NEW b \in Seq(Token)
  PROVE  a \o b \in Seq(Token) /\ Reading(st, a \o b) = Reading(Reading(st, a), b)
<1> DEFINE c == a \o b
           m == Len(a)
           n == Len(b)
<1>1. /\ c \in Seq(Token) /\ Len(c) = m + n
      /\ \A i \in 1 .. m + n : c[i] = IF i <= m THEN a[i] ELSE b[i - m]
  BY ConcatProperties
<1>2. m \in Nat /\ n \in Nat
  OBVIOUS
<1> HIDE DEF c
<1>3. PICK r : Steps(r, st, c)
  BY <1>1, StepsExist
<1>4. r[0] = st /\ \A i \in 1 .. m + n : r[i] = Read(r[i - 1], c[i])
  BY <1>1, <1>3, StepsAt
<1> DEFINE ra == [i \in 0 .. m |-> r[i]]
           rb == [i \in 0 .. n |-> r[m + i]]
<1>5. Steps(ra, st, a)
  <2>1. ASSUME NEW i \in 0 .. m PROVE ra[i] = IF i = 0 THEN st ELSE Read(ra[i - 1], a[i])
    <3>1. CASE i = 0
      BY <1>2, <1>4, <3>1
    <3>2. CASE i # 0
      <4>1. i \in 1 .. m + n /\ i <= m /\ i - 1 \in 0 .. m
        BY <1>2, <3>2
      <4>2. r[i] = Read(r[i - 1], a[i])
        BY <1>1, <1>4, <4>1
      <4>3. QED
        BY <3>2, <4>1, <4>2
    <3>3. QED
      BY <3>1, <3>2
  <2>2. QED
    BY <2>1 DEF Steps
<1>6. Reading(st, a) = r[m]
  <2>1. Reading(st, a) = ra[m]
    BY <1>5, ReadingIs
  <2>2. QED
    BY <1>2, <2>1
<1>7. Steps(rb, r[m], b)
  <2>1. ASSUME NEW i \in 0 .. n PROVE rb[i] = IF i = 0 THEN r[m] ELSE Read(rb[i - 1], b[i])
    <3>1. CASE i = 0
      BY <1>2, <3>1
    <3>2. CASE i # 0
      <4>1. m + i \in 1 .. m + n /\ ~(m + i <= m) /\ i - 1 \in 0 .. n
            /\ (m + i) - m = i /\ (m + i) - 1 = m + (i - 1)
        BY <1>2, <3>2
      <4>2. r[m + i] = Read(r[m + (i - 1)], b[i])
        BY <1>1, <1>4, <4>1
      <4>3. QED
        BY <3>2, <4>1, <4>2
    <3>3. QED
      BY <3>1, <3>2
  <2>2. QED
    BY <2>1 DEF Steps
<1>8. Reading(r[m], b) = r[m + n]
  <2>1. Reading(r[m], b) = rb[n]
    BY <1>7, ReadingIs
  <2>2. QED
    BY <1>2, <2>1
<1>9. Reading(st, c) = r[m + n]
  BY <1>1, <1>3, ReadingIs
<1>10. QED
  BY <1>1, <1>6, <1>8, <1>9 DEF c

\* f has the states of the scan of the first n letters of a text.
LetterSteps(f, st, text, n) ==
    f = [i \in 0 .. n |-> IF i = 0 THEN st ELSE Seen(f[i - 1], text[i])]

LEMMA LetterStepsExist == \A st, text : \A n \in Nat : \E f : LetterSteps(f, st, text, n)
<1> SUFFICES ASSUME NEW st, NEW text PROVE \A n \in Nat : \E f : LetterSteps(f, st, text, n)
  OBVIOUS
<1> DEFINE without == {n \in Nat : ~ \E f : LetterSteps(f, st, text, n)}
<1>1. SUFFICES ASSUME without # {} PROVE FALSE
  OBVIOUS
<1>2. without \subseteq Nat
  OBVIOUS
<1>3. PICK n \in without : \A m \in without : n <= m
  BY <1>1, <1>2, LeastExists, Zenon
<1>4. n \in Nat /\ ~ \E f : LetterSteps(f, st, text, n)
  BY <1>3
<1>5. n # 0
  <2>1. LetterSteps([i \in 0 .. 0 |-> st], st, text, 0)
    BY DEF LetterSteps
  <2>2. QED
    BY <1>4, <2>1
<1>6. n - 1 \in Nat /\ n - 1 \notin without
  BY <1>3, <1>4, <1>5
<1>7. PICK f : LetterSteps(f, st, text, n - 1)
  BY <1>6
<1> DEFINE g == [i \in 0 .. n |-> IF i = n THEN Seen(f[n - 1], text[n]) ELSE f[i]]
<1>8. LetterSteps(g, st, text, n)
  <2>1. ASSUME NEW i \in 0 .. n
        PROVE  g[i] = IF i = 0 THEN st ELSE Seen(g[i - 1], text[i])
    BY <1>4, <1>5, <1>7 DEF LetterSteps
  <2>2. QED
    BY <2>1 DEF LetterSteps
<1>9. QED
  BY <1>4, <1>8

\* The letters that are options before a value starts.
LastLetter(text) ==
    LET first == SelectInSeq(text, LAMBDA letter : letter \in ValueOptions)
    IN IF first = 0 THEN Len(text) ELSE first

LEMMA LastLetterIs ==
  ASSUME NEW text \in Seq(STRING), Len(text) > 0
  PROVE  /\ LastLetter(text) \in 1 .. Len(text)
         /\ \A i \in 1 .. LastLetter(text) - 1 : text[i] \notin ValueOptions
         /\ LastLetter(text) # Len(text) => text[LastLetter(text)] \in ValueOptions
<1> DEFINE those == {i \in 1 .. Len(text) : text[i] \in ValueOptions}
           first == SelectInSeq(text, LAMBDA letter : letter \in ValueOptions)
<1>1. Len(text) \in Nat /\ Len(text) > 0
  OBVIOUS
<1>2. CASE those = {}
  <2>1. first = 0
    BY <1>2 DEF SelectInSeq
  <2>2. QED
    BY <1>1, <1>2, <2>1 DEF LastLetter
<1>3. CASE those # {}
  <2>1. those \subseteq Nat
    OBVIOUS
  <2>2. first = Min(those)
    BY <1>3 DEF SelectInSeq
  <2>3. PICK m \in those : \A i \in those : m <= i
    BY <1>3, <2>1, LeastExists, Zenon
  <2>4. first \in those /\ \A i \in those : first <= i
    BY <2>2, <2>3, Zenon DEF Min
  <2>5. LastLetter(text) = first
    <3>1. first # 0
      BY <2>4
    <3>2. QED
      BY <3>1 DEF LastLetter
  <2> HIDE DEF first
  <2>6. QED
    BY <1>1, <2>4, <2>5
<1>4. QED
  BY <1>2, <1>3

LEMMA ExpandedIs ==
  ASSUME NEW arg \in Argument, arg.dashes = 1, Len(arg.text) > 0,
         NEW last, last = LastLetter(arg.text), NEW n, n = Len(arg.text)
  PROVE  /\ ExpandOne(arg) \in Seq(Token)
         /\ Len(ExpandOne(arg)) = IF last = n THEN last ELSE last + 1
         /\ \A i \in 1 .. last : ExpandOne(arg)[i] = Short(arg.text[i])
         /\ last # n => ExpandOne(arg)[last + 1] = Arg(0, SubSeq(arg.text, last + 1, n))
<1> DEFINE text == arg.text
<1>1. /\ arg \in [dashes : 0 .. 2, text : Seq(STRING)] /\ text \in Seq(STRING) /\ n \in Nat
      /\ \A i \in 1 .. n : text[i] \in STRING /\ text[i] \notin LongFlags \union LongValues
  BY DEF Argument
<1>2. last \in 1 .. n
  BY <1>1, LastLetterIs
<1>3. \A i \in 1 .. n : Short(text[i]) \in Token
  <2>1. ASSUME NEW c \in STRING, c \notin LongFlags \union LongValues PROVE Short(c) \in Token
    <3>1. /\ Short(c) = [dashes |-> 1, text |-> <<c>>] /\ <<c>> \in Seq(STRING)
          /\ Len(<<c>>) = 1 /\ {<<c>>[i] : i \in DOMAIN <<c>>} = {c}
      BY DEF Short, Arg
    <3> HIDE DEF text
    <3>2. Short(c) \in [dashes : 0 .. 2, text : Seq(STRING)]
      BY <3>1
    <3>3. Short(c).dashes = 1 /\ Short(c).text = <<c>>
      BY <3>1
    <3>4. {<<c>>[i] : i \in DOMAIN <<c>>} \cap (LongFlags \union LongValues) = {}
      BY <2>1, <3>1
    <3>5. Short(c) \in Argument
      BY <3>2, <3>3, <3>4 DEF Argument
    <3>6. QED
      BY <3>1, <3>3, <3>5 DEF Token
  <2>2. QED
    BY <1>1, <2>1
<1>4. ASSUME last # n PROVE Arg(0, SubSeq(text, last + 1, n)) \in Token
  <2> DEFINE v == SubSeq(text, last + 1, n)
  <2>1. v \in Seq(STRING)
    BY <1>1, <1>2
  <2> HIDE DEF v
  <2>2. Arg(0, v) \in [dashes : 0 .. 2, text : Seq(STRING)] /\ Arg(0, v).dashes = 0
    BY <2>1 DEF Arg
  <2>3. QED
    BY <2>2 DEF Token, Argument, v
<1>5. CASE n < 2
  <2>1. n = 1 /\ last = 1
    <3>1. n \in Nat /\ n > 0 /\ n < 2 /\ last \in 1 .. n
      BY <1>1, <1>2, <1>5
    <3> HIDE DEF text
    <3>2. QED
      BY ONLY <3>1
  <2>2. text = <<text[1]>>
    <3>1. text \in Seq(STRING) /\ Len(text) = 1
      BY <1>1, <2>1
    <3> HIDE DEF text
    <3>2. QED
      BY ONLY <3>1
  <2>3. arg = Short(text[1])
    BY <1>1, <2>2 DEF Short, Arg
  <2>4. ExpandOne(arg) = <<arg>>
    BY <1>5 DEF ExpandOne
  <2>5. arg \in Token
    BY <1>3, <2>1, <2>3
  <2>6. QED
    BY <2>1, <2>3, <2>4, <2>5
<1>6. CASE ~(n < 2)
  <2> DEFINE letters == [i \in 1 .. last |-> Short(text[i])]
             value == Arg(0, SubSeq(text, last + 1, n))
  <2>1. ExpandOne(arg) = IF last = n THEN letters ELSE Append(letters, value)
    <3> DEFINE taking == SelectInSeq(text, LAMBDA letter : letter \in VALUE_FLAGS)
               first == SelectInSeq(text, LAMBDA letter : letter \in ValueOptions)
    <3>1. {i \in 1 .. n : text[i] \in VALUE_FLAGS} = {i \in 1 .. n : text[i] \in ValueOptions}
      BY <1>1, OptionLists
    <3>2. taking = first
      BY <3>1 DEF SelectInSeq
    <3>3. last = IF taking = 0 THEN n ELSE taking
      BY <3>2 DEF LastLetter
    <3> HIDE DEF taking, first
    <3>4. QED
      BY <1>6, <3>3 DEF ExpandOne, taking
  <2>2. letters \in Seq(Token) /\ Len(letters) = last
    BY <1>2, <1>3
  <2>3. \A i \in 1 .. last : letters[i] = Short(text[i])
    OBVIOUS
  <2>4. last \in Nat
    BY <1>1, <1>2
  <2> HIDE DEF letters, value
  <2>5. CASE last = n
    BY <2>1, <2>2, <2>3, <2>5
  <2>6. CASE last # n
    <3>1. value \in Token
      BY <1>4, <2>6 DEF value
    <3> DEFINE e == Append(letters, value)
    <3>2. /\ e \in Seq(Token) /\ Len(e) = last + 1 /\ e[last + 1] = value
          /\ \A i \in 1 .. last : e[i] = letters[i]
      BY <2>2, <2>4, <3>1
    <3> HIDE DEF e
    <3>3. ExpandOne(arg) = e
      BY <2>1, <2>6 DEF e
    <3>4. QED
      BY <2>3, <2>6, <3>2, <3>3 DEF value
  <2>7. QED
    BY <2>5, <2>6
<1>7. QED
  BY <1>1, <1>5, <1>6

LEMMA SeenTyped ==
  ASSUME NEW st \in ScanState, NEW o \in Letters
  PROVE  /\ Seen(st, o) \in ScanState
         /\ Seen(st, o).wants = IF o \in ValueOptions THEN o ELSE Nothing
         /\ Seen(st, o).odd = st.odd /\ Seen(st, o).over = st.over
<1> DEFINE b == st.bad \/ o \notin Flags \union ValueOptions \/ o \in st.on
           w == IF o \in ValueOptions THEN o ELSE Nothing
<1>1. Seen(st, o) = [st EXCEPT !.bad = b, !.on = st.on \union {o}, !.wants = w]
  BY DEF Seen, ScanState
<1>2. b \in BOOLEAN /\ w \in ValueOptions \union {Nothing} /\ st.on \union {o} \in SUBSET Letters
  BY DEF ScanState
<1> HIDE DEF b, w
<1>3. Seen(st, o) = [on |-> st.on \union {o}, value |-> st.value, files |-> st.files,
                     wants |-> w, over |-> st.over, bad |-> b, odd |-> st.odd]
  BY <1>1 DEF ScanState
<1>4. Seen(st, o) \in ScanState
  BY <1>2, <1>3 DEF ScanState
<1>5. Seen(st, o).wants = w /\ Seen(st, o).odd = st.odd /\ Seen(st, o).over = st.over
  BY <1>3
<1>6. QED
  BY <1>4, <1>5 DEF w

LEMMA FilledTyped ==
  ASSUME NEW st \in ScanState, st.wants # Nothing, NEW arg \in Argument
  PROVE  /\ Filled(st, arg) \in ScanState /\ Filled(st, arg).wants = Nothing
         /\ Filled(st, arg).odd = (st.odd \/ arg.dashes > 0) /\ Filled(st, arg).over = st.over
<1>1. arg.dashes \in 0 .. 2
  BY DEF Argument
<1> DEFINE b == st.odd \/ arg.dashes > 0
           v == [st.value EXCEPT ![st.wants] = arg]
<1>2. Filled(st, arg) = [st EXCEPT !.value = v, !.wants = Nothing, !.odd = b]
  BY DEF Filled, ScanState
<1>3. b \in BOOLEAN /\ v \in [ValueOptions -> Argument \union {Nothing}]
  BY <1>1 DEF ScanState
<1> HIDE DEF b, v
<1>4. Filled(st, arg) = [on |-> st.on, value |-> v, files |-> st.files,
                         wants |-> Nothing, over |-> st.over, bad |-> st.bad, odd |-> b]
  BY <1>2 DEF ScanState
<1>5. Filled(st, arg) \in ScanState
  BY <1>3, <1>4 DEF ScanState
<1>6. /\ Filled(st, arg).wants = Nothing /\ Filled(st, arg).odd = b
      /\ Filled(st, arg).over = st.over
  BY <1>4
<1>7. QED
  BY <1>5, <1>6 DEF b

\* The states of the scan of an argument's letters.
LEMMA LettersScanned ==
  ASSUME NEW st \in ScanState, st.wants = Nothing,
         NEW arg \in Argument, arg.dashes = 1, Len(arg.text) > 0,
         NEW last, last = LastLetter(arg.text), NEW n, n = Len(arg.text)
  PROVE  \E f :
           /\ f[0] = st /\ \A i \in 1 .. last : f[i] = Seen(f[i - 1], arg.text[i])
           /\ \A i \in 0 .. last : /\ f[i] \in ScanState
                                   /\ f[i].odd = st.odd /\ f[i].over = st.over
                                   /\ i < last => f[i].wants = Nothing
           /\ last # n => f[last].wants \in ValueOptions
           /\ ScanLetters(st, arg) =
                IF last = n THEN f[last] ELSE Filled(f[last], Arg(0, SubSeq(arg.text, last + 1, n)))
<1> DEFINE text == arg.text
<1>1. /\ text \in Seq(STRING) /\ n \in Nat /\ n > 0 /\ \A i \in 1 .. n : text[i] \in Letters
  <2>1. text \in Seq(STRING) /\ n = Len(text) /\ Len(text) > 0
    BY DEF Argument
  <2> HIDE DEF text
  <2>2. n \in Nat /\ \A i \in 1 .. n : text[i] \in STRING
    BY <2>1
  <2>3. QED
    BY <2>1, <2>2 DEF Letters
<1>2. /\ last \in 1 .. n /\ \A i \in 1 .. last - 1 : text[i] \notin ValueOptions
      /\ last # n => text[last] \in ValueOptions
  BY <1>1, LastLetterIs
<1>3. last \in Nat /\ last > 0
  BY <1>1, <1>2
<1>4. \E f : /\ LetterSteps(f, st, text, last)
             /\ ScanLetters(st, arg) =
                  IF last = n THEN f[last]
                  ELSE Filled(f[last], Arg(0, SubSeq(text, last + 1, n)))
  <2> DEFINE f == CHOOSE g : LetterSteps(g, st, text, last)
  <2>1. LetterSteps(f, st, text, last)
    <3>1. \E g : LetterSteps(g, st, text, last)
      BY <1>3, LetterStepsExist
    <3>2. QED
      BY <3>1, Zenon
  <2>2. ScanLetters(st, arg) =
          LET l == LastLetter(text)
              g == CHOOSE g : LetterSteps(g, st, text, l)
          IN IF l = Len(text) THEN g[l] ELSE Filled(g[l], Arg(0, SubSeq(text, l + 1, Len(text))))
    BY Zenon DEF ScanLetters, LetterSteps, LastLetter
  <2>3. ScanLetters(st, arg) =
          IF last = n THEN f[last] ELSE Filled(f[last], Arg(0, SubSeq(text, last + 1, n)))
    BY <2>2, Zenon
  <2> HIDE DEF f
  <2>4. QED
    BY <2>1, <2>3
<1>5. PICK f : /\ LetterSteps(f, st, text, last)
               /\ ScanLetters(st, arg) =
                    IF last = n THEN f[last]
                    ELSE Filled(f[last], Arg(0, SubSeq(text, last + 1, n)))
  BY <1>4, Zenon
<1> HIDE DEF text
<1>6. f[0] = st /\ \A i \in 1 .. last : f[i] = Seen(f[i - 1], text[i])
  BY <1>3, <1>5 DEF LetterSteps
<1> DEFINE Fine(i) == /\ f[i] \in ScanState
                      /\ f[i].odd = st.odd /\ f[i].over = st.over
                      /\ i < last => f[i].wants = Nothing
           without == {i \in Nat : i <= last /\ ~Fine(i)}
<1>7. Fine(0)
  BY <1>6
<1>8. ASSUME NEW i \in 1 .. last, Fine(i - 1) PROVE Fine(i)
  <2>1. f[i] = Seen(f[i - 1], text[i]) /\ text[i] \in Letters /\ f[i - 1] \in ScanState
    BY <1>1, <1>2, <1>6, <1>8
  <2>2. i < last => text[i] \notin ValueOptions
    BY <1>2, <1>3
  <2>3. QED
    BY <1>8, <2>1, <2>2, SeenTyped
<1> HIDE DEF Fine
<1>9. without = {}
  <2>1. SUFFICES ASSUME without # {} PROVE FALSE
    OBVIOUS
  <2>2. without \subseteq Nat
    OBVIOUS
  <2>3. PICK i \in without : \A j \in without : i <= j
    BY <2>1, <2>2, LeastExists, Zenon
  <2>4. i \in 1 .. last
    BY <1>3, <1>7, <2>3
  <2>5. i - 1 \in Nat /\ i - 1 <= last /\ ~(i <= i - 1)
    BY <1>3, <2>4
  <2>6. Fine(i - 1)
    BY <2>3, <2>5
  <2>7. QED
    BY <1>8, <2>3, <2>4, <2>6
<1>10. \A i \in 0 .. last : Fine(i)
  BY <1>3, <1>9
<1>11. last # n => f[last].wants \in ValueOptions
  <2>1. f[last] = Seen(f[last - 1], text[last]) /\ text[last] \in Letters /\ last - 1 \in 0 .. last
    BY <1>1, <1>2, <1>3, <1>6
  <2>2. f[last - 1] \in ScanState
    BY <1>10, <2>1 DEF Fine
  <2>3. QED
    BY <1>2, <2>1, <2>2, SeenTyped
<1>12. QED
  BY <1>5, <1>6, <1>10, <1>11 DEF Fine, text

LEMMA LettersRead ==
  ASSUME NEW st \in ScanState, st.wants = Nothing,
         NEW arg \in Argument, arg.dashes = 1, Len(arg.text) > 0
  PROVE  ExpandOne(arg) \in Seq(Token) /\ ScanLetters(st, arg) = Reading(st, ExpandOne(arg))
<1> DEFINE text == arg.text
           n == Len(text)
           last == LastLetter(text)
           E == ExpandOne(arg)
           m == Len(E)
           value == Arg(0, SubSeq(text, last + 1, n))
<1>1. /\ E \in Seq(Token) /\ m = IF last = n THEN last ELSE last + 1
      /\ \A i \in 1 .. last : E[i] = Short(text[i])
      /\ last # n => E[last + 1] = value
  BY ExpandedIs
<1>2. PICK f :
           /\ f[0] = st /\ \A i \in 1 .. last : f[i] = Seen(f[i - 1], text[i])
           /\ \A i \in 0 .. last : /\ f[i] \in ScanState
                                   /\ f[i].odd = st.odd /\ f[i].over = st.over
                                   /\ i < last => f[i].wants = Nothing
           /\ last # n => f[last].wants \in ValueOptions
           /\ ScanLetters(st, arg) = IF last = n THEN f[last] ELSE Filled(f[last], value)
  BY LettersScanned
<1>3. last \in Nat /\ n \in Nat
  <2>1. text \in Seq(STRING) /\ Len(text) > 0
    BY DEF Argument
  <2> HIDE DEF text
  <2>2. QED
    BY <2>1, LastLetterIs
<1> HIDE DEF value, last, n, E, text
<1> DEFINE r == [i \in 0 .. m |-> IF i <= last THEN f[i] ELSE Filled(f[last], value)]
<1>4. ASSUME NEW i \in 0 .. m PROVE r[i] = IF i = 0 THEN st ELSE Read(r[i - 1], E[i])
  <2>1. CASE i = 0
    BY <1>2, <1>3, <2>1
  <2>2. CASE i # 0 /\ i <= last
    <3>1. i \in 1 .. last /\ i - 1 \in 0 .. m /\ i - 1 <= last /\ i - 1 < last /\ i - 1 \in 0 .. last
      BY <1>1, <1>3, <2>2
    <3>2. r[i] = f[i] /\ r[i - 1] = f[i - 1]
      BY <2>2, <3>1
    <3>3. E[i].dashes = 1 /\ E[i].text[1] = text[i] /\ f[i - 1].wants = Nothing
      <4>1. E[i] = Short(text[i]) /\ f[i - 1].wants = Nothing
        BY <1>1, <1>2, <3>1
      <4>2. Short(text[i]).dashes = 1 /\ Short(text[i]).text[1] = text[i]
        BY DEF Short, Arg
      <4>3. QED
        BY <4>1, <4>2
    <3>4. Read(f[i - 1], E[i]) = Seen(f[i - 1], text[i])
      BY <3>3 DEF Read
    <3> HIDE DEF r
    <3>5. QED
      BY <1>2, <2>2, <3>1, <3>2, <3>4
  <2>3. CASE i # 0 /\ ~(i <= last)
    <3>1. last # n /\ i = last + 1 /\ last \in 0 .. m /\ last <= last /\ i - 1 = last
      BY <1>1, <1>3, <2>3
    <3>2. r[i] = Filled(f[last], value) /\ r[i - 1] = f[last]
      BY <2>3, <3>1
    <3>3. f[last].wants # Nothing /\ E[i] = value
      BY <1>1, <1>2, <3>1, NothingIsNoOption
    <3> HIDE DEF r
    <3>4. QED
      BY <2>3, <3>2, <3>3 DEF Read
  <2>4. QED
    BY <2>1, <2>2, <2>3
<1>5. Steps(r, st, E)
  BY <1>4 DEF Steps
<1>6. ScanLetters(st, arg) = r[m]
  <2>1. m \in 0 .. m
    BY <1>1, <1>3
  <2>2. m <= last <=> last = n
    BY <1>1, <1>3
  <2>3. last = n => m = last
    BY <1>1
  <2>4. QED
    BY <1>2, <2>1, <2>2, <2>3
<1> HIDE DEF r
<1>7. QED
  BY <1>1, <1>5, <1>6, ReadingIs DEF E

LEMMA ReadingOne ==
  ASSUME NEW st, NEW arg \in Token
  PROVE  <<arg>> \in Seq(Token) /\ Reading(st, <<arg>>) = Read(st, arg)
<1> DEFINE args == <<arg>>
           r == [i \in 0 .. Len(args) |-> IF i = 0 THEN st ELSE Read(st, arg)]
<1>1. args \in Seq(Token) /\ Len(args) = 1 /\ args[1] = arg
  OBVIOUS
<1> HIDE DEF args
<1>2. \A i \in 0 .. Len(args) : r[i] = IF i = 0 THEN st ELSE Read(r[i - 1], args[i])
  BY <1>1
<1>3. Steps(r, st, args)
  BY <1>2 DEF Steps
<1>4. r[Len(args)] = Read(st, arg)
  BY <1>1
<1> HIDE DEF r
<1>5. QED
  BY <1>1, <1>3, <1>4, ReadingIs DEF args

\* The scan of one argument, whatever it is.
LEMMA ScanTyped ==
  ASSUME NEW st \in ScanState, st.over => st.odd, NEW arg \in Argument
  PROVE  /\ Scan(st, arg) \in ScanState
         /\ Scan(st, arg).over => Scan(st, arg).odd
         /\ st.odd => Scan(st, arg).odd
<1>1. arg.dashes \in 0 .. 2 /\ arg \in [dashes : 0 .. 2, text : Seq(STRING)]
  BY DEF Argument
<1>2. CASE st.wants # Nothing
  <2>1. Scan(st, arg) = Filled(st, arg)
    BY <1>2 DEF Scan
  <2>2. QED
    BY <1>2, <2>1, FilledTyped
<1>3. CASE st.wants = Nothing /\ (st.over \/ arg.dashes = 0 \/ arg = Arg(1, <<>>))
  <2> DEFINE b == st.odd \/ arg.dashes > 0
  <2>1. Scan(st, arg) = [st EXCEPT !.files = Append(st.files, arg), !.odd = b]
    BY <1>3 DEF Scan, ScanState
  <2>2. Append(st.files, arg) \in Seq(Argument)
    BY DEF ScanState
  <2>3. b \in BOOLEAN /\ (st.odd => b) /\ (st.over => b)
    BY <1>1 DEF ScanState
  <2> HIDE DEF b
  <2>4. QED
    BY <2>1, <2>2, <2>3 DEF ScanState
<1>4. CASE /\ st.wants = Nothing /\ ~(st.over \/ arg.dashes = 0 \/ arg = Arg(1, <<>>))
           /\ arg = Arg(2, <<>>)
  <2>1. Scan(st, arg) = [st EXCEPT !.over = TRUE, !.odd = TRUE]
    BY <1>4 DEF Scan
  <2>2. QED
    BY <2>1 DEF ScanState
<1>5. CASE /\ st.wants = Nothing /\ ~(st.over \/ arg.dashes = 0 \/ arg = Arg(1, <<>>))
           /\ arg # Arg(2, <<>>) /\ arg.dashes = 1
  <2>1. Scan(st, arg) = ScanLetters(st, arg)
    BY <1>5 DEF Scan
  <2>2. Len(arg.text) > 0
    BY <1>1, <1>5 DEF Arg
  <2> DEFINE text == arg.text
             n == Len(text)
             last == LastLetter(text)
             value == Arg(0, SubSeq(text, last + 1, n))
  <2>3. PICK f :
           /\ \A i \in 0 .. last : f[i] \in ScanState /\ f[i].odd = st.odd /\ f[i].over = st.over
           /\ last # n => f[last].wants \in ValueOptions
           /\ ScanLetters(st, arg) = IF last = n THEN f[last] ELSE Filled(f[last], value)
    BY <1>5, <2>2, LettersScanned
  <2>4. last \in 1 .. n /\ n \in Nat /\ text \in Seq(STRING)
    BY <1>1, <2>2, LastLetterIs
  <2>5. value \in Argument /\ value.dashes = 0
    <3>1. SubSeq(text, last + 1, n) \in Seq(STRING)
      BY <2>4
    <3>2. QED
      BY <3>1 DEF Argument, Arg
  <2> HIDE DEF value, last, n
  <2>6. last \in 0 .. last
    BY <2>4
  <2>7. last # n => f[last].wants # Nothing
    BY <2>3, NothingIsNoOption
  <2>8. CASE last = n
    BY <2>1, <2>3, <2>6, <2>8
  <2>9. CASE last # n
    <3>1. /\ Filled(f[last], value) \in ScanState
          /\ Filled(f[last], value).odd = (f[last].odd \/ value.dashes > 0)
          /\ Filled(f[last], value).over = f[last].over
      BY <2>3, <2>5, <2>6, <2>7, <2>9, FilledTyped
    <3>2. ~(value.dashes > 0)
      BY <2>5
    <3>3. st.odd \in BOOLEAN
      BY DEF ScanState
    <3>4. QED
      BY <2>1, <2>3, <2>6, <2>9, <3>1, <3>2, <3>3
  <2>10. QED
    BY <2>8, <2>9
<1>6. CASE /\ st.wants = Nothing /\ ~(st.over \/ arg.dashes = 0 \/ arg = Arg(1, <<>>))
           /\ arg # Arg(2, <<>>) /\ arg.dashes # 1
  <2>1. Scan(st, arg) = Seen(st, arg.text[1])
    BY <1>6 DEF Scan
  <2>2. arg.text[1] \in Letters
    <3>1. arg.dashes = 2 /\ arg.text # <<>> /\ arg.text \in Seq(STRING)
      BY <1>1, <1>6 DEF Arg
    <3>2. QED
      BY <3>1 DEF Letters
  <2>3. QED
    BY <2>1, <2>2, SeenTyped
<1>7. QED
  BY <1>2, <1>3, <1>4, <1>5, <1>6

LEMMA ScanReads ==
  ASSUME NEW st \in ScanState, st.over => st.odd, NEW arg \in Argument, ~Scan(st, arg).odd
  PROVE  ExpandOne(arg) \in Seq(Token) /\ Scan(st, arg) = Reading(st, ExpandOne(arg))
<1>1. arg.dashes \in 0 .. 2 /\ arg \in [dashes : 0 .. 2, text : Seq(STRING)] /\ Len(arg.text) \in Nat
  BY DEF Argument
<1>2. arg.dashes = 0 => arg \in Token
  BY DEF Token
<1>3. arg.dashes # 1 => ExpandOne(arg) = <<arg>>
  BY DEF ExpandOne
<1>4. ~st.over /\ ~st.odd
  BY ScanTyped
<1>5. CASE st.wants # Nothing
  <2>1. Scan(st, arg) = Filled(st, arg)
    BY <1>5 DEF Scan
  <2>2. arg.dashes = 0
    <3>1. ~(arg.dashes > 0)
      BY <1>5, <2>1, FilledTyped
    <3> HIDE DEF Scan
    <3>2. QED
      BY <1>1, <3>1
  <2>3. Scan(st, arg) = Read(st, arg)
    BY <1>5, <2>1 DEF Read
  <2>4. arg \in Token /\ ExpandOne(arg) = <<arg>>
    BY <1>2, <1>3, <2>2
  <2>5. QED
    BY <2>3, <2>4, ReadingOne
<1>6. CASE st.wants = Nothing /\ (arg.dashes = 0 \/ arg = Arg(1, <<>>))
  <2> DEFINE b == st.odd \/ arg.dashes > 0
  <2>1. Scan(st, arg) = [st EXCEPT !.files = Append(@, arg), !.odd = b]
    BY <1>6 DEF Scan
  <2>2. Scan(st, arg).odd = b
    <3> HIDE DEF b
    <3>1. QED
      BY <2>1 DEF ScanState
  <2>3. arg.dashes = 0
    <3>1. ~(arg.dashes > 0)
      BY <2>2
    <3>2. QED
      BY <1>1, <3>1
  <2>4. Scan(st, arg) = Read(st, arg)
    BY <1>6, <2>1, <2>3 DEF Read
  <2>5. arg \in Token /\ ExpandOne(arg) = <<arg>>
    BY <1>2, <1>3, <2>3
  <2>6. QED
    BY <2>4, <2>5, ReadingOne
<1>7. CASE st.wants = Nothing /\ arg.dashes # 0 /\ arg # Arg(1, <<>>) /\ arg = Arg(2, <<>>)
  <2>1. Scan(st, arg) = [st EXCEPT !.over = TRUE, !.odd = TRUE]
    BY <1>4, <1>7 DEF Scan
  <2>2. QED
    BY <2>1 DEF ScanState
<1>8. CASE /\ st.wants = Nothing /\ arg.dashes # 0 /\ arg # Arg(1, <<>>) /\ arg # Arg(2, <<>>)
           /\ arg.dashes = 1
  <2>1. Scan(st, arg) = ScanLetters(st, arg)
    BY <1>4, <1>8 DEF Scan
  <2>2. Len(arg.text) > 0
    BY <1>1, <1>8 DEF Arg
  <2>3. QED
    BY <1>8, <2>1, <2>2, LettersRead
<1>9. CASE /\ st.wants = Nothing /\ arg.dashes # 0 /\ arg # Arg(1, <<>>) /\ arg # Arg(2, <<>>)
           /\ arg.dashes # 1
  <2>1. Scan(st, arg) = Seen(st, arg.text[1])
    BY <1>4, <1>9 DEF Scan
  <2>2. Scan(st, arg) = Read(st, arg)
    BY <1>9, <2>1 DEF Read
  <2>3. arg \in Token
    <3>1. arg.dashes = 2 /\ arg.text # <<>> /\ arg.text \in Seq(STRING)
      BY <1>1, <1>9 DEF Arg
    <3>2. Len(arg.text) <= 1
      BY <3>1 DEF Argument
    <3>3. Len(arg.text) # 0
      BY <3>1
    <3>4. Len(arg.text) = 1
      <4> DEFINE n == Len(arg.text)
      <4>1. n \in Nat /\ n <= 1 /\ n # 0
        BY <1>1, <3>2, <3>3
      <4> HIDE DEF n
      <4>2. n = 1
        BY ONLY <4>1
      <4>3. QED
        BY <4>2 DEF n
    <3>5. QED
      BY <3>4 DEF Token
  <2>4. QED
    BY <1>3, <1>9, <2>2, <2>3, ReadingOne
<1>10. QED
  BY <1>5, <1>6, <1>7, <1>8, <1>9

-----------------------------------------------------------------------------
\* f has the beginnings of the taken apart arguments.
ExpandSteps(f, argv, n) ==
    f = [i \in 1 .. n |->
            IF i = 1 THEN ExpandOne(argv[i]) ELSE f[i - 1] \o ExpandOne(argv[i])]

LEMMA ExpandStepsExist ==
  \A argv : \A n \in Nat : n > 0 => \E f : ExpandSteps(f, argv, n)
<1> SUFFICES ASSUME NEW argv PROVE \A n \in Nat : n > 0 => \E f : ExpandSteps(f, argv, n)
  OBVIOUS
<1> DEFINE without == {n \in Nat : n > 0 /\ ~ \E f : ExpandSteps(f, argv, n)}
<1>1. SUFFICES ASSUME without # {} PROVE FALSE
  OBVIOUS
<1>2. without \subseteq Nat
  OBVIOUS
<1>3. PICK n \in without : \A m \in without : n <= m
  BY <1>1, <1>2, LeastExists, Zenon
<1>4. n \in Nat /\ n > 0 /\ ~ \E f : ExpandSteps(f, argv, n)
  BY <1>3
<1>5. n # 1
  <2>1. ExpandSteps([i \in 1 .. 1 |-> ExpandOne(argv[1])], argv, 1)
    BY DEF ExpandSteps
  <2>2. QED
    BY <1>4, <2>1
<1>6. n - 1 \in Nat /\ n - 1 > 0 /\ n - 1 \notin without
  <2>1. n - 1 \in Nat /\ n - 1 > 0 /\ ~(n <= n - 1)
    BY <1>4, <1>5
  <2> HIDE DEF without
  <2>2. QED
    BY <1>3, <2>1
<1>7. PICK f : ExpandSteps(f, argv, n - 1)
  BY <1>6
<1> DEFINE g == [i \in 1 .. n |-> IF i = n THEN f[n - 1] \o ExpandOne(argv[n]) ELSE f[i]]
<1>8. ExpandSteps(g, argv, n)
  <2>1. ASSUME NEW i \in 1 .. n
        PROVE  g[i] = IF i = 1 THEN ExpandOne(argv[i]) ELSE g[i - 1] \o ExpandOne(argv[i])
    <3>1. CASE i = n
      <4>1. i # 1 /\ i - 1 \in 1 .. n /\ i - 1 # n
        BY <1>4, <1>5, <3>1
      <4>2. QED
        BY <3>1, <4>1
    <3>2. CASE i # n
      <4>1. i \in 1 .. n - 1 /\ (i # 1 => i - 1 \in 1 .. n - 1 /\ i - 1 \in 1 .. n /\ i - 1 # n)
        BY <1>4, <3>2
      <4>2. f[i] = IF i = 1 THEN ExpandOne(argv[i]) ELSE f[i - 1] \o ExpandOne(argv[i])
        BY <1>7, <4>1 DEF ExpandSteps
      <4>3. g[i] = f[i] /\ (i # 1 => g[i - 1] = f[i - 1])
        BY <3>2, <4>1
      <4> HIDE DEF g
      <4>4. QED
        BY <4>2, <4>3
    <3>3. QED
      BY <3>1, <3>2
  <2>2. QED
    BY <2>1 DEF ExpandSteps
<1>9. QED
  BY <1>4, <1>8

LEMMA ExpandedSteps ==
  ASSUME NEW argv \in Seq(Argument)
  PROVE  /\ argv = <<>> => expand_combined_flags(argv) = <<>>
         /\ argv # <<>> =>
              \E f : /\ f[1] = ExpandOne(argv[1])
                     /\ \A i \in 2 .. Len(argv) : f[i] = f[i - 1] \o ExpandOne(argv[i])
                     /\ expand_combined_flags(argv) = f[Len(argv)]
<1> DEFINE n == Len(argv)
           seqs == [i \in DOMAIN argv |-> ExpandOne(argv[i])]
<1>1. n \in Nat /\ DOMAIN argv = 1 .. n
  OBVIOUS
<1>2. Len(seqs) = n /\ \A i \in 1 .. n : seqs[i] = ExpandOne(argv[i])
  BY <1>1
<1>3. expand_combined_flags(argv) = FlattenSeq(seqs)
  BY DEF expand_combined_flags
<1>4. CASE argv = <<>>
  <2>1. seqs = <<>>
    BY <1>4
  <2>2. Len(<<>>) = 0
    OBVIOUS
  <2> HIDE DEF seqs
  <2>3. FlattenSeq(seqs) = seqs
    BY <2>1, <2>2 DEF FlattenSeq
  <2>4. QED
    BY <1>3, <1>4, <2>1, <2>3
<1>5. CASE argv # <<>>
  <2>1. n > 0
    BY <1>1, <1>5
  <2> DEFINE f == CHOOSE g : g = [i \in 1 .. Len(seqs) |->
                                     IF i = 1 THEN seqs[i] ELSE g[i - 1] \o seqs[i]]
  <2>2. FlattenSeq(seqs) = IF Len(seqs) = 0 THEN seqs ELSE f[Len(seqs)]
    <3> HIDE DEF seqs
    <3>1. QED
      BY Zenon DEF FlattenSeq
  <2>3. FlattenSeq(seqs) = f[n]
    <3> HIDE DEF seqs, f
    <3>1. QED
      BY <1>2, <2>1, <2>2
  <2>4. f = [i \in 1 .. n |-> IF i = 1 THEN ExpandOne(argv[i]) ELSE f[i - 1] \o ExpandOne(argv[i])]
    <3>1. PICK g : ExpandSteps(g, argv, n)
      BY <1>1, <2>1, ExpandStepsExist
    <3>2. g = [i \in 1 .. Len(seqs) |-> IF i = 1 THEN seqs[i] ELSE g[i - 1] \o seqs[i]]
      <4>1. [i \in 1 .. Len(seqs) |-> IF i = 1 THEN seqs[i] ELSE g[i - 1] \o seqs[i]]
              = [i \in 1 .. n |-> IF i = 1 THEN ExpandOne(argv[i]) ELSE g[i - 1] \o ExpandOne(argv[i])]
        <5> HIDE DEF seqs
        <5>1. QED
          BY <1>2
      <4>2. QED
        BY <3>1, <4>1 DEF ExpandSteps
    <3>3. f = [i \in 1 .. Len(seqs) |-> IF i = 1 THEN seqs[i] ELSE f[i - 1] \o seqs[i]]
      <4> HIDE DEF seqs
      <4>1. QED
        BY <3>2, Zenon
    <3> HIDE DEF seqs, f
    <3>4. [i \in 1 .. Len(seqs) |-> IF i = 1 THEN seqs[i] ELSE f[i - 1] \o seqs[i]]
              = [i \in 1 .. n |-> IF i = 1 THEN ExpandOne(argv[i]) ELSE f[i - 1] \o ExpandOne(argv[i])]
      BY <1>2
    <3>5. QED
      BY <3>3, <3>4
  <2> HIDE DEF f, seqs
  <2>5. f[1] = ExpandOne(argv[1]) /\ \A i \in 2 .. n : f[i] = f[i - 1] \o ExpandOne(argv[i])
    <3>1. f[1] = ExpandOne(argv[1])
      BY <1>1, <2>1, <2>4
    <3>2. ASSUME NEW i \in 2 .. n PROVE f[i] = f[i - 1] \o ExpandOne(argv[i])
      <4>1. i \in 1 .. n /\ i # 1
        BY <1>1
      <4>2. QED
        BY <2>4, <4>1
    <3>3. QED
      BY <3>1, <3>2
  <2>6. QED
    BY <1>3, <1>5, <2>3, <2>5
<1>6. QED
  BY <1>4, <1>5

\* r has the states of getopt's scan of the first n arguments.
ScanSteps(r, argv, n) ==
    r = [i \in 0 .. n |-> IF i = 0 THEN Unscanned ELSE Scan(r[i - 1], argv[i])]

LEMMA ScanStepsExist == \A argv : \A n \in Nat : \E r : ScanSteps(r, argv, n)
<1> SUFFICES ASSUME NEW argv PROVE \A n \in Nat : \E r : ScanSteps(r, argv, n)
  OBVIOUS
<1> DEFINE without == {n \in Nat : ~ \E r : ScanSteps(r, argv, n)}
<1>1. SUFFICES ASSUME without # {} PROVE FALSE
  OBVIOUS
<1>2. without \subseteq Nat
  OBVIOUS
<1>3. PICK n \in without : \A m \in without : n <= m
  BY <1>1, <1>2, LeastExists, Zenon
<1>4. n \in Nat /\ ~ \E r : ScanSteps(r, argv, n)
  BY <1>3
<1>5. n # 0
  <2>1. ScanSteps([i \in 0 .. 0 |-> Unscanned], argv, 0)
    BY DEF ScanSteps
  <2>2. QED
    BY <1>4, <2>1
<1>6. n - 1 \in Nat /\ n - 1 \notin without
  BY <1>3, <1>4, <1>5
<1>7. PICK r : ScanSteps(r, argv, n - 1)
  BY <1>6
<1> DEFINE g == [i \in 0 .. n |-> IF i = n THEN Scan(r[n - 1], argv[n]) ELSE r[i]]
<1>8. ScanSteps(g, argv, n)
  <2>1. ASSUME NEW i \in 0 .. n
        PROVE  g[i] = IF i = 0 THEN Unscanned ELSE Scan(g[i - 1], argv[i])
    BY <1>4, <1>5, <1>7 DEF ScanSteps
  <2>2. QED
    BY <2>1 DEF ScanSteps
<1>9. QED
  BY <1>4, <1>8

LEMMA ScannedSteps ==
  ASSUME NEW argv \in Seq(Argument)
  PROVE  \E r : /\ r[0] = Unscanned
                /\ \A i \in 1 .. Len(argv) : r[i] = Scan(r[i - 1], argv[i])
                /\ Scanned(argv) = r[Len(argv)]
<1> DEFINE r == CHOOSE s : ScanSteps(s, argv, Len(argv))
<1>1. ScanSteps(r, argv, Len(argv))
  <2>1. \E s : ScanSteps(s, argv, Len(argv))
    BY ScanStepsExist
  <2>2. QED
    BY <2>1, Zenon
<1>2. Scanned(argv) = r[Len(argv)]
  BY Zenon DEF Scanned, ScanSteps
<1>3. Len(argv) \in Nat
  OBVIOUS
<1> HIDE DEF r
<1>4. r[0] = Unscanned /\ \A i \in 1 .. Len(argv) : r[i] = Scan(r[i - 1], argv[i])
  BY <1>1, <1>3 DEF ScanSteps
<1>5. QED
  BY <1>2, <1>4

LEMMA UnscannedTyped ==
  Unscanned \in ScanState /\ Unscanned.wants = Nothing /\ ~Unscanned.over /\ ~Unscanned.odd
<1>1. NoValues \in [ValueOptions -> Argument \union {Nothing}]
  BY DEF NoValues
<1>2. QED
  BY <1>1 DEF Unscanned, ScanState

\* As long as nothing odd has come, getopt is where it would be with the letters of the
\* bundles one by one.
LEMMA ScannedReads ==
  ASSUME NEW argv \in Seq(Argument), ~LooksLikeOption(argv)
  PROVE  /\ expand_combined_flags(argv) \in Seq(Token)
         /\ Scanned(argv) = Reading(Unscanned, expand_combined_flags(argv))
<1> DEFINE n == Len(argv)
<1>1. n \in Nat /\ \A i \in 1 .. n : argv[i] \in Argument
  OBVIOUS
<1>2. PICK r : /\ r[0] = Unscanned
               /\ \A i \in 1 .. n : r[i] = Scan(r[i - 1], argv[i])
               /\ Scanned(argv) = r[n]
  BY ScannedSteps
<1>3. ~r[n].odd
  BY <1>2 DEF LooksLikeOption
<1> DEFINE Fine(i) == r[i] \in ScanState /\ (r[i].over => r[i].odd)
           unfine == {i \in Nat : i <= n /\ ~Fine(i)}
<1>4. Fine(0)
  BY <1>2, UnscannedTyped
<1>5. ASSUME NEW i \in 1 .. n, Fine(i - 1)
      PROVE  Fine(i) /\ (r[i - 1].odd => r[i].odd)
  <2>1. r[i] = Scan(r[i - 1], argv[i]) /\ argv[i] \in Argument
    BY <1>1, <1>2
  <2>2. QED
    BY <1>5, <2>1, ScanTyped
<1> HIDE DEF n, Fine
<1>6. unfine = {}
  <2>1. SUFFICES ASSUME unfine # {} PROVE FALSE
    OBVIOUS
  <2>2. unfine \subseteq Nat
    OBVIOUS
  <2>3. PICK i \in unfine : \A j \in unfine : i <= j
    BY <2>1, <2>2, LeastExists, Zenon
  <2>4. i \in 1 .. n
    BY <1>1, <1>4, <2>3
  <2>5. i - 1 \in Nat /\ i - 1 <= n /\ ~(i <= i - 1)
    BY <1>1, <2>4
  <2>6. Fine(i - 1)
    BY <2>3, <2>5
  <2>7. QED
    BY <1>5, <2>3, <2>4, <2>6
<1>7. \A i \in 0 .. n : Fine(i)
  BY <1>1, <1>6
<1>8. \A i \in 0 .. n : ~r[i].odd
  <2>1. SUFFICES ASSUME NEW i \in 0 .. n, r[i].odd PROVE FALSE
    OBVIOUS
  <2> DEFINE even == {j \in Nat : i <= j /\ j <= n /\ ~r[j].odd}
  <2>2. n \in even /\ even \subseteq Nat
    BY <1>1, <1>3, <2>1
  <2>3. PICK j \in even : \A k \in even : j <= k
    BY <2>2, LeastExists, Zenon
  <2>4. j \in 1 .. n /\ i <= j - 1
    BY <1>1, <2>1, <2>3
  <2>5. j - 1 \in Nat /\ j - 1 \in 0 .. n /\ j - 1 <= n /\ ~(j <= j - 1)
    BY <1>1, <2>4
  <2>6. r[j - 1].odd
    BY <2>3, <2>4, <2>5
  <2>7. QED
    BY <1>5, <1>7, <2>3, <2>4, <2>5, <2>6
<1>9. ASSUME NEW i \in 1 .. n
      PROVE  ExpandOne(argv[i]) \in Seq(Token) /\ r[i] = Reading(r[i - 1], ExpandOne(argv[i]))
  <2>1. /\ r[i] = Scan(r[i - 1], argv[i]) /\ argv[i] \in Argument
        /\ i \in 0 .. n /\ i - 1 \in 0 .. n
    BY <1>1, <1>2
  <2>2. Fine(i - 1) /\ ~r[i].odd
    BY <1>7, <1>8, <2>1
  <2>3. QED
    BY <2>1, <2>2, ScanReads DEF Fine
<1>10. CASE argv = <<>>
  <2>1. expand_combined_flags(argv) = <<>>
    BY <1>10, ExpandedSteps
  <2>2. n = 0
    BY <1>10 DEF n
  <2> DEFINE s == [i \in 0 .. Len(<<>>) |-> Unscanned]
  <2>3. <<>> \in Seq(Token) /\ s[Len(<<>>)] = Unscanned
    OBVIOUS
  <2>4. \A i \in 0 .. Len(<<>>) : i = 0
    OBVIOUS
  <2>5. Steps(s, Unscanned, <<>>)
    BY <2>4 DEF Steps
  <2> HIDE DEF s
  <2>6. Reading(Unscanned, <<>>) = Unscanned
    BY <2>3, <2>5, ReadingIs
  <2>7. QED
    BY <1>2, <2>1, <2>2, <2>3, <2>6
<1>11. CASE argv # <<>>
  <2>1. n > 0
    BY <1>11 DEF n
  <2>2. PICK f : /\ f[1] = ExpandOne(argv[1])
                 /\ \A i \in 2 .. n : f[i] = f[i - 1] \o ExpandOne(argv[i])
                 /\ expand_combined_flags(argv) = f[n]
    BY <1>11, ExpandedSteps DEF n
  <2> DEFINE Same(i) == f[i] \in Seq(Token) /\ Reading(Unscanned, f[i]) = r[i]
             without == {i \in Nat : 1 <= i /\ i <= n /\ ~Same(i)}
  <2>3. Same(1)
    <3>1. 1 \in 1 .. n /\ 1 - 1 = 0
      BY <1>1, <2>1
    <3>2. QED
      BY <1>2, <1>9, <2>2, <3>1
  <2>4. ASSUME NEW i \in 2 .. n, Same(i - 1) PROVE Same(i)
    <3>1. i \in 1 .. n
      BY <1>1
    <3>2. f[i] = f[i - 1] \o ExpandOne(argv[i])
      BY <2>2
    <3>3. QED
      BY <1>9, <2>4, <3>1, <3>2, ReadingAppended
  <2> HIDE DEF Same
  <2>5. without = {}
    <3>1. SUFFICES ASSUME without # {} PROVE FALSE
      OBVIOUS
    <3>2. without \subseteq Nat
      OBVIOUS
    <3>3. PICK i \in without : \A j \in without : i <= j
      BY <3>1, <3>2, LeastExists, Zenon
    <3>4. i \in 2 .. n
      BY <1>1, <2>1, <2>3, <3>3
    <3>5. i - 1 \in Nat /\ 1 <= i - 1 /\ i - 1 <= n /\ ~(i <= i - 1)
      BY <1>1, <3>4
    <3>6. Same(i - 1)
      BY <3>3, <3>5
    <3>7. QED
      BY <2>4, <3>3, <3>4, <3>6
  <2>6. Same(n)
    BY <1>1, <2>1, <2>5
  <2>7. QED
    BY <1>2, <2>2, <2>6 DEF Same
<1>12. QED
  BY <1>10, <1>11

\* Where nothing odd has come, every value and every file is bare.
LEMMA NothingOddIsApart ==
  ASSUME NEW args \in Seq(Token), ~Reading(Unscanned, args).odd
  PROVE  Apart(args)
<1>1. PICK r : Steps(r, Unscanned, args)
  BY StepsExist
<1>2. ~r[Len(args)].odd
  BY <1>1, ReadingIs
<1>3. SUFFICES ASSUME NEW i \in 1 .. Len(args) - 1, NEW o \in ValueOptions,
                      args[i] = Option(o), args[i + 1].dashes # 0
               PROVE  FALSE
  BY DEF Apart
<1> DEFINE n == Len(args)
<1>4. n \in Nat /\ \A k \in 1 .. n : args[k] \in Token
  OBVIOUS
<1>5. i \in 1 .. n /\ i + 1 \in 1 .. n /\ (i + 1) - 1 = i /\ i \in 0 .. n /\ i - 1 \in 0 .. n
      /\ i + 1 \in 0 .. n /\ n \in i .. n /\ n \in i + 1 .. n
  BY <1>4
<1> HIDE DEF n
<1>6. \A k \in 0 .. n : r[k] \in ScanState /\ ~r[k].odd
  <2>1. ASSUME NEW k \in 0 .. n PROVE r[k] \in ScanState /\ ~r[k].odd
    <3>1. n \in k .. n
      BY <1>4
    <3>2. QED
      BY <1>1, <1>2, <3>1, UnscannedTyped, StepsTyped, StepsGrow DEF n
  <2>2. QED
    BY <2>1
<1>7. /\ r[i] = Read(r[i - 1], args[i]) /\ r[i + 1] = Read(r[i], args[i + 1])
  BY <1>1, <1>5, StepsAt DEF n
<1>8. args[i].dashes > 0 /\ args[i].dashes # 0 /\ args[i].text[1] = o
  <2>1. args[i].dashes > 0 /\ args[i].text[1] = o
    BY <1>3, OptionIsDashed
  <2>2. args[i].dashes \in 0 .. 2
    BY <1>4, <1>5, TokenTypes
  <2>3. QED
    BY <2>1, <2>2
<1>9. args[i + 1].dashes > 0 /\ args[i + 1] \in Argument
  <2>1. args[i + 1].dashes \in 0 .. 2 /\ args[i + 1] \in Argument
    BY <1>4, <1>5, TokenTypes
  <2>2. QED
    BY <1>3, <2>1
<1>10. r[i - 1].wants = Nothing
  <2>1. SUFFICES ASSUME r[i - 1].wants # Nothing PROVE FALSE
    OBVIOUS
  <2>2. r[i] = Filled(r[i - 1], args[i]) /\ args[i] \in Argument
    BY <1>4, <1>5, <1>7, <2>1, TokenTypes DEF Read
  <2>3. r[i].odd
    BY <1>5, <1>6, <1>8, <2>1, <2>2, FilledTyped
  <2>4. QED
    BY <1>5, <1>6, <2>3
<1>11. r[i].wants = o /\ o # Nothing
  <2>1. r[i] = Seen(r[i - 1], o)
    BY <1>7, <1>8, <1>10 DEF Read
  <2>2. o \in Letters
    BY DEF Letters, Known
  <2>3. QED
    BY <1>5, <1>6, <2>1, <2>2, SeenTyped, NothingIsNoOption
<1>12. r[i + 1] = Filled(r[i], args[i + 1])
  BY <1>7, <1>11 DEF Read
<1>13. r[i + 1].odd
  BY <1>5, <1>6, <1>9, <1>11, <1>12, FilledTyped
<1>14. QED
  BY <1>5, <1>6, <1>13

(***************************************************************************)
(* For every command line without values or files that look like options,  *)
(* the two readings are the same, but for options that exclude each other. *)
(***************************************************************************)
LEMMA ParsedAsGetopt ==
  ASSUME NEW argv \in Seq(Argument), ~LooksLikeOption(argv)
  PROVE  parse_args(argv) = IF getopt(argv) # Refused /\ Excluded(getopt(argv).on)
                            THEN Refused ELSE getopt(argv)
<1> DEFINE args == expand_combined_flags(argv)
           end == Scanned(argv)
<1>1. args \in Seq(Token) /\ end = Reading(Unscanned, args)
  BY ScannedReads
<1>2. ~end.odd
  BY DEF LooksLikeOption
<1>3. Apart(args)
  BY <1>1, <1>2, NothingOddIsApart
<1>4. getopt(argv) = Said(end)
  BY Zenon DEF getopt, Said
<1> HIDE DEF args, end
<1>5. parse_args(argv) = IF Said(end) # Refused /\ Excluded(end.on) THEN Refused ELSE Said(end)
  BY <1>1, <1>3, ParsedSays DEF args
<1>6. Said(end) # Refused => Said(end).on = end.on
  BY DEF Said
<1>7. QED
  BY <1>4, <1>5, <1>6

-----------------------------------------------------------------------------
LEMMA ShapeInit == Init => SessionShape
<1> SUFFICES ASSUME Init PROVE SessionShape
  OBVIOUS
<1>1. PICK old \in Passwords \union {None} :
        /\ key \in {Absent, KeyFile(Old, old, Old)}
        /\ password = [a \in Authors |-> key.password]
        /\ heavy \in IF Encrypted(key) THEN BOOLEAN ELSE {FALSE}
        /\ store \in [Ids -> {None, key.password}]
  BY DEF Init
<1>2. key \in KeyType /\ key.password \in Passwords \union {None}
  BY <1>1 DEF KeyType, Absent, KeyFile, Authors
<1>3. heavy \in BOOLEAN
  BY <1>1
<1>4. store \in [Ids -> Passwords \union {None, Cut}]
  BY <1>1, <1>2
<1>5. password \in [Authors -> Passwords \union {None}]
  BY <1>1, <1>2
<1>6. QED
  BY <1>2, <1>3, <1>4, <1>5 DEF Init, SessionShape, KeyType, Commands

(***************************************************************************)
(* What holds of one command at each point of its handler, whatever the    *)
(* others do.                                                              *)
(***************************************************************************)
Settled == Ended \union {"readBack", "maybeForget", "forget"}
After == Settled \union {"forgetOld", "save"}

\* The handler that each point belongs to.
RouteInv(p) ==
    /\ pc[p] \in {"start", "usage"} <=> cmd[p] = Refused
    /\ pc[p] \in {"elsewhere", "peek"} => On(p, "V") \/ On(p, "I")
    /\ pc[p] \in {"exists", "install"} => On(p, "G")
    /\ pc[p] \in {"load", "getPassword", "prompt"} => ~On(p, "G")
    /\ pc[p] = "newPassword" => On(p, "G") \/ On(p, "K")
    /\ pc[p] \in {"rekey", "replace", "forgetOld"} => On(p, "K")
    /\ pc[p] = "use" => ~On(p, "K") /\ ~On(p, "G")
    /\ pc[p] = "forget" => On(p, "forget-password") /\ ~On(p, "G")

\* A file is loaded before its password is looked for, and made before it is written.
ReadyInv(p) ==
    /\ pc[p] \in {"getPassword", "prompt"} => loaded[p] # Absent
    /\ IF pc[p] \in {"rekey", "replace", "install"} THEN fresh[p].by = p
       ELSE fresh[p] = Absent \/ (fresh[p].by = p /\ pc[p] \in After)

\* A password in hand has opened the loaded file before it is saved.
HeldInv(p) ==
    /\ pc[p] \in {"start", "elsewhere", "exists", "peek", "load"} => held[p] = None
    /\ pc[p] \in {"save", "readBack"} /\ ~On(p, "K") /\ ~On(p, "G") =>
          Opens(held[p], loaded[p])

Answered(p) == told[p] \ {"notForgotten"} # {}

\* What has been said of a saved password.
ToldInv(p) ==
    /\ pc[p] \notin Settled => "saved" \notin told[p]
    /\ pc[p] = "maybeForget" /\ On(p, "save-password") /\ ~On(p, "R") => Answered(p)
    /\ pc[p] = "forget" /\ On(p, "save-password") =>
          (On(p, "S") => Answered(p)) /\ (On(p, "I") => held[p] = None)
    /\ pc[p] = "ok" /\ Saves(p) => Answered(p)

LocalInv(p) == RouteInv(p) /\ ReadyInv(p) /\ HeldInv(p) /\ ToldInv(p)

SessionBase == SessionShape /\ \A p \in Procs : LocalInv(p)

LEMMA IdTypes ==
  ASSUME NEW k \in KeyType, k # Absent
  PROVE  CredentialId(k) \in Ids
  BY DEF KeyType, CredentialId, Ids, Encrypted

LEMMA ShapeStep ==
  ASSUME SessionBase, [Next]_vars
  PROVE  SessionShape'
<1> USE DEF SessionBase, LocalInv, SessionShape, KeyType, Authors, Ended, Answers, Goto, Tell, Works, Fails, files,
            session, request
<1>1. CASE UNCHANGED vars
  BY <1>1 DEF vars
<1>2. ASSUME NEW p \in Procs, Start(p) PROVE SessionShape'
  <2>1. PICK argv \in CommandLines :
          /\ cmd' = [cmd EXCEPT ![p] = Command(argv)]
          /\ Goto(p, IF Command(argv) = Refused THEN "usage" ELSE FirstStep(Command(argv)))
    BY <1>2 DEF Start
  <2>2. FirstStep(Command(argv)) \in {"exists", "elsewhere", "load", "peek", "err"}
    BY DEF FirstStep
  <2>3. Command(argv) \in Commands
    BY DEF Commands
  <2>4. QED
    BY <1>2, <2>1, <2>2, <2>3 DEF Start
<1>3. ASSUME NEW p \in Procs, Elsewhere(p) \/ Exists(p) \/ Peek(p) PROVE SessionShape'
  BY <1>3 DEF Elsewhere, Exists, Peek
<1>4. ASSUME NEW p \in Procs, Load(p) PROVE SessionShape'
  BY <1>4 DEF Load, AfterLoad
<1>5. ASSUME NEW p \in Procs, GetPassword(p) PROVE SessionShape'
  <2>1. CredentialId(loaded[p]) \in Ids
    BY <1>5, IdTypes DEF GetPassword, ReadyInv
  <2>2. store[CredentialId(loaded[p])] \in Passwords \union {None, Cut}
    BY <2>1
  <2>3. QED
    BY <1>5, <2>2 DEF GetPassword, AfterPassword, SavedPassword, StoreFails
<1>6. ASSUME NEW p \in Procs, Prompt(p) PROVE SessionShape'
  BY <1>6 DEF Prompt, AfterPassword
<1>7. ASSUME NEW p \in Procs, Use(p) PROVE SessionShape'
  BY <1>7 DEF Use, AfterUse
<1>8. ASSUME NEW p \in Procs, NewPassword(p) PROVE SessionShape'
  BY <1>8 DEF NewPassword, KeyFile
<1>9. ASSUME NEW p \in Procs, Rekey(p) PROVE SessionShape'
  <2>1. CASE fresh' = fresh
    BY <1>9, <2>1 DEF Rekey
  <2>2. CASE key # Absent /\ fresh' = [fresh EXCEPT ![p].pair = key.pair]
    <3>1. fresh[p] \in [by : Authors, password : Passwords \union {None}, pair : Authors]
      BY <1>9 DEF Rekey, ReadyInv, Absent, KeyFile
    <3>2. key.pair \in Authors
      BY <2>2
    <3>3. [fresh[p] EXCEPT !.pair = key.pair] \in KeyType
      BY <3>1, <3>2
    <3>4. fresh' \in [Procs -> KeyType]
      BY <2>2, <3>3
    <3>5. QED
      BY <1>9, <3>4 DEF Rekey
  <2>3. QED
    BY <1>9, <2>1, <2>2 DEF Rekey
<1>10. ASSUME NEW p \in Procs, Replace(p) \/ Install(p) PROVE SessionShape'
  BY <1>10 DEF Replace, Install, Written, Absent, KeyFile
<1>11. ASSUME NEW p \in Procs, ForgetOld(p) \/ Forget(p) PROVE SessionShape'
  BY <1>11 DEF ForgetOld, Forget, ForgetPassword
<1>12. ASSUME NEW p \in Procs, Save(p) PROVE SessionShape'
  <2>1. ToSave(p).password \in Passwords \union {None, Cut}
    BY DEF ToSave, Absent, KeyFile
  <2>2. QED
    BY <1>12, <2>1 DEF Save, SavePassword
<1>13. ASSUME NEW p \in Procs, ReadBack(p) \/ MaybeForget(p) \/ Kill(p) PROVE SessionShape'
  BY <1>13 DEF ReadBack, StoreFails, MaybeForget, Kill
<1>14. QED
  BY <1>1, <1>2, <1>3, <1>4, <1>5, <1>6, <1>7, <1>8, <1>9, <1>10, <1>11, <1>12, <1>13
     DEF Next, Step

-----------------------------------------------------------------------------
\* Nobody touches the variables of another command.
LEMMA Frame ==
  ASSUME SessionShape, NEW p \in Procs, Step(p) \/ Kill(p), NEW q \in Procs \ {p}
  PROVE  /\ pc'[q] = pc[q] /\ cmd'[q] = cmd[q] /\ loaded'[q] = loaded[q]
         /\ held'[q] = held[q] /\ fresh'[q] = fresh[q] /\ told'[q] = told[q]
<1> USE DEF SessionShape, Goto, Tell, files, session, request
<1>1. CASE Start(p) \/ Elsewhere(p) \/ Exists(p) \/ Peek(p) \/ Load(p)
  BY <1>1 DEF Start, Elsewhere, Exists, Peek, Load
<1>2. CASE GetPassword(p) \/ Prompt(p) \/ Use(p) \/ NewPassword(p) \/ Rekey(p)
  BY <1>2 DEF GetPassword, Prompt, Use, NewPassword, Rekey
<1>3. CASE Replace(p) \/ Install(p) \/ ForgetOld(p) \/ Save(p)
  BY <1>3 DEF Replace, Install, ForgetOld, Save
<1>4. CASE ReadBack(p) \/ MaybeForget(p) \/ Forget(p) \/ Kill(p)
  BY <1>4 DEF ReadBack, MaybeForget, Forget, Kill
<1>5. QED
  BY <1>1, <1>2, <1>3, <1>4 DEF Step

LEMMA LocalInit == Init => \A p \in Procs : LocalInv(p)
  BY DEF Init, LocalInv, RouteInv, ReadyInv, HeldInv, ToldInv, Settled, Ended, Saves, Asks

\* At most one action letter is on.
LEMMA OneOn ==
  ASSUME SessionShape, NEW p \in Procs, cmd[p] # Refused,
         NEW a \in Actions, NEW b \in Actions, On(p, a), On(p, b)
  PROVE  a = b
<1>1. cmd[p] \in Commands
  BY DEF SessionShape
<1>2. PICK c \in Actions : cmd[p].on \cap Actions = {c}
  BY <1>1, OneAction
<1>3. QED
  BY <1>2 DEF On

LEMMA OwnStep ==
  ASSUME SessionBase, NEW p \in Procs, Step(p) \/ Kill(p)
  PROVE  LocalInv(p)'
<1> USE DEF SessionBase, SessionShape, LocalInv, RouteInv, ReadyInv, HeldInv, ToldInv, Settled,
            Ended, After, Goto, Tell, files, session, request
<1>0. cmd[p] # Refused => \A a, b \in Actions : On(p, a) /\ On(p, b) => a = b
  BY OneOn
<1>1. CASE Start(p)
  <2>1. PICK argv \in CommandLines :
          /\ cmd' = [cmd EXCEPT ![p] = Command(argv)]
          /\ Goto(p, IF Command(argv) = Refused THEN "usage" ELSE FirstStep(Command(argv)))
    BY <1>1 DEF Start
  <2> DEFINE c == Command(argv)
  <2>2. c \in Commands
    BY DEF Commands
  <2> HIDE DEF c
  <2>3. ASSUME c # Refused
        PROVE  /\ FirstStep(c) \in {"elsewhere", "peek"} => "V" \in c.on \/ "I" \in c.on
               /\ FirstStep(c) = "exists" => "G" \in c.on
               /\ FirstStep(c) = "load" => "G" \notin c.on
               /\ FirstStep(c) \in {"exists", "elsewhere", "load", "peek", "err"}
    <3>1. PICK a \in Actions : c.on \cap Actions = {a}
      BY <2>2, <2>3, OneAction
    <3>2. Action(c) = a
      BY <3>1 DEF Action
    <3>3. QED
      BY <3>1, <3>2 DEF FirstStep, Actions
  <2>4. QED
    BY <1>1, <2>1, <2>3 DEF Start, c, Saves, Asks, On
<1> USE <1>0 DEF Actions, Saves, Asks, Answered
<1>2. CASE Elsewhere(p)
  BY <1>2 DEF Elsewhere, On
<1>3. CASE Exists(p)
  BY <1>3 DEF Exists, On
<1>4. CASE Peek(p)
  BY <1>4 DEF Peek, On
<1>5. CASE Load(p)
  BY <1>5 DEF Load, AfterLoad, On
<1>6. CASE GetPassword(p)
  BY <1>6 DEF GetPassword, AfterPassword, On
<1>7. CASE Prompt(p)
  BY <1>7 DEF Prompt, AfterPassword, On
<1>8. CASE Use(p)
  BY <1>8 DEF Use, AfterUse, On
<1>9. CASE NewPassword(p)
  BY <1>9 DEF NewPassword, KeyFile, On
<1>10. CASE Rekey(p)
  <2>1. fresh'[p].by = p
    <3>1. fresh[p] \in [by : Authors, password : Passwords \union {None}, pair : Authors]
      BY <1>10, NamesDiffer DEF Rekey, KeyType, Absent, KeyFile, Authors
    <3>2. [fresh[p] EXCEPT !.pair = key.pair].by = fresh[p].by
      BY <3>1
    <3>3. QED
      BY <1>10, <3>1, <3>2 DEF Rekey
  <2>2. QED
    BY <1>10, <2>1 DEF Rekey, On
<1>11. CASE Replace(p)
  BY <1>11 DEF Replace, On
<1>12. CASE Install(p)
  BY <1>12 DEF Install, On
<1>13. CASE ForgetOld(p)
  BY <1>13 DEF ForgetOld, On
<1>14. CASE Save(p)
  <2>1. CASE pc'[p] = "readBack"
    BY <1>14, <2>1 DEF Save, On
  <2>2. CASE pc'[p] # "readBack"
    <3>1. /\ pc'[p] = "maybeForget" /\ cmd' = cmd /\ loaded' = loaded /\ held' = held
          /\ fresh' = fresh
      BY <1>14, <2>2 DEF Save
    <3>2. On(p, "save-password") => "ignored" \in told'[p] \/ "notSaved" \in told'[p]
      BY <1>14, <2>2 DEF Save
    <3>3. On(p, "save-password") => Answered(p)'
      BY <3>2
    <3>4. QED
      BY <1>14, <3>1, <3>3 DEF Save, On
  <2>3. QED
    BY <2>1, <2>2
<1>15. CASE ReadBack(p)
  <2>1. /\ pc'[p] = "maybeForget" /\ cmd' = cmd /\ loaded' = loaded /\ held' = held
        /\ fresh' = fresh
    BY <1>15 DEF ReadBack
  <2>2. \E what \in {"saved", "notPersisted", "unsure"} : what \in told'[p]
    BY <1>15 DEF ReadBack
  <2>3. Answered(p)'
    BY <2>2
  <2>4. QED
    BY <1>15, <2>1, <2>3 DEF ReadBack, On
<1>16. CASE MaybeForget(p)
  BY <1>16 DEF MaybeForget, On
<1>17. CASE Forget(p)
  <2>1. /\ cmd' = cmd /\ loaded' = loaded /\ held' = held /\ fresh' = fresh /\ told' = told
        /\ pc'[p] \in {"ok", "err"} /\ pc[p] = "forget"
    BY <1>17 DEF Forget
  <2>2. QED
    BY <2>1 DEF On
<1>18. CASE Kill(p)
  BY <1>18 DEF Kill, On
<1>19. QED
  BY <1>1, <1>2, <1>3, <1>4, <1>5, <1>6, <1>7, <1>8, <1>9, <1>10, <1>11, <1>12, <1>13,
     <1>14, <1>15, <1>16, <1>17, <1>18 DEF Step

LEMMA BaseStep ==
  ASSUME SessionBase, [Next]_vars
  PROVE  SessionBase'
<1>1. SessionShape'
  BY ShapeStep
<1>2. ASSUME NEW p \in Procs PROVE LocalInv(p)'
  <2>1. CASE UNCHANGED vars
    BY <2>1 DEF vars, SessionBase, LocalInv, RouteInv, ReadyInv, HeldInv, ToldInv, On, Saves,
                Asks, Answered
  <2>2. ASSUME NEW q \in Procs, Step(q) \/ Kill(q) PROVE LocalInv(p)'
    <3>1. CASE p = q
      BY <2>2, <3>1, OwnStep
    <3>2. CASE p # q
      <4>1. /\ pc'[p] = pc[p] /\ cmd'[p] = cmd[p] /\ loaded'[p] = loaded[p]
            /\ held'[p] = held[p] /\ fresh'[p] = fresh[p] /\ told'[p] = told[p]
        BY <2>2, <3>2, Frame DEF SessionBase
      <4>2. LocalInv(p)
        BY DEF SessionBase
      <4>3. QED
        BY <4>1, <4>2 DEF LocalInv, RouteInv, ReadyInv, HeldInv, ToldInv, On, Saves, Asks,
                          Answered
    <3>3. QED
      BY <3>1, <3>2
  <2>3. QED
    BY <2>1, <2>2 DEF Next
<1>3. QED
  BY <1>1, <1>2 DEF SessionBase

-----------------------------------------------------------------------------
(***************************************************************************)
(* What a step does to the key file and to the store: it leaves both       *)
(* alone, writes the file that this command has made, saves, or forgets    *)
(* what is filed under the file it has loaded.                             *)
(***************************************************************************)
Looks(p) ==
    /\ UNCHANGED <<key, password, store>>
    /\ loaded'[p] = loaded[p] \/ (pc[p] = "load" /\ loaded'[p] = key)

Writes(p) ==
    /\ pc[p] \in {"replace", "install"} /\ pc'[p] \in {"forgetOld", "save", "err"}
    /\ pc[p] = "replace" /\ pc'[p] = "save" => ~Encrypted(loaded[p])
    /\ Written(p) /\ UNCHANGED <<store, loaded>>

SavesIt(p) ==
    /\ pc[p] = "save" /\ On(p, "save-password") /\ pc'[p] = "readBack"
    /\ ToSave(p).password # None
    /\ SavePassword(ToSave(p).id, ToSave(p).password)
    /\ UNCHANGED <<key, password, loaded>>

Forgets(p) ==
    /\ pc[p] = "forgetOld" \/ (pc[p] = "forget" /\ pc'[p] = "ok")
    /\ ForgetPassword(CredentialId(loaded[p]))
    /\ UNCHANGED <<key, password, loaded>>

LEMMA Effect ==
  ASSUME SessionShape, NEW p \in Procs, Step(p) \/ Kill(p)
  PROVE  Looks(p) \/ Writes(p) \/ SavesIt(p) \/ Forgets(p)
<1> USE DEF SessionShape, Goto, Tell, files, session, request, Looks, Writes, SavesIt, Forgets
<1>1. CASE Start(p) \/ Elsewhere(p) \/ Exists(p) \/ Peek(p)
  BY <1>1 DEF Start, Elsewhere, Exists, Peek
<1>2. CASE Load(p)
  BY <1>2 DEF Load
<1>3. CASE GetPassword(p) \/ Prompt(p) \/ Use(p) \/ NewPassword(p) \/ Rekey(p)
  BY <1>3 DEF GetPassword, Prompt, Use, NewPassword, Rekey
<1>4. CASE Replace(p)
  BY <1>4 DEF Replace
<1>5. CASE Install(p)
  BY <1>5 DEF Install
<1>6. CASE ForgetOld(p) \/ Forget(p)
  BY <1>6 DEF ForgetOld, Forget
<1>7. CASE Save(p)
  BY <1>7 DEF Save
<1>8. CASE ReadBack(p) \/ MaybeForget(p) \/ Kill(p)
  BY <1>8 DEF ReadBack, MaybeForget, Kill
<1>9. QED
  BY <1>1, <1>2, <1>3, <1>4, <1>5, <1>6, <1>7, <1>8 DEF Step

(***************************************************************************)
(* From the point where its own file may be in place, a command only works *)
(* off what it has got.                                                    *)
(***************************************************************************)
LEMMA Course ==
  ASSUME SessionShape, NEW p \in Procs, Step(p) \/ Kill(p)
  PROVE  /\ pc[p] \in After => /\ pc'[p] \in After
                               /\ cmd'[p] = cmd[p] /\ loaded'[p] = loaded[p]
                               /\ held'[p] = held[p] /\ fresh'[p] = fresh[p]
         /\ pc[p] \in Settled => pc'[p] \in Settled
         /\ cmd'[p] = cmd[p] \/ pc[p] = "start"
         /\ loaded'[p] = loaded[p] \/ pc[p] = "load"
         /\ told[p] \subseteq told'[p]
         /\ "saved" \in told'[p] /\ "saved" \notin told[p] =>
               pc[p] = "readBack" /\ store[ToSave(p).id] = ToSave(p).password
<1> USE DEF SessionShape, Goto, Tell, files, session, request, After, Settled, Ended
<1>1. CASE Start(p)
  BY <1>1 DEF Start
<1>2. CASE Elsewhere(p) \/ Exists(p) \/ Peek(p)
  BY <1>2 DEF Elsewhere, Exists, Peek
<1>3. CASE Load(p)
  BY <1>3 DEF Load
<1>4. CASE GetPassword(p) \/ Prompt(p) \/ Use(p) \/ NewPassword(p) \/ Rekey(p)
  BY <1>4 DEF GetPassword, Prompt, Use, NewPassword, Rekey
<1>5. CASE Replace(p) \/ Install(p)
  BY <1>5 DEF Replace, Install
<1>6. CASE ForgetOld(p) \/ Forget(p)
  BY <1>6 DEF ForgetOld, Forget
<1>7. CASE Save(p)
  BY <1>7 DEF Save
<1>8. CASE ReadBack(p)
  BY <1>8 DEF ReadBack, SavedPassword
<1>9. CASE MaybeForget(p) \/ Kill(p)
  BY <1>9 DEF MaybeForget, Kill
<1>10. QED
  BY <1>1, <1>2, <1>3, <1>4, <1>5, <1>6, <1>7, <1>8, <1>9 DEF Step

\* A command that has a file to write saves no password before it has written it.
LEMMA Arrival ==
  ASSUME SessionShape, NEW p \in Procs, Step(p) \/ Kill(p), ~Writes(p),
         pc'[p] \in {"forgetOld", "save", "readBack"}
  PROVE  /\ pc[p] \in {"use", "forgetOld", "save"} /\ pc'[p] # "forgetOld"
         /\ cmd'[p] = cmd[p] /\ fresh'[p] = fresh[p]
<1> USE DEF SessionShape, Goto, Tell, files, session, request
<1>1. CASE Start(p)
  <2>1. \A c \in Commands : FirstStep(c) \in {"exists", "elsewhere", "load", "peek", "err"}
    BY DEF FirstStep
  <2>2. QED
    BY <1>1, <2>1 DEF Start, Commands
<1>2. CASE Elsewhere(p) \/ Exists(p) \/ Peek(p)
  BY <1>2 DEF Elsewhere, Exists, Peek
<1>3. CASE Load(p)
  BY <1>3 DEF Load, AfterLoad
<1>4. CASE GetPassword(p) \/ Prompt(p) \/ Use(p) \/ NewPassword(p) \/ Rekey(p)
  BY <1>4 DEF GetPassword, Prompt, Use, NewPassword, Rekey, AfterPassword, AfterUse
<1>5. CASE Replace(p) \/ Install(p)
  BY <1>5 DEF Replace, Install, Writes
<1>6. CASE ForgetOld(p) \/ Forget(p)
  BY <1>6 DEF ForgetOld, Forget
<1>7. CASE Save(p)
  BY <1>7 DEF Save
<1>8. CASE ReadBack(p) \/ MaybeForget(p) \/ Kill(p)
  BY <1>8 DEF ReadBack, MaybeForget, Kill
<1>9. QED
  BY <1>1, <1>2, <1>3, <1>4, <1>5, <1>6, <1>7, <1>8 DEF Step

\* The ways to the end of a command.
LEMMA Ending ==
  ASSUME SessionShape, NEW p \in Procs, Step(p) \/ Kill(p), pc'[p] \in {"maybeForget", "ok"}
  PROVE  /\ pc[p] \in {"save", "readBack", "use", "maybeForget", "forget", "elsewhere", "peek"}
         /\ cmd'[p] = cmd[p] /\ loaded'[p] = loaded[p]
<1> USE DEF SessionShape, Goto, Tell, files, session, request
<1>1. CASE Start(p)
  <2>1. \A c \in Commands : FirstStep(c) \in {"exists", "elsewhere", "load", "peek", "err"}
    BY DEF FirstStep
  <2>2. QED
    BY <1>1, <2>1 DEF Start, Commands
<1>2. CASE Elsewhere(p) \/ Exists(p) \/ Peek(p)
  BY <1>2 DEF Elsewhere, Exists, Peek
<1>3. CASE Load(p)
  BY <1>3 DEF Load, AfterLoad
<1>4. CASE GetPassword(p) \/ Prompt(p) \/ Use(p) \/ NewPassword(p) \/ Rekey(p)
  BY <1>4 DEF GetPassword, Prompt, Use, NewPassword, Rekey, AfterPassword, AfterUse
<1>5. CASE Replace(p) \/ Install(p)
  BY <1>5 DEF Replace, Install
<1>6. CASE ForgetOld(p) \/ Forget(p)
  BY <1>6 DEF ForgetOld, Forget
<1>7. CASE Save(p)
  BY <1>7 DEF Save
<1>8. CASE ReadBack(p) \/ MaybeForget(p) \/ Kill(p)
  BY <1>8 DEF ReadBack, MaybeForget, Kill
<1>9. QED
  BY <1>1, <1>2, <1>3, <1>4, <1>5, <1>6, <1>7, <1>8 DEF Step

-----------------------------------------------------------------------------
(***************************************************************************)
(* The versions of the key file that anybody can still see: each was       *)
(* written once, by a command that is past that point, and password says   *)
(* what it was encrypted with.                                             *)
(***************************************************************************)
Visible == {key} \union {loaded[p] : p \in Procs}

FilesInv ==
    /\ \A k \in Visible : k = Absent \/ (k.by \in Authors /\ k.password = password[k.by])
    /\ \A k, other \in Visible : k.by = other.by => k = other
    /\ \A p \in Procs, k \in Visible : k.by = p => pc[p] \in After
    /\ \A p \in Procs : loaded[p].by # p
    /\ \A p \in Procs :
          pc[p] \in {"forgetOld", "save", "readBack"} /\ (On(p, "K") \/ On(p, "G")) =>
              fresh[p].by = p /\ fresh[p].password = password[p]
    /\ \A p \in Procs : pc[p] = "forgetOld" => key.by # loaded[p].by

LEMMA FilesInit == Init => FilesInv
  BY NamesDiffer DEF Init, FilesInv, Visible, Absent, KeyFile, Authors

LEMMA FilesStep ==
  ASSUME SessionBase, FilesInv, [Next]_vars
  PROVE  FilesInv'
<1> USE DEF FilesInv
<1>1. CASE UNCHANGED vars
  BY <1>1 DEF vars, Visible, On
<1>2. ASSUME NEW p \in Procs, Step(p) \/ Kill(p), ~Writes(p) PROVE FilesInv'
  <2>1. /\ key' = key /\ password' = password
        /\ loaded'[p] = loaded[p] \/ (pc[p] = "load" /\ loaded'[p] = key)
    BY <1>2, Effect DEF Looks, SavesIt, Forgets, SessionBase
  <2>2. \A q \in Procs \ {p} : /\ pc'[q] = pc[q] /\ cmd'[q] = cmd[q]
                               /\ loaded'[q] = loaded[q] /\ fresh'[q] = fresh[q]
    BY <1>2, Frame DEF SessionBase
  <2>3. Visible' \subseteq Visible
    BY <2>1, <2>2 DEF Visible
  <2>4. pc[p] \in After => pc'[p] \in After
    BY <1>2, Course DEF SessionBase
  <2>5. loaded'[p].by # p
    BY <2>1 DEF Visible, After, Settled, Ended
  <2>6. ASSUME pc'[p] \in {"forgetOld", "save", "readBack"}, On(p, "K")' \/ On(p, "G")'
        PROVE  fresh'[p].by = p /\ fresh'[p].password = password[p]
    BY <1>2, <2>6, Arrival DEF On, SessionBase, LocalInv, RouteInv
  <2>7. pc'[p] # "forgetOld"
    BY <1>2, Arrival DEF SessionBase
  <2>8. QED
    BY <2>1, <2>2, <2>3, <2>4, <2>5, <2>6, <2>7 DEF On
<1>3. ASSUME NEW p \in Procs, Step(p) \/ Kill(p), Writes(p) PROVE FilesInv'
  <2>1. /\ key' = fresh[p] /\ password' = [password EXCEPT ![p] = fresh[p].password]
        /\ loaded' = loaded
    BY <1>3 DEF Writes, Written
  <2>2. \A q \in Procs \ {p} : /\ pc'[q] = pc[q] /\ cmd'[q] = cmd[q] /\ fresh'[q] = fresh[q]
    BY <1>3, Frame DEF SessionBase
  <2>3. pc[p] \notin After /\ pc'[p] \in After /\ fresh[p].by = p
    BY <1>3 DEF Writes, After, Settled, Ended, SessionBase, LocalInv, ReadyInv
  <2>4. fresh'[p] = fresh[p]
    BY <1>3 DEF Writes, Step, Start, Elsewhere, Exists, Peek, Load, GetPassword, Prompt, Use,
                NewPassword, Rekey, Replace, Install, ForgetOld, Save, ReadBack, MaybeForget,
                Forget, Kill, session
  <2>5. Visible' \subseteq Visible \union {fresh[p]} /\ \A k \in Visible : k.by # p
    BY <2>1, <2>3 DEF Visible
  <2>6. \A q \in Procs : loaded[q] \in Visible
    BY DEF Visible
  <2>7. password'[p] = fresh[p].password /\ \A a \in Authors : a # p => password'[a] = password[a]
    BY <2>1 DEF SessionBase, SessionShape, Authors
  <2>8. \A k \in Visible' : k = Absent \/ (k.by \in Authors /\ k.password = password'[k.by])
    BY <2>3, <2>5, <2>7 DEF Authors
  <2>9. \A q \in Procs \ {p} : password'[q] = password[q]
    BY <2>7 DEF Authors
  <2>10. \A q \in Procs : pc'[q] = "forgetOld" => key'.by # loaded[q].by
    BY <2>1, <2>3, <2>5, <2>6
  <2>11. \A q \in Procs :
           pc'[q] \in {"forgetOld", "save", "readBack"} /\ (On(q, "K")' \/ On(q, "G")') =>
               fresh'[q].by = q /\ fresh'[q].password = password'[q]
    BY <2>2, <2>3, <2>4, <2>7, <2>9 DEF On
  <2>12. QED
    BY <2>1, <2>2, <2>3, <2>5, <2>6, <2>8, <2>10, <2>11
<1>4. QED
  BY <1>1, <1>2, <1>3 DEF Next

-----------------------------------------------------------------------------
(***************************************************************************)
(* What is in the store under the id of an encrypted file is that file's   *)
(* password, or was cut, and then the command that saved it still has it   *)
(* to read back or did not find it.                                        *)
(***************************************************************************)
EncryptedId(a) == [of |-> a, encrypted |-> TRUE]

StoreInv ==
    /\ \A p \in Procs : pc[p] \notin After => store[EncryptedId(p)] = None
    /\ \A a \in Authors :
          \/ store[EncryptedId(a)] \in {None, password[a]}
          \/ /\ store[EncryptedId(a)] = Cut
             /\ \E p \in Procs : pc[p] \in Settled /\ Unconfirmed(p, EncryptedId(a))

LEMMA IdOfFile ==
  ASSUME NEW k, NEW a \in Authors, CredentialId(k) = EncryptedId(a)
  PROVE  Encrypted(k) /\ k.by = a
  BY DEF CredentialId, EncryptedId

\* Whoever saves something under the id of an encrypted file saves its password.
LEMMA SavedIsThePassword ==
  ASSUME SessionBase, FilesInv, NEW p \in Procs, pc[p] \in {"save", "readBack"},
         NEW a \in Authors, ToSave(p).id = EncryptedId(a)
  PROVE  /\ ToSave(p).password = password[a]
         /\ a \in Procs => pc[a] \in After
         /\ a = p \/ (a = loaded[p].by /\ ~On(p, "K") /\ ~On(p, "G"))
<1>1. CASE On(p, "K") \/ On(p, "G")
  <2>1. CredentialId(fresh[p]) = EncryptedId(a) /\ ToSave(p).password = fresh[p].password
    BY <1>1 DEF ToSave
  <2>2. a = p
    BY <1>1, <2>1, IdOfFile DEF FilesInv
  <2>3. QED
    BY <1>1, <2>1, <2>2 DEF FilesInv, After, Settled
<1>2. CASE ~On(p, "K") /\ ~On(p, "G")
  <2>1. CredentialId(loaded[p]) = EncryptedId(a) /\ ToSave(p).password = held[p]
    BY <1>2 DEF ToSave
  <2>2. Encrypted(loaded[p]) /\ loaded[p].by = a
    BY <2>1, IdOfFile
  <2>3. held[p] = loaded[p].password
    BY <1>2, <2>2 DEF SessionBase, LocalInv, HeldInv, Opens
  <2>4. loaded[p] \in Visible /\ loaded[p] # Absent
    BY <2>2 DEF Visible, Encrypted, Absent, KeyFile
  <2>5. QED
    BY <1>2, <2>1, <2>2, <2>3, <2>4 DEF FilesInv
<1>3. QED
  BY <1>1, <1>2

LEMMA StillUnconfirmed ==
  ASSUME SessionShape, NEW p \in Procs, Step(p) \/ Kill(p), NEW q \in Procs, NEW id,
         pc[q] \in Settled, Unconfirmed(q, id)
  PROVE  /\ pc'[q] \in Settled
         /\ \/ Unconfirmed(q, id)'
            \/ q = p /\ pc[p] = "readBack" /\ store[id] = ToSave(p).password /\ ToSave(p).id = id
<1>1. /\ pc'[q] \in Settled /\ cmd'[q] = cmd[q] /\ loaded'[q] = loaded[q]
      /\ held'[q] = held[q] /\ fresh'[q] = fresh[q]
  BY Frame, Course DEF After
<1>2. ToSave(q)' = ToSave(q) /\ (Asks(q, "save-password")' <=> Asks(q, "save-password"))
  BY <1>1 DEF ToSave, Asks, On, CredentialId, Encrypted
<1>3. \/ "saved" \notin told'[q]
      \/ q = p /\ pc[p] = "readBack" /\ store[ToSave(p).id] = ToSave(p).password
  BY Frame, Course DEF Unconfirmed
<1>4. QED
  BY <1>1, <1>2, <1>3 DEF Unconfirmed

LEMMA SavingUnconfirmed ==
  ASSUME SessionBase, NEW p \in Procs, Step(p) \/ Kill(p), SavesIt(p), NEW id, ToSave(p).id = id
  PROVE  pc'[p] \in Settled /\ Unconfirmed(p, id)'
<1>1. /\ cmd'[p] = cmd[p] /\ loaded'[p] = loaded[p] /\ held'[p] = held[p]
      /\ fresh'[p] = fresh[p]
  BY Course DEF SavesIt, After, SessionBase
<1>2. "saved" \notin told'[p]
  BY Course DEF SavesIt, SessionBase, LocalInv, ToldInv, Settled, Ended
<1>3. cmd[p] # Refused
  BY DEF SavesIt, SessionBase, LocalInv, RouteInv
<1>4. ToSave(p)' = ToSave(p)
  BY <1>1 DEF ToSave, On, CredentialId, Encrypted
<1>5. QED
  BY <1>1, <1>2, <1>3, <1>4 DEF SavesIt, Settled, Unconfirmed, Asks, On

LEMMA StoreInit == Init => StoreInv
<1> SUFFICES ASSUME Init PROVE StoreInv
  OBVIOUS
<1>1. /\ key \in {Absent} \union {KeyFile(Old, old, Old) : old \in Passwords \union {None}}
      /\ store \in [Ids -> {None, key.password}]
      /\ password = [a \in Authors |-> key.password]
      /\ \A id \in Ids : store[id] # None => id = CredentialId(key)
  BY DEF Init
<1>2. key.by \in {None, Old}
  BY <1>1 DEF Absent, KeyFile
<1>3. \A a \in Authors : EncryptedId(a) \in Ids
  BY DEF EncryptedId, Ids
<1>4. \A p \in Procs : store[EncryptedId(p)] = None
  BY <1>1, <1>2, <1>3, NamesDiffer, IdOfFile DEF Authors
<1>5. \A a \in Authors : store[EncryptedId(a)] \in {None, password[a]}
  BY <1>1, <1>3
<1>6. QED
  BY <1>4, <1>5 DEF StoreInv

LEMMA StoreStep ==
  ASSUME SessionBase, FilesInv, StoreInv, [Next]_vars
  PROVE  StoreInv'
<1>1. CASE UNCHANGED vars
  BY <1>1 DEF vars, StoreInv, Unconfirmed, Asks, On, ToSave, CredentialId, Encrypted
<1>2. ASSUME NEW p \in Procs, Step(p) \/ Kill(p) PROVE StoreInv'
  <2>1. SessionShape
    BY DEF SessionBase
  <2>2. \A q \in Procs : pc[q] \in After => pc'[q] \in After
    BY <1>2, <2>1, Frame, Course
  <2>3. ASSUME NEW a \in Authors, store'[EncryptedId(a)] = store[EncryptedId(a)],
               password'[a] = password[a]
        PROVE  \/ store'[EncryptedId(a)] \in {None, password'[a]}
               \/ /\ store'[EncryptedId(a)] = Cut
                  /\ \E q \in Procs : pc'[q] \in Settled /\ Unconfirmed(q, EncryptedId(a))'
    <3>1. SUFFICES ASSUME NEW q \in Procs, pc[q] \in Settled, Unconfirmed(q, EncryptedId(a)),
                          store[EncryptedId(a)] = Cut
                   PROVE  \/ store[EncryptedId(a)] = password[a]
                          \/ pc'[q] \in Settled /\ Unconfirmed(q, EncryptedId(a))'
      BY <2>3 DEF StoreInv
    <3>2. CASE Unconfirmed(q, EncryptedId(a))'
      BY <1>2, <2>1, <3>1, <3>2, StillUnconfirmed
    <3>3. CASE /\ pc[p] = "readBack" /\ store[EncryptedId(a)] = ToSave(p).password
               /\ ToSave(p).id = EncryptedId(a)
      BY <3>3, SavedIsThePassword
    <3>4. QED
      BY <1>2, <2>1, <3>1, <3>2, <3>3, StillUnconfirmed
  <2>4. CASE Looks(p)
    BY <2>2, <2>3, <2>4 DEF Looks, StoreInv
  <2>5. CASE Writes(p)
    <3>1. store' = store /\ \A a \in Authors : a # p => password'[a] = password[a]
      BY <2>5, <2>1 DEF Writes, Written, SessionShape
    <3>2. store[EncryptedId(p)] = None
      BY <2>5 DEF Writes, StoreInv, After, Settled, Ended
    <3>3. QED
      BY <2>2, <2>3, <3>1, <3>2 DEF StoreInv
  <2>6. CASE SavesIt(p)
    <3> DEFINE new == ToSave(p)
    <3>1. PICK kept \in {new.password, Cut, store[new.id]} : store' = [store EXCEPT ![new.id] = kept]
      BY <2>6 DEF SavesIt, SavePassword
    <3>2. password' = password
      BY <2>6 DEF SavesIt
    <3>3. \A id \in Ids : store'[id] = IF id = new.id THEN kept ELSE store[id]
      BY <2>1, <3>1 DEF SessionShape
    <3>4. \A a \in Authors : EncryptedId(a) \in Ids
      BY DEF EncryptedId, Ids
    <3>5. ASSUME NEW a \in Authors, new.id = EncryptedId(a), kept # store[new.id]
          PROVE  /\ kept = password[a]
                    \/ (kept = Cut /\ pc'[p] \in Settled /\ Unconfirmed(p, EncryptedId(a))')
                 /\ a \in Procs => pc'[a] \in After
      <4>1. new.password = password[a] /\ (a \in Procs => pc[a] \in After)
        BY <2>6, <3>5, SavedIsThePassword DEF SavesIt
      <4>2. pc'[p] \in Settled /\ Unconfirmed(p, EncryptedId(a))'
        BY <1>2, <2>6, <3>5, SavingUnconfirmed
      <4>3. QED
        BY <2>2, <3>1, <3>5, <4>1, <4>2
    <3>6. ASSUME NEW a \in Authors
          PROVE  \/ store'[EncryptedId(a)] \in {None, password'[a]}
                 \/ /\ store'[EncryptedId(a)] = Cut
                    /\ \E q \in Procs : pc'[q] \in Settled /\ Unconfirmed(q, EncryptedId(a))'
      BY <2>3, <3>2, <3>3, <3>4, <3>5
    <3>7. ASSUME NEW q \in Procs, pc'[q] \notin After PROVE store'[EncryptedId(q)] = None
      BY <2>2, <3>3, <3>4, <3>5, <3>7 DEF StoreInv, Authors
    <3>8. QED
      BY <3>6, <3>7 DEF StoreInv
  <2>7. CASE Forgets(p)
    <3>1. /\ password' = password
          /\ \A id \in Ids : store'[id] \in {None, store[id]}
      BY <2>1, <2>7 DEF Forgets, ForgetPassword, SessionShape
    <3>2. \A a \in Authors : EncryptedId(a) \in Ids
      BY DEF EncryptedId, Ids
    <3>3. QED
      BY <2>2, <2>3, <3>1, <3>2 DEF StoreInv, Authors
  <2>8. QED
    BY <1>2, <2>1, <2>4, <2>5, <2>6, <2>7, Effect
<1>3. QED
  BY <1>1, <1>2 DEF Next

SessionInv == SessionBase /\ FilesInv /\ StoreInv

LEMMA SessionInvariant == Spec => []SessionInv
<1>1. Init => SessionInv
  BY ShapeInit, LocalInit, FilesInit, StoreInit DEF SessionInv, SessionBase
<1>2. SessionInv /\ [Next]_vars => SessionInv'
  BY BaseStep, FilesStep, StoreStep DEF SessionInv
<1>3. QED
  BY <1>1, <1>2, PTL DEF Spec

(***************************************************************************)
(* Every variable keeps its type, and a command past its arguments is      *)
(* exactly one action with options that there are.                         *)
(***************************************************************************)
THEOREM SessionTypeCorrect == Spec => []TypeOK
<1>1. SessionInv => TypeOK
  <2>1. SUFFICES ASSUME SessionInv, NEW p \in Procs, pc[p] \notin {"start", "usage"}
                 PROVE  /\ Cardinality(cmd[p].on \cap Actions) = 1
                        /\ cmd[p].on \subseteq Flags \union ValueOptions
    BY DEF SessionInv, SessionBase, TypeOK
  <2>2. cmd[p] \in Commands /\ cmd[p] # Refused
    BY <2>1 DEF SessionInv, SessionBase, SessionShape, LocalInv, RouteInv
  <2>3. PICK a \in Actions : cmd[p].on \cap Actions = {a}
    BY <2>2, OneAction
  <2>4. QED
    BY <2>2, <2>3, FS_Singleton, CommandOptions
<1>2. QED
  BY <1>1, SessionInvariant, PTL

(***************************************************************************)
(* No overlap, failure or kill of any number of commands puts a wrong      *)
(* password under the id of an encrypted key file; what the store itself   *)
(* has cut has not been called saved.                                      *)
(***************************************************************************)
THEOREM StoredPasswordsOpen == Spec => []StoredPasswordOpens
<1>1. SessionInv => StoredPasswordOpens
  BY DEF SessionInv, StoreInv, StoredPasswordOpens, EncryptedId
<1>2. QED
  BY <1>1, SessionInvariant, PTL

-----------------------------------------------------------------------------
(***************************************************************************)
(* A change of an encrypted file has emptied the entry of the old one      *)
(* before it goes on, and only another command that knows the old file     *)
(* fills it again.                                                         *)
(***************************************************************************)
Changed(p) ==
    /\ pc[p] \in {"save", "readBack", "maybeForget", "ok"}
    /\ On(p, "K") /\ ~On(p, "forget-password")
    /\ Encrypted(loaded[p]) /\ "notForgotten" \notin told[p]

SavedAgain(p, q) ==
    /\ pc[q] \in Settled
    /\ Asks(q, "save-password") /\ (loaded[q] = loaded[p] \/ loaded[p].by = q)

GoneInv(p) ==
    Changed(p) => \/ store[CredentialId(loaded[p])] = None
                  \/ \E q \in Procs \ {p} : SavedAgain(p, q)

\* The entries that a step of one command may fill.
LEMMA FilledEntry ==
  ASSUME SessionInv, NEW p \in Procs, Step(p) \/ Kill(p),
         NEW a \in Authors, store'[EncryptedId(a)] \notin {None, store[EncryptedId(a)]}
  PROVE  SavesIt(p) /\ ToSave(p).id = EncryptedId(a)
<1> USE DEF SessionInv, SessionBase, SessionShape
<1>1. EncryptedId(a) \in Ids
  BY DEF EncryptedId, Ids
<1>2. CASE Looks(p) \/ Writes(p)
  BY <1>2 DEF Looks, Writes
<1>3. CASE Forgets(p)
  BY <1>1, <1>3 DEF Forgets, ForgetPassword
<1>4. CASE SavesIt(p)
  BY <1>1, <1>4 DEF SavesIt, SavePassword
<1>5. QED
  BY <1>2, <1>3, <1>4, Effect

LEMMA LoadedId ==
  ASSUME SessionInv, NEW p \in Procs, Encrypted(loaded[p])
  PROVE  loaded[p].by \in Authors /\ CredentialId(loaded[p]) = EncryptedId(loaded[p].by)
<1>1. loaded[p] \in KeyType /\ loaded[p] # Absent
  BY DEF SessionInv, SessionBase, SessionShape, Encrypted, Absent, KeyFile
<1>2. QED
  BY <1>1 DEF KeyType, CredentialId, EncryptedId

\* How a change comes to where its old password is gone.
LEMMA ChangedByNow ==
  ASSUME SessionInv, NEW p \in Procs, Step(p) \/ Kill(p), Changed(p)'
  PROVE  \/ Changed(p) /\ pc[p] # "ok"
         \/ pc[p] = "forgetOld" /\ ForgetPassword(CredentialId(loaded[p]))
<1> USE DEF SessionInv, SessionBase
<1>1. told[p] \subseteq told'[p]
  BY Course
<1>2. CASE Writes(p)
  <2>1. pc[p] = "install"
    BY <1>2 DEF Writes, Changed
  <2>2. cmd[p] # Refused /\ cmd'[p] = cmd[p]
    BY <2>1, Course DEF LocalInv, RouteInv
  <2>3. On(p, "G") /\ On(p, "K")
    BY <2>1, <2>2 DEF LocalInv, RouteInv, Changed, On
  <2>4. QED
    BY <2>2, <2>3, OneOn DEF Actions
<1>3. CASE ~Writes(p) /\ pc'[p] \in {"save", "readBack"}
  <2>1. pc[p] \in {"use", "forgetOld", "save"} /\ cmd'[p] = cmd[p] /\ loaded'[p] = loaded[p]
    BY <1>3, Arrival, Course
  <2>2. pc[p] # "use"
    BY <2>1 DEF LocalInv, RouteInv, Changed, On
  <2>3. CASE pc[p] = "save"
    BY <1>1, <2>1, <2>3 DEF Changed, On, Encrypted
  <2>4. CASE pc[p] = "forgetOld"
    <3>1. ForgetOld(p) \/ Kill(p)
      BY <2>4 DEF Step, Start, Elsewhere, Exists, Peek, Load, GetPassword, Prompt, Use,
                  NewPassword, Rekey, Replace, Install, Save, ReadBack, MaybeForget, Forget
    <3>2. "notForgotten" \notin told'[p]
      BY DEF Changed
    <3>3. QED
      BY <1>3, <2>4, <3>1, <3>2 DEF ForgetOld, Kill, Goto, Tell, SessionShape
  <2>5. QED
    BY <2>1, <2>2, <2>3, <2>4
<1>4. CASE pc'[p] \in {"maybeForget", "ok"}
  <2>1. /\ pc[p] \in {"save", "readBack", "use", "maybeForget", "forget", "elsewhere", "peek"}
        /\ cmd'[p] = cmd[p] /\ loaded'[p] = loaded[p]
    BY <1>4, Ending
  <2>2. On(p, "K") /\ ~On(p, "forget-password")
    BY <2>1 DEF Changed, On
  <2>3. cmd[p] # Refused
    BY <2>1 DEF LocalInv, RouteInv
  <2>4. ~On(p, "V") /\ ~On(p, "I")
    BY <2>2, <2>3, OneOn DEF Actions
  <2>5. pc[p] \in {"save", "readBack", "maybeForget"}
    BY <2>1, <2>2, <2>4 DEF LocalInv, RouteInv
  <2>6. QED
    BY <1>1, <2>1, <2>5 DEF Changed, On, Encrypted
<1>5. QED
  BY <1>2, <1>3, <1>4 DEF Changed

LEMMA GoneStep ==
  ASSUME SessionInv, NEW p \in Procs, GoneInv(p), [Next]_vars
  PROVE  GoneInv(p)'
<1> USE DEF SessionInv, SessionBase
<1>1. CASE UNCHANGED vars
  BY <1>1 DEF vars, GoneInv, Changed, SavedAgain, Asks, On, Encrypted, CredentialId
<1>2. ASSUME NEW r \in Procs, Step(r) \/ Kill(r), Changed(p)'
      PROVE  \/ store'[CredentialId(loaded'[p])] = None
             \/ \E q \in Procs \ {p} : SavedAgain(p, q)'
  <2>1. /\ loaded'[p] = loaded[p] /\ cmd'[p] = cmd[p]
        /\ \/ Changed(p)
           \/ r = p /\ pc[p] = "forgetOld" /\ ForgetPassword(CredentialId(loaded[p]))
    <3>1. CASE r = p
      BY <1>2, <3>1, ChangedByNow, Course DEF Changed, After, Settled
    <3>2. CASE r # p
      BY <1>2, <3>2, Frame DEF Changed, On, Encrypted
    <3>3. QED
      BY <3>1, <3>2
  <2>2. Encrypted(loaded[p])
    BY <1>2, <2>1 DEF Changed, Encrypted
  <2> DEFINE b == loaded[p].by
  <2>3. b \in Authors /\ CredentialId(loaded[p]) = EncryptedId(b)
    BY <2>2, LoadedId
  <2>4. CASE pc[p] = "forgetOld" /\ ForgetPassword(CredentialId(loaded[p]))
    BY <2>1, <2>3, <2>4 DEF ForgetPassword, SessionShape, EncryptedId, Ids
  <2>5. ASSUME NEW q \in Procs \ {p}, SavedAgain(p, q) PROVE SavedAgain(p, q)'
    <3>1. pc'[q] \in Settled /\ cmd'[q] = cmd[q] /\ loaded'[q] = loaded[q]
      BY <1>2, <2>5, Frame, Course DEF SavedAgain, After
    <3>2. QED
      BY <2>1, <2>5, <3>1 DEF SavedAgain, Asks, On
  <2>6. CASE Changed(p) /\ store[EncryptedId(b)] = None
    <3>1. CASE store'[EncryptedId(b)] \in {None, store[EncryptedId(b)]}
      BY <2>1, <2>3, <2>6, <3>1
    <3>2. CASE store'[EncryptedId(b)] \notin {None, store[EncryptedId(b)]}
      <4>1. SavesIt(r) /\ ToSave(r).id = EncryptedId(b)
        BY <1>2, <2>3, <3>2, FilledEntry
      <4>2. b = r \/ (b = loaded[r].by /\ ~On(r, "K") /\ ~On(r, "G"))
        BY <2>3, <4>1, SavedIsThePassword DEF SavesIt
      <4>3. r # p
        BY <2>6, <4>2 DEF FilesInv, Changed
      <4>4. loaded[r] = loaded[p] \/ b = r
        BY <4>2 DEF FilesInv, Visible
      <4>5. pc'[r] \in Settled /\ Asks(r, "save-password")'
        <5>1. cmd'[r] = cmd[r] /\ cmd[r] # Refused
          BY <1>2, <4>1, Course DEF SavesIt, After, LocalInv, RouteInv
        <5>2. QED
          BY <4>1, <5>1 DEF SavesIt, Settled, Asks, On
      <4>6. loaded'[r] = loaded[r]
        BY <4>1 DEF SavesIt
      <4>7. QED
        BY <2>1, <4>3, <4>4, <4>5, <4>6 DEF SavedAgain
    <3>3. QED
      BY <3>1, <3>2
  <2>7. QED
    BY <2>1, <2>3, <2>4, <2>5, <2>6 DEF GoneInv
<1>3. QED
  BY <1>1, <1>2 DEF Next, GoneInv

LEMMA GoneInvariant == Spec => [](\A p \in Procs : GoneInv(p))
<1>1. Init => \A p \in Procs : GoneInv(p)
  BY DEF Init, GoneInv, Changed
<1>2. SessionInv /\ (\A p \in Procs : GoneInv(p)) /\ [Next]_vars => (\A p \in Procs : GoneInv(p))'
  BY GoneStep
<1>3. QED
  BY <1>1, <1>2, SessionInvariant, PTL DEF Spec

(***************************************************************************)
(* After a change that ended well the old password is out of the store,    *)
(* unless the store failed or a command that knows the old file saved it.  *)
(***************************************************************************)
THEOREM OldPasswordsGo == Spec => []OldPasswordGone
<1>1. (\A p \in Procs : GoneInv(p)) => OldPasswordGone
  BY DEF GoneInv, Changed, SavedAgain, OldPasswordGone
<1>2. QED
  BY <1>1, GoneInvariant, PTL

-----------------------------------------------------------------------------
(***************************************************************************)
(* What has been called saved stays in the store under the current file    *)
(* until somebody is asked to forget it or the store spoils another save.  *)
(***************************************************************************)
NobodyForgets == \A q \in Procs : ~Asks(q, "forget-password")

Confirmed(p) ==
    /\ "saved" \in told[p] /\ Encrypted(key) /\ ToSave(p).id = CredentialId(key)
    /\ NobodyForgets

SavedInv(p) ==
    Confirmed(p) =>
        \/ store[CredentialId(key)] = key.password
        \/ \E q \in Procs : pc[q] \in Settled /\ Unconfirmed(q, CredentialId(key))

LEMMA KeyId ==
  ASSUME SessionInv, Encrypted(key)
  PROVE  /\ key.by \in Authors /\ CredentialId(key) = EncryptedId(key.by)
         /\ key.password = password[key.by]
<1>1. key \in KeyType /\ key # Absent /\ key \in Visible
  BY DEF SessionInv, SessionBase, SessionShape, Encrypted, Absent, KeyFile, Visible
<1>2. QED
  BY <1>1 DEF KeyType, CredentialId, EncryptedId, SessionInv, FilesInv

LEMMA SavedStep ==
  ASSUME SessionInv, NEW p \in Procs, SavedInv(p), [Next]_vars
  PROVE  SavedInv(p)'
<1> USE DEF SessionInv, SessionBase
<1>1. CASE UNCHANGED vars
  BY <1>1 DEF vars, SavedInv, Confirmed, NobodyForgets, Unconfirmed, ToSave, Asks, On,
              Encrypted, CredentialId
<1>2. ASSUME NEW r \in Procs, Step(r) \/ Kill(r), Confirmed(p)'
      PROVE  \/ store'[CredentialId(key')] = key'.password
             \/ \E q \in Procs : pc'[q] \in Settled /\ Unconfirmed(q, CredentialId(key))'
  <2>1. /\ "saved" \in told[p] /\ pc[p] \in Settled
        \/ /\ r = p /\ pc[p] = "readBack" /\ store[ToSave(p).id] = ToSave(p).password
    BY <1>2, Frame, Course DEF Confirmed, LocalInv, ToldInv
  <2>2. /\ pc[p] \in Settled
        /\ cmd'[p] = cmd[p] /\ loaded'[p] = loaded[p] /\ held'[p] = held[p] /\ fresh'[p] = fresh[p]
    BY <1>2, <2>1, Frame, Course DEF After, Settled
  <2>3. ToSave(p)' = ToSave(p)
    BY <2>2 DEF ToSave, On, CredentialId, Encrypted
  <2>4. ~Writes(r)
    <3>1. SUFFICES ASSUME Writes(r) PROVE FALSE
      OBVIOUS
    <3>2. key' = fresh[r] /\ fresh[r].by = r /\ pc[r] \notin After
      BY <3>1 DEF Writes, Written, LocalInv, ReadyInv, After, Settled, Ended
    <3>3. p # r
      BY <2>2, <3>2 DEF After
    <3>4. Encrypted(key') /\ ToSave(p).id = CredentialId(key')
      BY <1>2, <2>3 DEF Confirmed, Encrypted, CredentialId
    <3>5. ToSave(p).id = EncryptedId(r)
      BY <3>2, <3>4 DEF CredentialId, EncryptedId, Encrypted
    <3>6. CASE On(p, "K") \/ On(p, "G")
      <4>1. fresh[p].by = r /\ Encrypted(fresh[p])
        BY <3>5, <3>6, IdOfFile DEF ToSave, Authors
      <4>2. QED
        BY <3>3, <4>1 DEF LocalInv, ReadyInv, Encrypted, Absent, KeyFile
    <3>7. CASE ~On(p, "K") /\ ~On(p, "G")
      <4>1. loaded[p].by = r
        BY <3>5, <3>7, IdOfFile DEF ToSave, Authors
      <4>2. QED
        BY <3>2, <4>1 DEF FilesInv, Visible
    <3>8. QED
      BY <3>6, <3>7
  <2>5. key' = key /\ password' = password
    BY <1>2, <2>4, Effect DEF Looks, SavesIt, Forgets
  <2>6. Encrypted(key) /\ ToSave(p).id = CredentialId(key)
    BY <1>2, <2>3, <2>5 DEF Confirmed, Encrypted, CredentialId
  <2>7. PICK a \in Authors : /\ a = key.by /\ CredentialId(key) = EncryptedId(a)
                             /\ key.password = password[a]
    BY <2>6, KeyId
  <2>8. EncryptedId(a) \in Ids
    BY DEF EncryptedId, Ids
  <2>9. NobodyForgets
    <3>1. ASSUME NEW q \in Procs, Asks(q, "forget-password") PROVE FALSE
      <4>1. pc[q] # "start"
        BY <3>1 DEF LocalInv, RouteInv, Asks
      <4>2. cmd'[q] = cmd[q]
        BY <1>2, <4>1, Frame, Course
      <4>3. QED
        BY <1>2, <3>1, <4>2 DEF Confirmed, NobodyForgets, Asks, On
    <3>2. QED
      BY <3>1 DEF NobodyForgets
  <2>10. \/ store[EncryptedId(a)] = password[a]
         \/ \E q \in Procs : pc[q] \in Settled /\ Unconfirmed(q, EncryptedId(a))
    <3>1. CASE "saved" \in told[p]
      BY <2>6, <2>7, <2>9, <3>1 DEF SavedInv, Confirmed
    <3>2. CASE pc[p] = "readBack" /\ store[ToSave(p).id] = ToSave(p).password
      BY <2>6, <2>7, <3>2, SavedIsThePassword
    <3>3. QED
      BY <2>1, <3>1, <3>2
  <2>11. ~Forgets(r) \/ store'[EncryptedId(a)] = store[EncryptedId(a)]
    <3>1. SUFFICES ASSUME Forgets(r), CredentialId(loaded[r]) = EncryptedId(a) PROVE FALSE
      BY <2>8 DEF Forgets, ForgetPassword, SessionShape
    <3>2. pc[r] # "forget"
      BY <2>9 DEF NobodyForgets, Asks, LocalInv, RouteInv
    <3>3. QED
      BY <2>7, <3>1, <3>2, IdOfFile DEF Forgets, FilesInv
  <2>12. CASE SavesIt(r) /\ ToSave(r).id = EncryptedId(a)
    <3>1. pc'[r] \in Settled /\ Unconfirmed(r, EncryptedId(a))'
      BY <1>2, <2>12, SavingUnconfirmed
    <3>2. QED
      BY <2>5, <2>7, <3>1 DEF Unconfirmed, CredentialId, Encrypted
  <2>13. CASE ~(SavesIt(r) /\ ToSave(r).id = EncryptedId(a))
    <3>1. store'[EncryptedId(a)] = store[EncryptedId(a)]
      BY <1>2, <2>4, <2>8, <2>11, <2>13, Effect DEF Looks, SavesIt, SavePassword, SessionShape
    <3>2. ASSUME NEW q \in Procs, pc[q] \in Settled, Unconfirmed(q, EncryptedId(a))
          PROVE  \/ store[EncryptedId(a)] = password[a]
                 \/ pc'[q] \in Settled /\ Unconfirmed(q, EncryptedId(a))'
      BY <1>2, <3>2, StillUnconfirmed, SavedIsThePassword
    <3>3. QED
      BY <2>5, <2>7, <2>10, <3>1, <3>2 DEF Unconfirmed, CredentialId, Encrypted
  <2>14. QED
    BY <2>12, <2>13
<1>3. QED
  BY <1>1, <1>2 DEF Next, SavedInv

LEMMA SavedInvariant == Spec => [](\A p \in Procs : SavedInv(p))
<1>1. Init => \A p \in Procs : SavedInv(p)
  BY DEF Init, SavedInv, Confirmed
<1>2. SessionInv /\ (\A p \in Procs : SavedInv(p)) /\ [Next]_vars => (\A p \in Procs : SavedInv(p))'
  BY SavedStep
<1>3. QED
  BY <1>1, <1>2, SessionInvariant, PTL DEF Spec

(***************************************************************************)
(* --save-password is answered, and what has been called saved opens the   *)
(* key file.                                                               *)
(***************************************************************************)
THEOREM SavesAreAnswered == Spec => []SaveIsAnswered
<1>1. ASSUME SessionInv, \A p \in Procs : SavedInv(p) PROVE SaveIsAnswered
  <2>1. \A p \in Procs : pc[p] = "ok" /\ Saves(p) => told[p] \ {"notForgotten"} # {}
    BY <1>1 DEF SessionInv, SessionBase, LocalInv, ToldInv, Answered
  <2>2. QED
    BY <1>1, <2>1 DEF SaveIsAnswered, SavedInv, Confirmed, NobodyForgets
<1>2. QED
  BY <1>1, SessionInvariant, SavedInvariant, PTL
-----------------------------------------------------------------------------
(***************************************************************************)
(* A command past its arguments is what its command line says.             *)
(***************************************************************************)
Asked(argv) == [reading |-> getopt(argv), odd |-> LooksLikeOption(argv)]

AskedInv ==
    /\ DOMAIN asked = Procs
    /\ \A p \in Procs : pc[p] # "start" =>
          \E argv \in CommandLines : cmd[p] = Command(argv) /\ asked[p] = Asked(argv)

LEMMA AskedStep ==
  ASSUME SessionShape, AskedInv, [Next]_vars
  PROVE  AskedInv'
<1>1. CASE UNCHANGED vars
  BY <1>1 DEF AskedInv, vars
<1>2. ASSUME NEW p \in Procs, Step(p) \/ Kill(p) PROVE AskedInv'
  <2>1. \/ UNCHANGED request /\ pc[p] # "start"
        \/ \E argv \in CommandLines :
              /\ asked' = [asked EXCEPT ![p] = Asked(argv)]
              /\ cmd' = [cmd EXCEPT ![p] = Command(argv)]
    <3> USE DEF session, request
    <3>1. CASE Start(p)
      BY <3>1, Zenon DEF Start, Asked
    <3>2. CASE Elsewhere(p) \/ Exists(p) \/ Peek(p) \/ Load(p) \/ GetPassword(p)
      BY <3>2 DEF Elsewhere, Exists, Peek, Load, GetPassword
    <3>3. CASE Prompt(p) \/ Use(p) \/ NewPassword(p) \/ Rekey(p) \/ Replace(p) \/ Install(p)
      BY <3>3 DEF Prompt, Use, NewPassword, Rekey, Replace, Install
    <3>4. CASE \/ ForgetOld(p) \/ Save(p) \/ ReadBack(p) \/ MaybeForget(p) \/ Forget(p)
               \/ Kill(p)
      BY <3>4 DEF ForgetOld, Save, ReadBack, MaybeForget, Forget, Kill
    <3>5. QED
      BY <1>2, <3>1, <3>2, <3>3, <3>4 DEF Step
  <2>2. CASE UNCHANGED request /\ pc[p] # "start"
    <3>1. asked' = asked /\ cmd' = cmd /\ \A q \in Procs : pc'[q] # "start" => pc[q] # "start"
      BY <1>2, <2>2, Frame DEF request
    <3>2. QED
      BY <3>1 DEF AskedInv
  <2>3. ASSUME NEW argv \in CommandLines,
               asked' = [asked EXCEPT ![p] = Asked(argv)],
               cmd' = [cmd EXCEPT ![p] = Command(argv)]
        PROVE  AskedInv'
    <3>1. /\ DOMAIN asked' = Procs /\ asked'[p] = Asked(argv) /\ cmd'[p] = Command(argv)
          /\ \A q \in Procs \ {p} : asked'[q] = asked[q] /\ cmd'[q] = cmd[q] /\ pc'[q] = pc[q]
      BY <1>2, <2>3, Frame DEF AskedInv, SessionShape
    <3>2. QED
      BY <3>1 DEF AskedInv
  <2>4. QED
    BY <2>1, <2>2, <2>3
<1>3. QED
  BY <1>1, <1>2 DEF Next

(***************************************************************************)
(* Whatever the command lines are: a command that is not refused is the    *)
(* one getopt reads, and a refused one is refused by getopt too or asks    *)
(* for what makes no sense together, unless a value or a file looks like   *)
(* an option.                                                              *)
(***************************************************************************)
THEOREM CommandsReadAsGetopt == Spec => []ReadAsGetopt
<1>1. Init => AskedInv
  BY DEF Init, AskedInv
<1>2. SessionInv /\ AskedInv /\ [Next]_vars => AskedInv'
  BY AskedStep DEF SessionInv, SessionBase
<1>3. AskedInv => ReadAsGetopt
  <2>1. SUFFICES ASSUME AskedInv, NEW p \in Procs, pc[p] # "start", ~asked[p].odd
                 PROVE  LET reading == asked[p].reading IN
                        IF cmd[p] # Refused THEN cmd[p] = reading
                        ELSE reading # Refused => Excluded(reading.on) \/ UsageError(reading)
    BY DEF ReadAsGetopt
  <2>2. PICK argv \in CommandLines : cmd[p] = Command(argv) /\ asked[p] = Asked(argv)
    BY <2>1 DEF AskedInv
  <2>3. argv \in Seq(Argument)
    BY CommandLinesTyped
  <2>4. asked[p].reading = getopt(argv) /\ ~LooksLikeOption(argv)
    BY <2>1, <2>2 DEF Asked
  <2> DEFINE c == parse_args(argv)
             reading == getopt(argv)
  <2>5. c = IF reading # Refused /\ Excluded(reading.on) THEN Refused ELSE reading
    BY <2>3, <2>4, ParsedAsGetopt
  <2>6. cmd[p] = IF c = Refused THEN Refused ELSE IF UsageError(c) THEN Refused ELSE c
    BY <2>2 DEF Command
  <2> HIDE DEF c, reading
  <2>7. QED
    BY <2>4, <2>5, <2>6 DEF reading
<1>4. QED
  BY <1>1, <1>2, <1>3, SessionInvariant, PTL DEF Spec

=============================================================================
