---------------------------- MODULE CommandLine ----------------------------
(***************************************************************************)
(* From the arguments of a process to the command it is (rs/src/cli.rs and *)
(* the first lines of the handlers in rs/src/main.rs), next to how getopt  *)
(* reads the same arguments in the C minisign (src/minisign.c).            *)
(*                                                                         *)
(* An argument has its leading dashes and its text.  The text of a short   *)
(* option or a bundle is a sequence of letters, one of which may stand for *)
(* text without a meaning of its own.  The long names of short options are *)
(* left out, as is --option=value.                                         *)
(***************************************************************************)
EXTENDS Naturals, Sequences, FiniteSets, SequencesExt

CONSTANTS
    Nothing,   \* an option that was not given
    Refused    \* a usage error: exit code 2

Arg(dashes, text) == [dashes |-> dashes, text |-> text]
Word(name) == Arg(0, <<name>>)
Short(letter) == Arg(1, <<letter>>)
Long(name) == Arg(2, <<name>>)

Actions == {"G", "S", "V", "R", "K", "I"}
LongFlags == {"no-decrypt", "save-password", "forget-password"}
LongValues == {"password-file", "new-password-file"}

\* Bug: -x was added to the parser and forgotten here.
ValueFlagsLackingX == {"m", "p", "P", "s", "t", "c"}
VALUE_FLAGS == {"m", "p", "P", "s", "t", "c", "x"}

\* What parse_args asks for, in its order.
FlagOrder ==
    <<"G", "S", "V", "R", "K", "I", "f", "no-decrypt", "H", "l", "o", "q", "Q", "W",
      "save-password", "forget-password">>
ValueOrder ==
    <<"m", "p", "P", "s", "t", "c", "x", "password-file", "new-password-file">>
Flags == ToSet(FlagOrder)
ValueOptions == ToSet(ValueOrder)

Option(o) == IF o \in LongFlags \union LongValues THEN Long(o) ELSE Short(o)

\* An option of one dash has letters, one of two dashes a long name; no letter is
\* a long name.
Argument ==
    {arg \in [dashes : 0..2, text : Seq(STRING)] :
        LET names == {arg.text[i] : i \in DOMAIN arg.text} IN
        /\ arg.dashes = 1 => names \cap (LongFlags \union LongValues) = {}
        /\ arg.dashes = 2 => /\ Len(arg.text) <= 1
                             /\ names \cap (Flags \union ValueOptions)
                                    \subseteq LongFlags \union LongValues}

ASSUME NothingIsNoOption == Nothing \notin ValueOptions

-----------------------------------------------------------------------------
(* This program: bundles are taken apart, then each option is looked for   *)
(* wherever it is, the flags before the ones with a value.                 *)

ExpandOne(arg) ==
    IF arg.dashes # 1 \/ Len(arg.text) < 2 THEN <<arg>>
    ELSE LET taking == SelectInSeq(arg.text, LAMBDA letter : letter \in VALUE_FLAGS)
             last == IF taking = 0 THEN Len(arg.text) ELSE taking
             letters == [i \in 1..last |-> Short(arg.text[i])]
         IN IF last = Len(arg.text) THEN letters
            ELSE Append(letters, Arg(0, SubSeq(arg.text, last + 1, Len(arg.text))))

expand_combined_flags(argv) == FlattenSeq([i \in DOMAIN argv |-> ExpandOne(argv[i])])

\* Arguments::contains removes the first one.
TakeFlag(st, o) ==
    IF Contains(st.args, Option(o))
    THEN [st EXCEPT !.args = RemoveFirst(@, Option(o)), !.on = @ \union {o}] ELSE st

\* Arguments::opt_value_from_str: whatever comes next is the value.
TakeValue(st, o) ==
    LET i == SelectInSeq(st.args, LAMBDA arg : arg = Option(o)) IN
    IF i = 0 THEN st
    ELSE IF i = Len(st.args) THEN [st EXCEPT !.bad = TRUE]
    ELSE [st EXCEPT !.args = RemoveAt(RemoveAt(@, i), i),
                    !.on = @ \union {o}, !.value[o] = st.args[i + 1]]

NoValues == [o \in ValueOptions |-> Nothing]

\* Options that parse_args refuses together.
Excluded(on) ==
    \/ {"q", "Q"} \subseteq on
    \/ "new-password-file" \in on /\ ("K" \notin on \/ "W" \in on)

\* The parser before it has looked for anything, and when it has looked for
\* every flag, and then for every option with a value.
Unparsed(argv) ==
    [args |-> expand_combined_flags(argv), on |-> {}, value |-> NoValues, bad |-> FALSE]
FlagsTaken(st) ==
    LET taken[n \in 0..Len(FlagOrder)] ==
            IF n = 0 THEN st ELSE TakeFlag(taken[n - 1], FlagOrder[n])
    IN taken[Len(FlagOrder)]
ValuesTaken(st) ==
    LET taken[n \in 0..Len(ValueOrder)] ==
            IF n = 0 THEN st ELSE TakeValue(taken[n - 1], ValueOrder[n])
    IN taken[Len(ValueOrder)]
\* Parsed, or refused by parse_action or parse_args; what is left are files.
parse_args(argv) ==
    LET end == ValuesTaken(FlagsTaken(Unparsed(argv)))
    IN IF \/ end.bad
          \/ Cardinality(end.on \cap Actions) > 1
          \/ Excluded(end.on)
          \/ \E i \in DOMAIN end.args : end.args[i].dashes > 0
       THEN Refused
       ELSE [on |-> end.on, value |-> end.value, files |-> end.args]

-----------------------------------------------------------------------------
(* getopt: from left to right, with these options; what follows an option  *)
(* that takes a value is the value, and what follows `--` are files.  This *)
(* is the getopt of glibc, which looks for options after the first file    *)
(* too; that of BSD stops there.                                           *)

Seen(st, o) ==
    [st EXCEPT !.bad = @ \/ o \notin Flags \union ValueOptions \/ o \in st.on,
               !.on = @ \union {o},
               !.wants = IF o \in ValueOptions THEN o ELSE Nothing]

\* A value that looks like an option is odd.
Filled(st, arg) ==
    [st EXCEPT !.value[st.wants] = arg, !.wants = Nothing, !.odd = @ \/ arg.dashes > 0]

\* The letters of one argument: after one that takes a value comes the value.
ScanLetters(st, arg) ==
    LET first == SelectInSeq(arg.text, LAMBDA letter : letter \in ValueOptions)
        last == IF first = 0 THEN Len(arg.text) ELSE first
        seen[i \in 0..last] == IF i = 0 THEN st ELSE Seen(seen[i - 1], arg.text[i])
    IN IF last = Len(arg.text) THEN seen[last]
       ELSE Filled(seen[last], Arg(0, SubSeq(arg.text, last + 1, Len(arg.text))))

\* A file that looks like an option is odd, and the `--` that announces one.
Scan(st, arg) ==
    IF st.wants # Nothing THEN Filled(st, arg)
    ELSE IF st.over \/ arg.dashes = 0 \/ arg = Arg(1, <<>>)
    THEN [st EXCEPT !.files = Append(@, arg), !.odd = @ \/ arg.dashes > 0]
    ELSE IF arg = Arg(2, <<>>) THEN [st EXCEPT !.over = TRUE, !.odd = TRUE]
    ELSE IF arg.dashes = 1 THEN ScanLetters(st, arg)
    ELSE Seen(st, arg.text[1])

Unscanned ==
    [on |-> {}, value |-> NoValues, files |-> <<>>, wants |-> Nothing, over |-> FALSE,
     bad |-> FALSE, odd |-> FALSE]
Scanned(argv) ==
    LET scanned[i \in 0..Len(argv)] ==
            IF i = 0 THEN Unscanned ELSE Scan(scanned[i - 1], argv[i])
    IN scanned[Len(argv)]

getopt(argv) ==
    LET end == Scanned(argv) IN
    IF end.bad \/ end.wants # Nothing \/ Cardinality(end.on \cap Actions) > 1
    THEN Refused
    ELSE [on |-> end.on, value |-> end.value, files |-> end.files]

\* A value or a file that looks like an option, or the `--` that announces one.
LooksLikeOption(argv) == Scanned(argv).odd

-----------------------------------------------------------------------------
(* The handlers refuse some of it before they touch a file.                *)

Action(c) == CHOOSE a \in Actions : a \in c.on

\* all_message_files: -m and what is left.
Messages(c) == Len(c.files) + IF "m" \in c.on THEN 1 ELSE 0

NoAction(c) == c.on \cap Actions = {}

MisusedSign(c) == "S" \in c.on /\ (Messages(c) = 0 \/ {"H", "l"} \subseteq c.on)

MisusedVerify(c) ==
    "V" \in c.on /\ (Messages(c) = 0 \/ "password-file" \in c.on)

\* One signature file or output for several messages; sign refuses the former later.
MisusedBatch(c) ==
    "V" \in c.on /\ Messages(c) > 1 /\ {"x", "o"} \cap c.on # {}

MisusedRecreate(c) == {"R", "W"} \subseteq c.on

UsageError(c) ==
    NoAction(c) \/ MisusedSign(c) \/ MisusedVerify(c) \/ MisusedBatch(c) \/ MisusedRecreate(c)

\* The command, or a usage error.
Command(argv) ==
    LET c == parse_args(argv) IN
    IF c = Refused THEN Refused ELSE IF UsageError(c) THEN Refused ELSE c

=============================================================================
