--------------------------- MODULE FileTextProofs ---------------------------
(***************************************************************************)
(* Proofs about FileText, for any comments of any length and any number of *)
(* edits.                                                                  *)
(***************************************************************************)
EXTENDS FileText, NaturalsInduction, WellFoundedInduction, TLAPS

-----------------------------------------------------------------------------
(* How long a line and a file are.                                         *)

LEMMA LineBytes ==
  ASSUME NEW line \in LineType
  PROVE  Bytes(line) \in Nat
BY DEF LineType, CommentType, Bytes, Prefix, Ending

\* A counterexample to something about the numbers has a least one.
LEMMA LeastExists ==
  ASSUME NEW T, T \subseteq Nat, T # {}
  PROVE  \E x \in T : \A y \in T : x <= y
<1> DEFINE Less == {ab \in Nat \X Nat : ab[1] < ab[2]}
<1>1. IsWellFoundedOn(Less, Nat)
  BY NatLessThanWellFounded DEF OpToRel
<1>2. PICK x \in T : \A y \in T : ~(<<y, x>> \in Less)
  BY <1>1, WFMin
<1>3. ASSUME NEW y \in T PROVE x <= y
  <2>1. <<y, x>> \in Nat \X Nat /\ <<y, x>> \notin Less
    BY <1>2
  <2>2. ~(y < x)
    BY <2>1
  <2>3. QED
    BY <2>2
<1>4. QED
  BY <1>3

Sums(f, lines, n) ==
    f \in [0..n -> Nat] /\ f[0] = 0 /\ \A i \in 1..n : f[i] = f[i - 1] + Bytes(lines[i])

LEMMA SumsExist ==
  ASSUME NEW lines \in Seq(LineType)
  PROVE  \E f : Sums(f, lines, Len(lines))
<1> DEFINE Without == {n \in 0..Len(lines) : ~ \E f : Sums(f, lines, n)}
<1>1. SUFFICES ASSUME Without # {} PROVE FALSE
  BY Len(lines) \in 0..Len(lines)
<1>2. PICK n \in Without : \A m \in Without : n <= m
  <2>1. Without \subseteq Nat
    OBVIOUS
  <2>2. QED
    BY <1>1, <2>1, LeastExists, Zenon
<1>3. n # 0
  <2>1. Sums([i \in 0..0 |-> 0], lines, 0)
    BY DEF Sums
  <2>2. QED
    BY <2>1
<1>4. n - 1 \in 0..Len(lines) /\ n - 1 \notin Without /\ n \in 1..Len(lines)
  BY <1>2, <1>3
<1>5. PICK f : Sums(f, lines, n - 1)
  BY <1>4
<1>6. Bytes(lines[n]) \in Nat
  BY <1>4, LineBytes
<1> DEFINE g == [i \in 0..n |-> IF i = n THEN f[n - 1] + Bytes(lines[n]) ELSE f[i]]
<1>7. Sums(g, lines, n)
  <2>1. g \in [0..n -> Nat] /\ g[0] = 0
    BY <1>4, <1>5, <1>6 DEF Sums
  <2>2. ASSUME NEW i \in 1..n PROVE g[i] = g[i - 1] + Bytes(lines[i])
    BY <1>4, <1>5, <1>6 DEF Sums
  <2>3. QED
    BY <2>1, <2>2 DEF Sums
<1>8. QED
  BY <1>7

\* What the recursive function in FileBytes is.
LEMMA Unfolded ==
  ASSUME NEW lines \in Seq(LineType)
  PROVE  \E f : Sums(f, lines, Len(lines)) /\ FileBytes(lines) = f[Len(lines)]
<1> DEFINE upTo == CHOOSE f : f = [i \in 0..Len(lines) |->
                               IF i = 0 THEN 0 ELSE f[i - 1] + Bytes(lines[i])]
<1>1. \E f : f = [i \in 0..Len(lines) |-> IF i = 0 THEN 0 ELSE f[i - 1] + Bytes(lines[i])]
  <2>1. PICK g : Sums(g, lines, Len(lines))
    BY SumsExist
  <2>2. g = [i \in 0..Len(lines) |-> IF i = 0 THEN 0 ELSE g[i - 1] + Bytes(lines[i])]
    BY <2>1 DEF Sums
  <2>3. QED
    BY <2>2, Zenon
<1>2. upTo = [i \in 0..Len(lines) |-> IF i = 0 THEN 0 ELSE upTo[i - 1] + Bytes(lines[i])]
  BY <1>1, Zenon
<1>3. FileBytes(lines) = upTo[Len(lines)]
  BY Zenon DEF FileBytes
<1> HIDE DEF upTo
<1> DEFINE N == {n \in 0..Len(lines) : upTo[n] \notin Nat}
<1>4. \A n \in 0..Len(lines) : upTo[n] \in Nat
  <2>1. SUFFICES ASSUME N # {} PROVE FALSE
    OBVIOUS
  <2>2. PICK n \in N : \A m \in N : n <= m
    <3>1. N \subseteq Nat
      OBVIOUS
    <3>2. QED
      BY <2>1, <3>1, LeastExists, Zenon
  <2>3. n # 0
    BY <1>2, <2>2
  <2>4. n - 1 \in 0..Len(lines) /\ n - 1 \notin N /\ n \in 1..Len(lines)
    BY <2>2, <2>3
  <2>5. Bytes(lines[n]) \in Nat
    BY <2>4, LineBytes
  <2>6. QED
    BY <1>2, <2>2, <2>4, <2>5
<1>5. Sums(upTo, lines, Len(lines))
  <2>1. upTo \in [0..Len(lines) -> Nat] /\ upTo[0] = 0
    BY <1>2, <1>4
  <2>2. \A i \in 1..Len(lines) : upTo[i] = upTo[i - 1] + Bytes(lines[i])
    BY <1>2
  <2>3. QED
    BY <2>1, <2>2 DEF Sums
<1>6. QED
  BY <1>3, <1>5

LEMMA SizeOfTwo ==
  ASSUME NEW lines \in Seq(LineType), Len(lines) = 2
  PROVE  FileBytes(lines) = Bytes(lines[1]) + Bytes(lines[2])
<1>1. PICK f : Sums(f, lines, 2) /\ FileBytes(lines) = f[2]
  BY Unfolded
<1>2. lines[1] \in LineType /\ lines[2] \in LineType
  OBVIOUS
<1>3. Bytes(lines[1]) \in Nat /\ Bytes(lines[2]) \in Nat
  BY <1>2, LineBytes
<1>4. QED
  BY <1>1, <1>3 DEF Sums

LEMMA SizeOfFour ==
  ASSUME NEW lines \in Seq(LineType), Len(lines) = 4
  PROVE  FileBytes(lines) =
           Bytes(lines[1]) + Bytes(lines[2]) + Bytes(lines[3]) + Bytes(lines[4])
<1>1. PICK f : Sums(f, lines, 4) /\ FileBytes(lines) = f[4]
  BY Unfolded
<1>2. \A i \in 1..4 : lines[i] \in LineType
  OBVIOUS
<1>3. \A i \in 1..4 : Bytes(lines[i]) \in Nat
  BY <1>2, LineBytes
<1>4. f[1] = 0 + Bytes(lines[1]) /\ f[2] = f[1] + Bytes(lines[2])
  BY <1>1 DEF Sums
<1>5. f[3] = f[2] + Bytes(lines[3]) /\ f[4] = f[3] + Bytes(lines[4])
  BY <1>1 DEF Sums
<1>6. QED
  BY <1>1, <1>3, <1>4, <1>5

LEMMA SizeIsNat ==
  ASSUME NEW lines \in Seq(LineType)
  PROVE  FileBytes(lines) \in Nat
<1>1. PICK f : Sums(f, lines, Len(lines)) /\ FileBytes(lines) = f[Len(lines)]
  BY Unfolded
<1>2. QED
  BY <1>1 DEF Sums

-----------------------------------------------------------------------------
(***************************************************************************)
(* The inductive invariant: what the first line is, what follows a key,    *)
(* and what the lines were that either program has written.                *)
(***************************************************************************)
HeadInv == file # <<>> => file[1].kind \in {"untrusted", "bare"}

\* Nothing but blank lines comes after a key.
TailInv ==
    Len(file) >= 2 /\ file[2].kind = "base64" /\ file[2].text \in {KeyLine.text, SecretLine.text} =>
        \A i \in DOMAIN file : i > 2 => file[i].kind = "blank" /\ file[i].text = Empty

RustLines(l) ==
    \/ /\ Len(l) = 4 /\ l = SignatureFile(l[1].text, l[3].text)
       /\ {l[1].text, l[3].text} \subseteq CommentType
       /\ ValidUntrusted(l[1].text) /\ ValidTrusted(l[3].text)
    \/ /\ Len(l) = 2 /\ l = PublicKeyFile(l[1].text)
       /\ l[1].text \in CommentType /\ ValidUntrusted(l[1].text)
    \/ Len(l) = 2 /\ l = SecretKeyFile(l[1].text) /\ l[1].text \in SecretComments

CLines(l) ==
    \/ /\ Len(l) = 4 /\ l = SignatureFile(l[1].text, l[3].text)
       /\ {l[1].text, l[3].text} \subseteq CommentType /\ Printed(l[3])
    \/ l = PublicKeyFile(PublicComment)
    \/ /\ Len(l) = 2 /\ l = <<CommentLine(l[1].kind, l[1].text), SecretLine>>
       /\ l[1].text \in CommentType
       /\ l[1].kind = "untrusted" \/ (l[1].kind = "bare" /\ Bytes(l[1]) < COMMENTMAXBYTES)

MadeInv ==
    \/ made = Nobody /\ file = <<>>
    \/ made = [by |-> "failure"]
    \/ made.by = "rust" /\ made = [by |-> "rust", lines |-> made.lines] /\ RustLines(made.lines)
    \/ made.by = "c" /\ made = [by |-> "c", lines |-> made.lines] /\ CLines(made.lines)

TextInv == TextTypeOK /\ HeadInv /\ TailInv /\ MadeInv

-----------------------------------------------------------------------------
(* What the properties need of it.                                         *)

\* The lines of a file of that length.
LEMMA LinesOf ==
  ASSUME TextTypeOK
  PROVE  /\ DOMAIN file = 1..Len(file) /\ Len(file) \in Nat
         /\ \A i \in 1..Len(file) :
               /\ file[i] \in LineType /\ IsComment(file[i].text) /\ file[i].text.mark # "lf"
               /\ file[i].end \in {"lf", "crlf"} \/ (i = Len(file) /\ file[i].end \in Ends)
BY DEF TextTypeOK, Final, Ends

LEMMA SignatureAgrees ==
  ASSUME TextInv, RustReadsSignature(file)
  PROVE  CrAtLimit \/ CReadsSignature(file)
<1>1. /\ Len(file) = 4 /\ DOMAIN file = 1..4
      /\ file[1].kind = "untrusted" /\ ValidUntrusted(file[1].text)
      /\ Decodes(file[2], SigLine)
      /\ file[3].kind = "trusted" /\ ValidTrusted(file[3].text)
      /\ Decodes(file[4], GlobalLine(file[3].text)) /\ file[4].over = file[3].text
  BY LinesOf DEF TextInv, RustReadsSignature, Parsed
<1>2. \A i \in 1..4 : file[i].text \in CommentType /\ (i < 4 => file[i].end \in {"lf", "crlf"})
  BY <1>1, LinesOf DEF TextInv, IsComment
<1>3. SUFFICES ASSUME ~CrAtLimit PROVE CReadsSignature(file)
  OBVIOUS
<1>4. Trimmed(file[1], COMMENTMAXBYTES)
  BY <1>1, <1>2, <1>3 DEF Trimmed, CrAtLimit, Bytes, Prefix, Ending, ValidUntrusted, Printable,
     COMMENTMAXBYTES, CommentType
<1>5. Trimmed(file[2], 103) /\ file[2].text = SigLine.text
  BY <1>1, <1>2 DEF Trimmed, Bytes, Prefix, Ending, Decodes, SigLine, Base64Line, Plain
<1>6. Trimmed(file[3], TRUSTEDCOMMENTMAXBYTES) /\ CPrintable(file[3].text)
  BY <1>1, <1>2, <1>3 DEF Trimmed, CrAtLimit, Bytes, Prefix, Ending, ValidTrusted, Printable,
     CPrintable, TRUSTEDCOMMENTMAXBYTES, CommentType
<1>7. file[4].kind = "global" /\ Bytes(file[4]) <= 91 - 1
  BY <1>1, <1>2 DEF Bytes, Prefix, Ending, Decodes, GlobalLine, Plain
<1>8. QED
  BY <1>1, <1>4, <1>5, <1>6, <1>7 DEF CReadsSignature

LEMMA KeyAgrees ==
  ASSUME TextInv, NEW like \in {KeyLine, SecretLine}, Len(file) >= 2,
         Bytes(file[1]) <= COMMENTMAXBYTES - 1,
         file[2].kind = "base64", file[2].text = like.text,
         file[2].end # "cr", file[1].text.mark # "bytes",
         ~(Len(file) > 2 /\ FileBytes(file) > MAX_KEY_FILE_BYTES)
  PROVE  Utf8Within(file, MAX_KEY_FILE_BYTES) /\ Decodes(file[2], like)
<1>1. file \in Seq(LineType) /\ DOMAIN file = 1..Len(file) /\ Len(file) \in Nat
  BY LinesOf DEF TextInv, TextTypeOK
<1>2. like.kind = "base64" /\ like.text \in {Plain(56, "nothing"), Plain(212, "nothing")}
  BY DEF KeyLine, SecretLine, Base64Line
<1>3. \A i \in 1..Len(file) : file[i].text.mark # "bytes"
  <2>1. \A i \in 1..Len(file) : i > 2 => file[i].text = Empty
    BY <1>1 DEF TextInv, TailInv
  <2>2. file[2].text.mark = "plain" /\ Empty.mark = "plain"
    BY <1>2 DEF Plain, Empty
  <2>3. QED
    BY <1>1, <2>1, <2>2
<1>4. FileBytes(file) <= MAX_KEY_FILE_BYTES
  <2>1. CASE Len(file) = 2
    <3>1. FileBytes(file) = Bytes(file[1]) + Bytes(file[2])
      BY <1>1, <2>1, SizeOfTwo
    <3>3. Bytes(file[1]) \in Nat /\ Bytes(file[2]) \in Nat
      BY <2>1, LinesOf, LineBytes DEF TextInv
    <3>4. Bytes(file[2]) <= 214
      BY <1>2 DEF Bytes, Prefix, Ending, Plain
    <3>5. QED
      BY <3>1, <3>3, <3>4 DEF COMMENTMAXBYTES, MAX_KEY_FILE_BYTES
  <2>2. CASE Len(file) > 2
    <3>1. QED
      BY <1>1, <2>2, SizeIsNat DEF MAX_KEY_FILE_BYTES
  <2>3. QED
    BY <1>1, <2>1, <2>2
<1>5. QED
  BY <1>1, <1>2, <1>3, <1>4 DEF Utf8Within, Decodes

LEMMA InvReadersAgree == TextInv => ReadersAgree
<1> SUFFICES ASSUME TextInv PROVE ReadersAgree
  OBVIOUS
<1>1. RustReadsSignature(file) => CrAtLimit \/ CReadsSignature(file)
  BY SignatureAgrees
<1>2. ASSUME CReadsKey(file), file[2].end # "cr", file[1].text.mark # "bytes",
             ~(Len(file) > 2 /\ FileBytes(file) > MAX_KEY_FILE_BYTES)
      PROVE  RustReadsKey(file)
  BY <1>2, KeyAgrees DEF CReadsKey, RustReadsKey
<1>3. ASSUME CReadsSecret(file), file[2].end # "cr", file[1].text.mark # "bytes",
             ~(Len(file) > 2 /\ FileBytes(file) > MAX_KEY_FILE_BYTES)
      PROVE  RustReadsSecret(file)
  BY <1>3, KeyAgrees DEF CReadsSecret, RustReadsSecret
<1>4. QED
  BY <1>1, <1>2, <1>3 DEF ReadersAgree

\* A line whose end has been changed, or not.
LEMMA KeptLine ==
  ASSUME NEW line \in LineType, NEW m, [line EXCEPT !.end = "lf"] = m
  PROVE  /\ line.kind = m.kind /\ line.text = m.text
         /\ line.kind = "global" => line.over = m.over
<1>1. CASE line \in [kind : {"untrusted", "trusted", "bare", "base64", "blank"},
                     text : CommentType, end : Ends]
  BY <1>1
<1>2. CASE line \in [kind : {"global"}, text : CommentType, over : CommentType, end : Ends]
  BY <1>2
<1>3. QED
  BY <1>1, <1>2 DEF LineType

LEMMA SignatureRead ==
  ASSUME TextTypeOK, Len(file) = 4, file[4].end # "cr",
         NEW u \in CommentType, ValidUntrusted(u), NEW t \in CommentType, ValidTrusted(t),
         \A i \in 1..4 : [file[i] EXCEPT !.end = "lf"] = SignatureFile(u, t)[i]
  PROVE  RustReadsSignature(file)
<1>1. \A i \in 1..4 : file[i] \in LineType
  BY LinesOf
<1>2. /\ file[1].kind = "untrusted" /\ file[1].text = u
      /\ file[2].kind = "base64" /\ file[2].text = Plain(100, "nothing")
      /\ file[3].kind = "trusted" /\ file[3].text = t
      /\ file[4].kind = "global" /\ file[4].text = Plain(88, "nothing") /\ file[4].over = t
  <2>1. [file[1] EXCEPT !.end = "lf"] = CommentLine("untrusted", u)
    BY DEF SignatureFile
  <2>2. [file[2] EXCEPT !.end = "lf"] = SigLine
    BY DEF SignatureFile
  <2>3. [file[3] EXCEPT !.end = "lf"] = CommentLine("trusted", t)
    BY DEF SignatureFile
  <2>4. [file[4] EXCEPT !.end = "lf"] = GlobalLine(t)
    BY DEF SignatureFile
  <2>5. file[1].kind = "untrusted" /\ file[1].text = u
    BY <1>1, <2>1, KeptLine DEF CommentLine
  <2>6. file[2].kind = "base64" /\ file[2].text = Plain(100, "nothing")
    BY <1>1, <2>2, KeptLine DEF SigLine, Base64Line
  <2>7. file[3].kind = "trusted" /\ file[3].text = t
    BY <1>1, <2>3, KeptLine DEF CommentLine
  <2>8. file[4].kind = "global" /\ file[4].text = Plain(88, "nothing") /\ file[4].over = t
    BY <1>1, <2>4, KeptLine DEF GlobalLine
  <2>9. QED
    BY <2>5, <2>6, <2>7, <2>8
<1>3. \A i \in 1..4 : file[i].end \in Ends
  BY LinesOf DEF Ends
<1>4. file[1].end # "cr" /\ file[2].end # "cr" /\ file[3].end # "cr"
  BY LinesOf
<1>5. FileBytes(file) <= MAX_SIGNATURE_FILE_BYTES
  <2>1. FileBytes(file) = Bytes(file[1]) + Bytes(file[2]) + Bytes(file[3]) + Bytes(file[4])
    BY SizeOfFour DEF TextTypeOK
  <2>2. \A i \in 1..4 : Bytes(file[i]) \in Nat
    BY <1>1, LineBytes
  <2>3. Bytes(file[1]) <= 1024
    BY <1>2, <1>3 DEF Bytes, Prefix, Ending, ValidUntrusted, COMMENTMAXBYTES, CommentType, Ends
  <2>4. Bytes(file[2]) <= 102
    BY <1>2, <1>3 DEF Bytes, Prefix, Ending, Plain, Ends
  <2>5. Bytes(file[3]) <= 8192
    BY <1>2, <1>3 DEF Bytes, Prefix, Ending, ValidTrusted, TRUSTEDCOMMENTMAXBYTES, CommentType, Ends
  <2>6. Bytes(file[4]) <= 90
    BY <1>2, <1>3 DEF Bytes, Prefix, Ending, Plain, Ends
  <2>7. QED
    BY <2>1, <2>2, <2>3, <2>4, <2>5, <2>6 DEF MAX_SIGNATURE_FILE_BYTES
<1>6. \A i \in 1..4 : file[i].text.mark = "plain"
  BY <1>2 DEF ValidUntrusted, ValidTrusted, Printable, Plain
<1>7. DOMAIN file = 1..4
  BY LinesOf
<1>8. QED
  BY <1>2, <1>4, <1>5, <1>6, <1>7 DEF RustReadsSignature, Parsed, Utf8Within, Decodes,
     SigLine, Base64Line, GlobalLine

LEMMA KeyRead ==
  ASSUME TextTypeOK, Len(file) = 2, file[2].end # "cr", file[1].text.mark = "plain",
         file[1].kind \in {"untrusted", "bare"},
         Prefix(file[1].kind) + file[1].text.len <= 1022,
         NEW like \in {KeyLine, SecretLine}, file[2].kind = "base64", file[2].text = like.text
  PROVE  /\ Utf8Within(file, MAX_KEY_FILE_BYTES) /\ Decodes(file[2], like)
         /\ CrAtLimit \/ Bytes(file[1]) <= COMMENTMAXBYTES - 1
         /\ Bytes(file[2]) <= like.text.len + 2
<1> DEFINE room == Prefix(file[1].kind) + file[1].text.len
<1>1. /\ file \in Seq(LineType) /\ DOMAIN file = 1..2 /\ file[1] \in LineType
      /\ file[2] \in LineType /\ file[1].end \in {"lf", "crlf"} /\ file[2].end \in Ends
  BY LinesOf DEF TextTypeOK, Ends
<1>2. /\ like.kind = "base64" /\ like.text.mark = "plain"
      /\ like.text.len \in {56, 212}
  BY DEF KeyLine, SecretLine, Base64Line, Plain
<1>3. Bytes(file[1]) \in Nat /\ Bytes(file[2]) \in Nat
  BY <1>1, LineBytes
<1>4. room \in Nat /\ Bytes(file[1]) = room + Ending(file[1].end) /\ Bytes(file[1]) <= 1024
  BY <1>1 DEF Bytes, Prefix, Ending, LineType, CommentType
<1>5. Bytes(file[2]) <= like.text.len + 2
  BY <1>1, <1>2 DEF Bytes, Prefix, Ending, Ends
<1>6. FileBytes(file) <= MAX_KEY_FILE_BYTES
  BY <1>1, <1>2, <1>3, <1>4, <1>5, SizeOfTwo DEF MAX_KEY_FILE_BYTES
<1>7. Utf8Within(file, MAX_KEY_FILE_BYTES) /\ Decodes(file[2], like)
  BY <1>1, <1>2, <1>6 DEF Utf8Within, Decodes
<1>8. CrAtLimit \/ Bytes(file[1]) <= COMMENTMAXBYTES - 1
  <2>1. CASE file[1].end = "lf"
    BY <2>1, <1>4 DEF Ending, COMMENTMAXBYTES
  <2>2. CASE file[1].end = "crlf" /\ room <= 1021
    BY <2>2, <1>4 DEF Ending, COMMENTMAXBYTES
  <2>3. CASE file[1].end = "crlf" /\ room = 1022
    BY <2>3, <1>1, <1>4 DEF Ending, COMMENTMAXBYTES, CrAtLimit
  <2>4. QED
    BY <1>1, <1>4, <2>1, <2>2, <2>3
<1>9. QED
  BY <1>5, <1>7, <1>8

\* What TextKept and ~Dubious leave of a signature file that was written.
LEMMA WrittenSignature ==
  ASSUME TextInv, TextKept, ~Dubious, Len(file) = 4
  PROVE  RustReadsSignature(file)
<1> DEFINE l == made.lines
           u == l[1].text
           t == l[3].text
<1>1. made.by \in {"rust", "c"} /\ Len(l) = 4 /\ file[4].end # "cr"
  BY DEF TextKept, Final
<1>2. DOMAIN file = 1..4 /\ \A i \in 1..4 : file[i] \in LineType
  BY LinesOf DEF TextInv
<1>3. \A i \in 1..4 : [file[i] EXCEPT !.end = "lf"] = l[i]
  BY <1>2 DEF TextKept
<1>4. l = SignatureFile(u, t) /\ u \in CommentType /\ t \in CommentType
  BY <1>1 DEF TextInv, MadeInv, Nobody, RustLines, CLines, PublicKeyFile
<1>5. ValidUntrusted(u) /\ ValidTrusted(t)
  <2>1. CASE made.by = "rust"
    BY <2>1, <1>1 DEF TextInv, MadeInv, Nobody, RustLines
  <2>2. CASE made.by = "c"
    <3>1. Printed(l[3])
      BY <2>2, <1>1 DEF TextInv, MadeInv, Nobody, CLines, PublicKeyFile
    <3>2. l[1] = CommentLine("untrusted", u) /\ l[3] = CommentLine("trusted", t)
      BY <1>4 DEF SignatureFile
    <3>3. [file[1] EXCEPT !.end = "lf"] = l[1] /\ [file[3] EXCEPT !.end = "lf"] = l[3]
      BY <1>3
    <3>4. file[1].text = u /\ file[1].kind = "untrusted" /\ file[3].text = t
      BY <1>2, <3>2, <3>3, KeptLine DEF CommentLine
    <3>5. u.mark = "plain" /\ ~(u.len > 1003) /\ t.mark = "plain"
      BY <1>2, <2>2, <3>4 DEF Dubious
    <3>6. 17 + t.len + 1 < 4096
      BY <3>1, <3>2 DEF Printed, Bytes, Prefix, Ending, CommentLine
    <3>7. QED
      BY <1>4, <3>5, <3>6 DEF ValidUntrusted, ValidTrusted, Printable, CommentType,
         COMMENTMAXBYTES, TRUSTEDCOMMENTMAXBYTES
  <2>3. QED
    BY <1>1, <2>1, <2>2
<1>6. QED
  BY <1>1, <1>3, <1>4, <1>5, SignatureRead DEF TextInv

\* And of a key file.
LEMMA WrittenKey ==
  ASSUME TextInv, TextKept, ~Dubious, Len(file) # 4
  PROVE  /\ Len(file) = 2 /\ file[2].end # "cr" /\ file[1].text.mark = "plain"
         /\ file[1].kind \in {"untrusted", "bare"}
         /\ Prefix(file[1].kind) + file[1].text.len <= 1022
         /\ file[2].kind = "base64" /\ file[2].text \in {KeyLine.text, SecretLine.text}
         /\ made.by = "rust" =>
               /\ file[1].kind = "untrusted"
               /\ file[2].text = SecretLine.text => file[1].text \in SecretComments
<1> DEFINE l == made.lines
<1>1. made.by \in {"rust", "c"} /\ Len(l) = Len(file) /\ file[Len(file)].end # "cr"
  BY DEF TextKept, Final
<1>2. Len(file) = 2
  <2>1. RustLines(l) \/ CLines(l)
    BY <1>1 DEF TextInv, MadeInv, Nobody
  <2>2. Len(PublicKeyFile(PublicComment)) = 2
    BY DEF PublicKeyFile
  <2>3. QED
    BY <1>1, <2>1, <2>2 DEF RustLines, CLines
<1>3. DOMAIN file = 1..2 /\ \A i \in 1..2 : file[i] \in LineType
  BY <1>2, LinesOf DEF TextInv
<1>4. \A i \in 1..2 : [file[i] EXCEPT !.end = "lf"] = l[i]
  BY <1>3 DEF TextKept
<1>5. [file[1] EXCEPT !.end = "lf"] = l[1] /\ [file[2] EXCEPT !.end = "lf"] = l[2]
  BY <1>4
<1>6. /\ file[1].kind = l[1].kind /\ file[1].text = l[1].text
      /\ file[2].kind = l[2].kind /\ file[2].text = l[2].text
  BY <1>3, <1>5, KeptLine
<1>7. l[2] \in {KeyLine, SecretLine}
  BY <1>1, <1>2 DEF TextInv, MadeInv, Nobody, RustLines, CLines, PublicKeyFile, SecretKeyFile
<1>8. file[2].kind = "base64" /\ file[2].text \in {KeyLine.text, SecretLine.text}
  BY <1>6, <1>7 DEF KeyLine, SecretLine, Base64Line
<1>9. CASE made.by = "rust"
  <2>1. RustLines(l)
    BY <1>9 DEF TextInv, MadeInv, Nobody
  <2>2. l[1] = CommentLine("untrusted", l[1].text)
    BY <1>1, <1>2, <2>1 DEF RustLines, PublicKeyFile, SecretKeyFile
  <2>3. l[1].text \in SecretComments \/ (l[1].text \in CommentType /\ ValidUntrusted(l[1].text))
    BY <1>1, <1>2, <2>1 DEF RustLines
  <2>4. file[1].kind = "untrusted"
    BY <1>6, <2>2 DEF CommentLine
  <2>5. file[1].text.mark = "plain" /\ file[1].text.len \in Nat /\ file[1].text.len <= 1003
    BY <1>6, <2>3 DEF ValidUntrusted, Printable, SecretComments, Plain, CommentType,
       COMMENTMAXBYTES
  <2>6. file[2].text = SecretLine.text => file[1].text \in SecretComments
    <3>1. CASE l = PublicKeyFile(l[1].text)
      <4>1. l[2] = KeyLine
        BY <3>1 DEF PublicKeyFile
      <4>2. QED
        BY <4>1, <1>6 DEF KeyLine, SecretLine, Base64Line, Plain
    <3>2. CASE l[1].text \in SecretComments
      BY <3>2, <1>6
    <3>3. QED
      BY <1>1, <1>2, <2>1, <3>1, <3>2 DEF RustLines
  <2>7. QED
    BY <1>1, <1>2, <1>8, <2>4, <2>5, <2>6 DEF Prefix
<1>10. CASE made.by = "c"
  <2>1. CLines(l)
    BY <1>10 DEF TextInv, MadeInv, Nobody
  <2>2. CASE l = PublicKeyFile(PublicComment)
    <3>1. l[1] = CommentLine("untrusted", Plain(36, "public"))
      BY <2>2 DEF PublicKeyFile, PublicComment
    <3>2. file[1].kind = "untrusted" /\ file[1].text = Plain(36, "public")
      BY <1>6, <3>1 DEF CommentLine
    <3>3. QED
      BY <1>1, <1>2, <1>8, <1>10, <3>2 DEF Prefix, Plain
  <2>3. CASE /\ l[1] = CommentLine(l[1].kind, l[1].text) /\ l[1].text \in CommentType
             /\ l[1].kind = "untrusted" \/ (l[1].kind = "bare" /\ Bytes(l[1]) < COMMENTMAXBYTES)
    <3>1. file[1].text.mark = "plain"
      BY <1>3, <1>10 DEF Dubious
    <3>2. file[1].text.len \in Nat
      BY <1>6, <2>3 DEF CommentType
    <3>3. file[1].kind = "untrusted" => ~(file[1].text.len > 1003)
      BY <1>3, <1>10 DEF Dubious
    <3>4. l[1].end = "lf"
      BY <2>3 DEF CommentLine
    <3>5. file[1].kind = "bare" => file[1].text.len + 1 < 1024
      BY <1>6, <2>3, <3>2, <3>4 DEF Bytes, Prefix, Ending, COMMENTMAXBYTES
    <3>6. QED
      BY <1>1, <1>2, <1>6, <1>8, <1>10, <2>3, <3>1, <3>2, <3>3, <3>5 DEF Prefix
  <2>4. QED
    BY <1>1, <1>2, <2>1, <2>2, <2>3 DEF CLines
<1>11. QED
  BY <1>1, <1>9, <1>10

LEMMA InvWrittenIsRead == TextInv => WrittenIsRead
<1> SUFFICES ASSUME TextInv, TextKept, ~Dubious
             PROVE  CASE Len(file) = 4 ->
                           RustReadsSignature(file) /\ (CrAtLimit \/ CReadsSignature(file))
                      [] file[2].text = KeyLine.text ->
                           RustReadsKey(file) /\ (CrAtLimit \/ CReadsKey(file))
                      [] OTHER -> RustReadsSecret(file) /\ (CrAtLimit \/ CReadsSecret(file))
  BY DEF WrittenIsRead
<1>1. CASE Len(file) = 4
  <2>1. RustReadsSignature(file)
    BY <1>1, WrittenSignature
  <2>2. CrAtLimit \/ CReadsSignature(file)
    BY <2>1, SignatureAgrees
  <2>3. file[2].text # KeyLine.text
    BY <2>1 DEF RustReadsSignature, Parsed, Decodes, SigLine, KeyLine, Base64Line, Plain
  <2>4. QED
    BY <1>1, <2>1, <2>2, <2>3
<1>2. CASE Len(file) # 4
  <2>1. /\ Len(file) = 2 /\ file[2].kind = "base64"
        /\ file[2].text \in {KeyLine.text, SecretLine.text}
    BY <1>2, WrittenKey
  <2>2. CASE file[2].text = KeyLine.text
    <3>1. /\ Utf8Within(file, MAX_KEY_FILE_BYTES) /\ Decodes(file[2], KeyLine)
          /\ CrAtLimit \/ Bytes(file[1]) <= COMMENTMAXBYTES - 1
          /\ Bytes(file[2]) <= KeyLine.text.len + 2
      BY <1>2, <2>2, WrittenKey, KeyRead DEF TextInv
    <3>2. KeyLine.text.len + 2 = 59 - 1
      BY DEF KeyLine, Base64Line, Plain
    <3>3. RustReadsKey(file) /\ (CrAtLimit \/ CReadsKey(file))
      BY <2>1, <2>2, <3>1, <3>2 DEF RustReadsKey, CReadsKey
    <3>4. QED
      BY <2>1, <2>2, <3>3
  <2>3. CASE file[2].text = SecretLine.text
    <3>1. /\ Utf8Within(file, MAX_KEY_FILE_BYTES) /\ Decodes(file[2], SecretLine)
          /\ CrAtLimit \/ Bytes(file[1]) <= COMMENTMAXBYTES - 1
          /\ Bytes(file[2]) <= SecretLine.text.len + 2
      BY <1>2, <2>3, WrittenKey, KeyRead DEF TextInv
    <3>2. SecretLine.text.len + 2 = 215 - 1 /\ SecretLine.text # KeyLine.text
      BY DEF KeyLine, SecretLine, Base64Line, Plain
    <3>3. RustReadsSecret(file) /\ (CrAtLimit \/ CReadsSecret(file))
      BY <2>1, <2>3, <3>1, <3>2 DEF RustReadsSecret, CReadsSecret
    <3>4. QED
      BY <2>1, <2>3, <3>2, <3>3
  <2>4. QED
    BY <2>1, <2>2, <2>3
<1>3. QED
  BY <1>1, <1>2

LEMMA InvInspectTellsKind == TextInv => InspectTellsKind
<1> SUFFICES ASSUME TextInv PROVE InspectTellsKind
  OBVIOUS
<1> DEFINE says == sniff_key_file_type(file)
<1>1. says \in Words
  <2>1. CASE file = <<>>
    BY <2>1 DEF sniff_key_file_type, Words
  <2>2. CASE file # <<>>
    <3>1. 1 \in 1..Len(file)
      BY <2>2, LinesOf DEF TextInv, TextTypeOK
    <3>2. file[1].text \in CommentType
      BY <3>1, LinesOf DEF TextInv, IsComment
    <3>3. QED
      BY <3>2 DEF sniff_key_file_type, CommentType, Words
  <2>3. QED
    BY <2>1, <2>2
<1>2. ~(RustReadsSecret(file) /\ RustReadsKey(file))
  BY DEF RustReadsSecret, RustReadsKey, Decodes, KeyLine, SecretLine, Base64Line, Plain
<1>3. RustReadsSecret(file) =>
          Inspected(file) = IF Mislabelled("secret") THEN "refused" ELSE "secret"
  BY <1>1, <1>2 DEF Inspected, Mislabelled, Words
<1>4. RustReadsKey(file) =>
          Inspected(file) = IF Mislabelled("public") THEN "refused" ELSE "public"
  BY <1>1, <1>2 DEF Inspected, Mislabelled, Words
<1>5. ASSUME TextKept, made.by = "rust", Len(file) = 2
      PROVE  \/ Inspected(file) = IF file[2].text = SecretLine.text THEN "secret" ELSE "public"
             \/ file[2].text = KeyLine.text /\ Mislabelled("public")
  <2>1. ~Dubious
    BY <1>5 DEF Dubious
  <2>2. CASE file[2].text = KeyLine.text
    <3>1. RustReadsKey(file)
      BY <1>5, <2>1, <2>2, WrittenKey, KeyRead DEF TextInv, RustReadsKey
    <3>2. KeyLine.text # SecretLine.text
      BY DEF KeyLine, SecretLine, Base64Line, Plain
    <3>3. QED
      BY <1>4, <2>2, <3>1, <3>2
  <2>3. CASE file[2].text = SecretLine.text
    <3>1. RustReadsSecret(file)
      BY <1>5, <2>1, <2>3, WrittenKey, KeyRead DEF TextInv, RustReadsSecret
    <3>2. file[1].kind = "untrusted" /\ file[1].text \in SecretComments
      BY <1>5, <2>1, <2>3, WrittenKey
    <3>3. says = "secret"
      BY <1>5, <3>2 DEF sniff_key_file_type, SecretComments, Plain
    <3>4. QED
      BY <1>3, <2>3, <3>1, <3>3 DEF Mislabelled
  <2>4. QED
    BY <1>5, <2>1, <2>2, <2>3, WrittenKey
<1>6. QED
  BY <1>3, <1>4, <1>5 DEF InspectTellsKind

-----------------------------------------------------------------------------
(* The lines of a file by themselves, whatever made them.                  *)

LinesOK(l) ==
    /\ l \in Seq(LineType)
    /\ \A i \in 1..Len(l) :
          /\ IsComment(l[i].text) /\ l[i].text.mark # "lf"
          /\ l[i].end \in {"lf", "crlf"} \/ (i = Len(l) /\ l[i].end \in {"none", "cr"})
    /\ Len(l) >= 1 => l[1].kind \in {"untrusted", "bare"}
    /\ Len(l) >= 2 /\ l[2].kind = "base64" /\ l[2].text \in {KeyLine.text, SecretLine.text} =>
          \A i \in 1..Len(l) : i > 2 => l[i].kind = "blank" /\ l[i].text = Empty

LEMMA InvLines == TextInv => LinesOK(file) /\ MadeInv /\ edits \in 0..MaxEdits
<1> SUFFICES ASSUME TextInv PROVE LinesOK(file) /\ MadeInv /\ edits \in 0..MaxEdits
  OBVIOUS
<1>1. /\ file \in Seq(LineType) /\ DOMAIN file = 1..Len(file) /\ Len(file) \in Nat
      /\ Len(file) >= 1 => file # <<>>
  BY DEF TextInv, TextTypeOK
<1>2. QED
  BY <1>1 DEF TextInv, TextTypeOK, Final, HeadInv, TailInv, LinesOK

LEMMA LinesInv == LinesOK(file)' /\ MadeInv' /\ (edits \in 0..MaxEdits)' => TextInv'
<1> SUFFICES ASSUME LinesOK(file)', MadeInv', (edits \in 0..MaxEdits)' PROVE TextInv'
  OBVIOUS
<1>1. /\ file' \in Seq(LineType) /\ DOMAIN file' = 1..Len(file') /\ Len(file') \in Nat
      /\ file' # <<>> => Len(file') >= 1
  BY DEF LinesOK
<1>2. made'.by \in {"nobody", "rust", "c", "failure"}
  BY DEF MadeInv, Nobody
<1>3. TextTypeOK'
  BY <1>1, <1>2 DEF TextTypeOK, LinesOK, Final
<1>4. HeadInv' /\ TailInv'
  BY <1>1 DEF HeadInv, TailInv, LinesOK
<1>5. QED
  BY <1>3, <1>4 DEF TextInv

LEMMA NoLinesOK == LinesOK(<<>>)
BY DEF LinesOK

LEMMA LineTyped ==
  ASSUME NEW c, IsComment(c)
  PROVE  /\ \A kind \in {"untrusted", "trusted", "bare", "blank"} : CommentLine(kind, c) \in LineType
         /\ GlobalLine(c) \in LineType /\ GlobalLine(c).kind = "global"
         /\ IsComment(GlobalLine(c).text) /\ GlobalLine(c).text.mark = "plain"
         /\ GlobalLine(c).end = "lf"
BY DEF CommentLine, GlobalLine, LineType, IsComment, CommentType, Plain, Ends, Marks, Words

LEMMA FixedTyped ==
  \A line \in {SigLine, KeyLine, SecretLine} :
     /\ line \in LineType /\ line.kind = "base64" /\ line.end = "lf"
     /\ IsComment(line.text) /\ line.text.mark = "plain"
BY DEF SigLine, KeyLine, SecretLine, Base64Line, LineType, IsComment, CommentType, Plain, Ends,
   Marks, Words

LEMMA SignatureOK ==
  ASSUME NEW a, IsComment(a), a.mark # "lf", NEW b, IsComment(b), b.mark # "lf"
  PROVE  LinesOK(SignatureFile(a, b))
<1> DEFINE l == SignatureFile(a, b)
<1>1. /\ Len(l) = 4 /\ l[1] = CommentLine("untrusted", a) /\ l[2] = SigLine
      /\ l[3] = CommentLine("trusted", b) /\ l[4] = GlobalLine(b)
  BY DEF SignatureFile
<1>2. l \in Seq(LineType)
  BY LineTyped, FixedTyped DEF SignatureFile
<1>3. \A i \in 1..4 : IsComment(l[i].text) /\ l[i].text.mark # "lf" /\ l[i].end = "lf"
  <2>1. \A i \in {1, 3} : IsComment(l[i].text) /\ l[i].text.mark # "lf" /\ l[i].end = "lf"
    BY <1>1 DEF CommentLine
  <2>2. \A i \in {2, 4} : IsComment(l[i].text) /\ l[i].text.mark # "lf" /\ l[i].end = "lf"
    BY <1>1, LineTyped, FixedTyped
  <2>3. QED
    BY <2>1, <2>2
<1>4. l[1].kind = "untrusted" /\ l[2].text \notin {KeyLine.text, SecretLine.text}
  BY <1>1 DEF CommentLine, SigLine, KeyLine, SecretLine, Base64Line, Plain
<1> HIDE DEF l
<1>5. LinesOK(l)
  BY <1>1, <1>2, <1>3, <1>4 DEF LinesOK
<1>6. QED
  BY <1>5 DEF l

LEMMA HeadOK ==
  ASSUME NEW l, LinesOK(l), NEW k \in 0..Len(l), k < Len(l),
         Len(l) >= 2 => l[2].text \notin {KeyLine.text, SecretLine.text}
  PROVE  LinesOK(SubSeq(l, 1, k))
<1> DEFINE h == SubSeq(l, 1, k)
<1>1. h \in Seq(LineType) /\ Len(h) = k /\ \A i \in 1..k : h[i] = l[i]
  BY DEF LinesOK
<1>2. \A i \in 1..k : i \in 1..Len(l) /\ i # Len(l)
  BY DEF LinesOK
<1> HIDE DEF h
<1>3. QED
  BY <1>1, <1>2 DEF LinesOK

LEMMA KeyOK ==
  ASSUME NEW a, IsComment(a), a.mark # "lf", NEW kind \in {"untrusted", "bare"},
         NEW like \in {KeyLine, SecretLine}
  PROVE  LinesOK(<<CommentLine(kind, a), like>>)
<1> DEFINE l == <<CommentLine(kind, a), like>>
<1>1. Len(l) = 2 /\ l[1] = CommentLine(kind, a) /\ l[2] = like
  OBVIOUS
<1>2. l \in Seq(LineType)
  BY LineTyped, FixedTyped
<1>3. \A i \in 1..2 : IsComment(l[i].text) /\ l[i].text.mark # "lf" /\ l[i].end = "lf"
  BY <1>1, FixedTyped DEF CommentLine
<1>4. l[1].kind \in {"untrusted", "bare"}
  BY <1>1 DEF CommentLine
<1> HIDE DEF l
<1>5. LinesOK(l)
  BY <1>1, <1>2, <1>3, <1>4 DEF LinesOK
<1>6. QED
  BY <1>5 DEF l

\* Lines as they are written.
Clean(l) ==
    /\ l \in Seq(LineType)
    /\ \A i \in 1..Len(l) : IsComment(l[i].text) /\ l[i].text.mark # "lf" /\ l[i].end = "lf"

LEMMA CleanJoin ==
  ASSUME NEW l, Clean(l), NEW m, Clean(m)
  PROVE  Clean(l \o m)
<1>1. l \o m \in Seq(LineType) /\ Len(l \o m) = Len(l) + Len(m)
  BY DEF Clean
<1>2. \A i \in 1..Len(l) + Len(m) :
        \/ i \in 1..Len(l) /\ (l \o m)[i] = l[i]
        \/ i - Len(l) \in 1..Len(m) /\ (l \o m)[i] = m[i - Len(l)]
  BY DEF Clean
<1> HIDE DEF Clean
<1>3. \A i \in 1..Len(l) + Len(m) :
        /\ IsComment((l \o m)[i].text) /\ (l \o m)[i].text.mark # "lf"
        /\ (l \o m)[i].end = "lf"
  BY <1>2 DEF Clean
<1>4. QED
  BY <1>1, <1>3 DEF Clean

LEMMA CleanOK ==
  ASSUME NEW l, Clean(l), Len(l) >= 2, l[1].kind = "untrusted",
         l[2].kind = "bare" \/ l[2].text \notin {KeyLine.text, SecretLine.text}
  PROVE  LinesOK(l)
BY DEF Clean, LinesOK

\* Half of a comment with a line feed in it.
LEMMA HalfTyped ==
  ASSUME NEW c, IsComment(c), c.mark = "lf"
  PROVE  /\ IsComment([c EXCEPT !.len = @ \div 2, !.mark = "plain"])
         /\ [c EXCEPT !.len = @ \div 2, !.mark = "plain"].mark = "plain"
<1>1. c \in CommentType /\ c.says = "nothing"
  BY DEF IsComment
<1>2. c.len \div 2 \in Nat
  BY <1>1 DEF CommentType
<1>3. QED
  BY <1>1, <1>2 DEF IsComment, CommentType, Marks

LEMMA CommentLinesClean ==
  ASSUME NEW c, IsComment(c), NEW kind \in {"untrusted", "trusted"}
  PROVE  /\ Clean(CommentLines(kind, c))
         /\ CommentLines(kind, c)[1].kind = kind
         /\ \/ c.mark # "lf" /\ CommentLines(kind, c) = <<CommentLine(kind, c)>>
            \/ /\ c.mark = "lf" /\ Len(CommentLines(kind, c)) = 2
               /\ CommentLines(kind, c)[2].kind = "bare"
<1> DEFINE half == [c EXCEPT !.len = @ \div 2, !.mark = "plain"]
<1>1. CASE c.mark # "lf"
  <2> DEFINE l == <<CommentLine(kind, c)>>
  <2>1. CommentLines(kind, c) = l
    BY <1>1 DEF CommentLines
  <2>2. l \in Seq(LineType) /\ Len(l) = 1 /\ l[1] = CommentLine(kind, c)
    BY LineTyped
  <2> HIDE DEF l
  <2>3. Clean(l) /\ l[1].kind = kind
    BY <1>1, <2>2 DEF Clean, CommentLine
  <2>4. QED
    BY <1>1, <2>1, <2>3 DEF l
<1>2. CASE c.mark = "lf"
  <2> DEFINE l == <<CommentLine(kind, half), CommentLine("bare", half)>>
  <2>1. CommentLines(kind, c) = l
    BY <1>2 DEF CommentLines
  <2>2. IsComment(half) /\ half.mark = "plain"
    BY <1>2, HalfTyped
  <2> HIDE DEF half
  <2>3. /\ l \in Seq(LineType) /\ Len(l) = 2
        /\ l[1] = CommentLine(kind, half) /\ l[2] = CommentLine("bare", half)
    BY <2>2, LineTyped
  <2> HIDE DEF l
  <2>4. Clean(l) /\ l[1].kind = kind /\ l[2].kind = "bare"
    BY <2>2, <2>3 DEF Clean, CommentLine
  <2>5. QED
    BY <1>2, <2>1, <2>3, <2>4
<1>3. QED
  BY <1>1, <1>2

\* A comment and what is written after it.
LEMMA CommentedOK ==
  ASSUME NEW a, IsComment(a), NEW m, Clean(m), Len(m) >= 1,
         a.mark = "lf" \/ m[1].text \notin {KeyLine.text, SecretLine.text}
  PROVE  LinesOK(CommentLines("untrusted", a) \o m)
<1> DEFINE l == CommentLines("untrusted", a)
           all == l \o m
<1>1. Clean(l) /\ l[1].kind = "untrusted"
  BY CommentLinesClean
<1>2. \/ a.mark # "lf" /\ Len(l) = 1
      \/ a.mark = "lf" /\ Len(l) = 2 /\ l[2].kind = "bare"
  BY CommentLinesClean
<1> HIDE DEF l
<1>3. Clean(all)
  BY <1>1, CleanJoin
<1>4. Len(all) = Len(l) + Len(m) /\ all[1] = l[1]
      /\ (Len(l) = 2 => all[2] = l[2]) /\ (Len(l) = 1 => all[2] = m[1])
  BY <1>1, <1>2 DEF Clean
<1>5. Len(m) \in Nat
  BY DEF Clean
<1> HIDE DEF all
<1>6. LinesOK(all)
  BY <1>1, <1>2, <1>3, <1>4, <1>5, CleanOK
<1>7. QED
  BY <1>6 DEF all, l

-----------------------------------------------------------------------------
(* What is written.                                                        *)

LEMMA TypedComments ==
  /\ IsComment(PublicComment) /\ PublicComment.mark = "plain"
  /\ \A u \in SecretComments : IsComment(u) /\ u.mark = "plain" /\ u.len < 1004
  /\ \A u \in Comments \union {NoComment} : \A d :
        IsComment(d) => IsComment(Given(u, d)) /\ IsComment(CGiven(u, d))
<1>1. IsComment(PublicComment) /\ PublicComment.mark = "plain"
  BY DEF PublicComment, Plain, IsComment, CommentType, Marks, Words
<1>2. \A u \in SecretComments : IsComment(u) /\ u.mark = "plain" /\ u.len < 1004
  BY DEF SecretComments, Plain, IsComment, CommentType, Marks, Words
<1>3. ASSUME NEW u \in Comments \union {NoComment}, NEW d, IsComment(d)
      PROVE  IsComment(Given(u, d)) /\ IsComment(CGiven(u, d))
  <2>1. Given(u, d) \in {u, d} /\ CGiven(u, d) \in {u, d}
    BY DEF Given, CGiven
  <2>2. u = NoComment => Given(u, d) = d /\ CGiven(u, d) = d
    BY DEF Given, CGiven
  <2>3. u # NoComment => IsComment(u)
    BY CommentsTyped
  <2>4. QED
    BY <1>3, <2>1, <2>2, <2>3
<1>4. QED
  BY <1>1, <1>2, <1>3

LEMMA RustSignStep == TextInv /\ RustSign => TextInv'
<1> SUFFICES ASSUME TextInv, RustSign PROVE TextInv'
  OBVIOUS
<1>1. PICK u \in Arguments, t \in Arguments :
         /\ ValidUntrusted(Given(u, Default)) /\ ValidTrusted(Given(t, Default))
         /\ file' = SignatureFile(Given(u, Default), Given(t, Default))
         /\ made' = [by |-> "rust", lines |-> file']
  BY DEF RustSign
<1> DEFINE a == Given(u, Default)
           b == Given(t, Default)
<1>2. IsComment(a) /\ IsComment(b) /\ a.mark = "plain" /\ b.mark = "plain"
  BY <1>1, TypedComments, DefaultFits DEF Arguments, ValidUntrusted, ValidTrusted, Printable
<1> HIDE DEF a, b
<1>3. file' = SignatureFile(a, b) /\ ValidUntrusted(a) /\ ValidTrusted(b)
  BY <1>1 DEF a, b
<1>4. LinesOK(file)'
  BY <1>2, <1>3, SignatureOK
<1>5. Len(file') = 4 /\ file'[1].text = a /\ file'[3].text = b
  BY <1>3 DEF SignatureFile, CommentLine
<1>6. RustLines(file')
  BY <1>2, <1>3, <1>5 DEF RustLines, IsComment
<1>7. MadeInv'
  BY <1>1, <1>6 DEF MadeInv
<1>8. edits' \in 0..MaxEdits
  BY InvLines DEF RustSign
<1>9. QED
  BY <1>4, <1>7, <1>8, LinesInv

LEMMA RustPublishStep == TextInv /\ RustPublish => TextInv'
<1> SUFFICES ASSUME TextInv, RustPublish PROVE TextInv'
  OBVIOUS
<1>1. PICK u \in Arguments :
         /\ ValidUntrusted(Given(u, PublicComment))
         /\ file' = PublicKeyFile(Given(u, PublicComment))
         /\ made' = [by |-> "rust", lines |-> file']
  BY DEF RustPublish
<1> DEFINE a == Given(u, PublicComment)
<1>2. IsComment(a) /\ a.mark = "plain"
  BY <1>1, TypedComments DEF Arguments, ValidUntrusted, Printable
<1> HIDE DEF a
<1>3. file' = PublicKeyFile(a) /\ ValidUntrusted(a)
  BY <1>1 DEF a
<1>4. LinesOK(file)'
  BY <1>2, <1>3, KeyOK DEF PublicKeyFile
<1>5. Len(file') = 2 /\ file'[1].text = a
  BY <1>3 DEF PublicKeyFile, CommentLine
<1>6. RustLines(file')
  BY <1>2, <1>3, <1>5 DEF RustLines, IsComment
<1>7. MadeInv'
  BY <1>1, <1>6 DEF MadeInv
<1>8. edits' \in 0..MaxEdits
  BY InvLines DEF RustPublish
<1>9. QED
  BY <1>4, <1>7, <1>8, LinesInv

\* Both that generate a secret key and that change its password.
LEMMA SecretWritten ==
  ASSUME NEW u \in SecretComments, file' = SecretKeyFile(u),
         made' = [by |-> "rust", lines |-> file'], edits' \in 0..MaxEdits
  PROVE  TextInv'
<1>1. IsComment(u) /\ u.mark = "plain"
  BY TypedComments
<1>2. LinesOK(file)'
  BY <1>1, KeyOK DEF SecretKeyFile
<1>3. Len(file') = 2 /\ file'[1].text = u
  BY DEF SecretKeyFile, CommentLine
<1>4. RustLines(file')
  BY <1>3 DEF RustLines
<1>5. MadeInv'
  BY <1>4 DEF MadeInv
<1>6. QED
  BY <1>2, <1>5, LinesInv

LEMMA RustKeepStep == TextInv /\ RustKeep => TextInv'
<1> SUFFICES ASSUME TextInv, RustKeep PROVE TextInv'
  OBVIOUS
<1>1. edits' \in 0..MaxEdits
  BY InvLines DEF RustKeep
<1>2. QED
  BY <1>1, SecretWritten DEF RustKeep

\* The number of changes stays within its bound.
LEMMA EditsBounded ==
  ASSUME TextInv, edits < MaxEdits, edits' = edits + 1
  PROVE  edits' \in 0..MaxEdits
BY InvLines, EditsTyped

LEMMA RustRekeyStep == TextInv /\ RustRekey => TextInv'
<1> SUFFICES ASSUME TextInv, RustRekey PROVE TextInv'
  OBVIOUS
<1>1. edits' \in 0..MaxEdits
  BY EditsBounded DEF RustRekey
<1>2. QED
  BY <1>1, SecretWritten DEF RustRekey

LEMMA TwoLines ==
  ASSUME NEW x \in LineType, NEW y \in LineType
  PROVE  /\ <<x>> \o <<y>> = <<x, y>>
         /\ SubSeq(<<x, y>>, 1, 2) = <<x, y>>
<1> DEFINE l == <<x, y>>
<1>1. l \in Seq(LineType) /\ Len(l) = 2
  OBVIOUS
<1>2. <<x>> \o <<y>> = l
  <2>1. <<x>> \in Seq(LineType) /\ <<y>> \in Seq(LineType)
    OBVIOUS
  <2>2. Len(<<x>> \o <<y>>) = 2 /\ (<<x>> \o <<y>>)[1] = x /\ (<<x>> \o <<y>>)[2] = y
    BY <2>1
  <2> DEFINE j == <<x>> \o <<y>>
  <2>3. j \in Seq(LineType)
    BY <2>1
  <2>4. Len(j) = Len(l) /\ \A i \in 1..Len(j) : j[i] = l[i]
    BY <2>2
  <2> HIDE DEF j, l
  <2>5. j = l
    BY <1>1, <2>3, <2>4
  <2>6. QED
    BY <2>5 DEF j
<1> HIDE DEF l
<1>3. SubSeq(l, 1, 2) = l
  BY <1>1
<1>4. QED
  BY <1>2, <1>3, Zenon DEF l

LEMMA CSignStep == TextInv /\ CSign => TextInv'
<1> SUFFICES ASSUME TextInv, CSign PROVE TextInv'
  OBVIOUS
<1>1. edits' \in 0..MaxEdits
  BY InvLines DEF CSign
<1>2. PICK u \in Comments \union {NoComment}, t \in Comments \union {NoComment},
           asserts \in BOOLEAN :
         LET a == CGiven(u, Default)
             b == CGiven(t, Default)
             lines == SignatureFile(a, b)
             start == CommentLines("untrusted", a) \o <<SigLine>>
             end == CommentLines("trusted", b) \o <<GlobalLine(b)>>
             begun == Printed(lines[1]) /\ (asserts => OneLine(a))
         IN
         \/ /\ begun /\ Printed(lines[3]) /\ (asserts => OneLine(b))
            /\ file' = start \o end
            /\ made' = IF file' = lines THEN [by |-> "c", lines |-> lines]
                                        ELSE [by |-> "failure"]
         \/ /\ begun /\ ~Printed(lines[3])
            /\ file' = start /\ made' = [by |-> "failure"]
         \/ /\ begun /\ Printed(lines[3]) /\ asserts /\ ~OneLine(b)
            /\ \E k \in 0..2 : file' = SubSeq(start, 1, k)
            /\ made' = [by |-> "failure"]
         \/ /\ ~begun
            /\ file' = <<>> /\ made' = [by |-> "failure"]
  BY Zenon DEF CSign
<1> DEFINE a == CGiven(u, Default)
           b == CGiven(t, Default)
           lines == SignatureFile(a, b)
           start == CommentLines("untrusted", a) \o <<SigLine>>
           end == CommentLines("trusted", b) \o <<GlobalLine(b)>>
<1>3. IsComment(a) /\ IsComment(b)
  BY TypedComments, DefaultFits
<1>4. lines[1].text = a /\ lines[3].text = b /\ Len(lines) = 4
  BY DEF SignatureFile, CommentLine
<1>5. SigLine.text \notin {KeyLine.text, SecretLine.text}
  BY DEF SigLine, KeyLine, SecretLine, Base64Line, Plain
<1>6. Clean(<<SigLine>>) /\ Clean(<<GlobalLine(b)>>)
  BY <1>3, LineTyped, FixedTyped DEF Clean
<1>7. LinesOK(start)
  BY <1>3, <1>5, <1>6, CommentedOK
<1>8. Clean(end)
  BY <1>3, <1>6, CommentLinesClean, CleanJoin
<1>9. CASE /\ Printed(lines[3]) /\ file' = start \o end
           /\ made' = IF file' = lines THEN [by |-> "c", lines |-> lines]
                                       ELSE [by |-> "failure"]
  <2> DEFINE rest == <<SigLine>> \o end
  <2>1. Clean(rest) /\ Len(rest) >= 1 /\ rest[1] = SigLine
    <3>1. Clean(rest)
      BY <1>6, <1>8, CleanJoin
    <3>2. Len(end) \in Nat /\ end \in Seq(LineType)
      BY <1>8 DEF Clean
    <3> HIDE DEF end
    <3>3. QED
      BY <3>1, <3>2
  <2>2. start \o end = CommentLines("untrusted", a) \o rest
    <3>1. CommentLines("untrusted", a) \in Seq(LineType) /\ end \in Seq(LineType)
      BY <1>3, <1>8, CommentLinesClean DEF Clean
    <3>2. SigLine \in LineType
      BY FixedTyped
    <3> HIDE DEF end
    <3>3. QED
      BY <3>1, <3>2
  <2>3. LinesOK(file)'
    BY <1>3, <1>5, <1>9, <2>1, <2>2, CommentedOK
  <2>4. CLines(lines)
    BY <1>3, <1>4, <1>9 DEF CLines, IsComment
  <2>5. MadeInv'
    BY <1>9, <2>4 DEF MadeInv
  <2>6. QED
    BY <1>1, <2>3, <2>5, LinesInv
<1>10. CASE file' = start /\ made' = [by |-> "failure"]
  BY <1>1, <1>7, <1>10, LinesInv DEF MadeInv
<1>11. CASE /\ OneLine(a) /\ made' = [by |-> "failure"]
            /\ \E k \in 0..2 : file' = SubSeq(start, 1, k)
  <2>1. PICK k \in 0..2 : file' = SubSeq(start, 1, k)
    BY <1>11
  <2>2. CommentLines("untrusted", a) = <<CommentLine("untrusted", a)>>
    BY <1>11, Zenon DEF OneLine, CommentLines
  <2>3. start = <<CommentLine("untrusted", a), SigLine>>
    <3> DEFINE first == CommentLine("untrusted", a)
    <3>1. start = <<first>> \o <<SigLine>>
      BY <2>2
    <3>2. first \in LineType /\ SigLine \in LineType
      BY <1>3, LineTyped, FixedTyped
    <3> HIDE DEF start, first
    <3>3. start = <<first, SigLine>>
      BY <3>1, <3>2, TwoLines, Zenon
    <3>4. QED
      BY <3>3, Zenon DEF first
  <2>4. LinesOK(SubSeq(start, 1, k))
    <3> HIDE DEF a, start
    <3> DEFINE first == CommentLine("untrusted", a)
    <3>1. Len(start) = 2 /\ start[2] = SigLine /\ SubSeq(start, 1, 2) = start
      <4>1. first \in LineType /\ SigLine \in LineType
        BY <1>3, LineTyped, FixedTyped
      <4> HIDE DEF first
      <4>2. start = <<first, SigLine>>
        BY <2>3, Zenon DEF first
      <4>3. SubSeq(start, 1, 2) = start
        BY <4>1, <4>2, TwoLines, Zenon
      <4>4. QED
        BY <4>2, <4>3
    <3>2. CASE k = 2
      BY <1>7, <3>1, <3>2, Zenon
    <3>3. CASE k # 2
      <4>1. k \in 0..Len(start) /\ k < Len(start)
        BY <3>1, <3>3
      <4>2. start[2].text \notin {KeyLine.text, SecretLine.text}
        BY <1>5, <3>1, Zenon
      <4>3. QED
        BY <1>7, <4>1, <4>2, HeadOK, Zenon
    <3>4. QED
      BY <3>2, <3>3
  <2>5. QED
    BY <1>1, <1>11, <2>1, <2>4, LinesInv DEF MadeInv
<1>12. CASE file' = <<>> /\ made' = [by |-> "failure"]
  BY <1>1, <1>12, NoLinesOK, LinesInv DEF MadeInv
<1>13. QED
  BY <1>2, <1>9, <1>10, <1>11, <1>12

LEMMA CPublishStep == TextInv /\ CPublish => TextInv'
<1> SUFFICES ASSUME TextInv, CPublish PROVE TextInv'
  OBVIOUS
<1>1. LinesOK(file)'
  BY TypedComments, KeyOK DEF CPublish, PublicKeyFile
<1>2. MadeInv'
  BY DEF CPublish, MadeInv, CLines
<1>3. edits' \in 0..MaxEdits
  BY InvLines DEF CPublish
<1>4. QED
  BY <1>1, <1>2, <1>3, LinesInv

LEMMA CKeepStep == TextInv /\ CKeep => TextInv'
<1> SUFFICES ASSUME TextInv, CKeep PROVE TextInv'
  OBVIOUS
<1>1. edits' \in 0..MaxEdits
  BY InvLines DEF CKeep
<1>2. PICK u \in Comments \union {NoComment} :
         LET a == CGiven(u, Plain(29, "secret"))
             lines == SecretKeyFile(a)
         IN
         \/ /\ Printed(lines[1]) /\ a.mark # "lf"
            /\ file' = lines /\ made' = [by |-> "c", lines |-> lines]
         \/ /\ Printed(lines[1]) /\ a.mark = "lf"
            /\ file' = CommentLines("untrusted", a) \o <<SecretLine>>
            /\ made' = [by |-> "failure"]
         \/ /\ ~Printed(lines[1])
            /\ file' = <<>> /\ made' = [by |-> "failure"]
  BY Zenon DEF CKeep
<1> DEFINE a == CGiven(u, Plain(29, "secret"))
<1>3. IsComment(a)
  BY TypedComments DEF SecretComments
<1> HIDE DEF a
<1>4. CASE a.mark # "lf" /\ file' = SecretKeyFile(a) /\ made' = [by |-> "c", lines |-> file']
  <2>1. LinesOK(file)'
    BY <1>3, <1>4, KeyOK DEF SecretKeyFile
  <2>2. file'[1] = CommentLine("untrusted", a) /\ Len(file') = 2
    BY <1>4 DEF SecretKeyFile
  <2>3. CLines(file')
    BY <1>3, <1>4, <2>2 DEF CLines, SecretKeyFile, CommentLine, IsComment
  <2>4. MadeInv'
    BY <1>4, <2>3 DEF MadeInv
  <2>5. QED
    BY <1>1, <2>1, <2>4, LinesInv
<1>5. CASE /\ a.mark = "lf" /\ made' = [by |-> "failure"]
           /\ file' = CommentLines("untrusted", a) \o <<SecretLine>>
  <2>1. Clean(<<SecretLine>>)
    BY FixedTyped DEF Clean
  <2>2. LinesOK(CommentLines("untrusted", a) \o <<SecretLine>>)
    <3> DEFINE m == <<SecretLine>>
    <3>1. Len(m) >= 1
      OBVIOUS
    <3> HIDE DEF m
    <3>2. Clean(m) => LinesOK(CommentLines("untrusted", a) \o m)
      BY <1>3, <1>5, <3>1, CommentedOK, Zenon
    <3>3. QED
      BY <2>1, <3>2, Zenon DEF m
  <2>3. LinesOK(file)'
    BY <1>5, <2>2
  <2>4. QED
    BY <1>1, <1>5, <2>3, LinesInv DEF MadeInv
<1>6. CASE file' = <<>> /\ made' = [by |-> "failure"]
  BY <1>1, <1>6, NoLinesOK, LinesInv DEF MadeInv
<1>7. QED
  BY <1>2, <1>4, <1>5, <1>6 DEF a

LEMMA CRekeyStep == TextInv /\ CRekey => TextInv'
<1> SUFFICES ASSUME TextInv, CRekey PROVE TextInv'
  OBVIOUS
<1>1. edits' \in 0..MaxEdits
  BY EditsBounded DEF CRekey
<1> DEFINE head == [file[1] EXCEPT !.end = "lf"]
           a == file[1].text
           kind == file[1].kind
<1>2. /\ Len(file) >= 2 /\ Bytes(file[1]) <= 1023 /\ file' = <<head, SecretLine>>
      /\ made' = [by |-> "c", lines |-> file']
  BY DEF CRekey, CReadsSecret, COMMENTMAXBYTES
<1>3. /\ file[1] \in LineType /\ IsComment(a) /\ a.mark # "lf" /\ file[1].end \in {"lf", "crlf"}
      /\ kind \in {"untrusted", "bare"}
  BY <1>2, InvLines DEF LinesOK
<1>4. head = CommentLine(kind, a)
  BY <1>3 DEF LineType, CommentLine
<1>5. LinesOK(file)'
  BY <1>2, <1>3, <1>4, KeyOK
<1>6. kind = "bare" => Bytes(CommentLine(kind, a)) < COMMENTMAXBYTES
  <2>1. a.len \in Nat
    BY <1>3 DEF IsComment, CommentType
  <2>2. kind = "bare" => a.len + 1 <= 1023
    BY <1>2, <1>3, <2>1 DEF Bytes, Prefix, Ending
  <2>3. QED
    BY <2>1, <2>2 DEF Bytes, Prefix, Ending, CommentLine, COMMENTMAXBYTES
<1> HIDE DEF head
<1>7. Len(file') = 2 /\ file'[1] = CommentLine(kind, a) /\ file'[2] = SecretLine
  BY <1>2, <1>4
<1>8. CLines(file')
  BY <1>2, <1>3, <1>4, <1>6, <1>7 DEF CLines, CommentLine, IsComment
<1>9. MadeInv'
  BY <1>2, <1>8 DEF MadeInv
<1>10. QED
  BY <1>1, <1>5, <1>9, LinesInv

-----------------------------------------------------------------------------
(* What happens on the way: each kind of edit keeps the lines what they    *)
(* are.                                                                    *)

LEMMA WithEnd ==
  ASSUME NEW line \in LineType, NEW end \in Ends
  PROVE  LET new == [line EXCEPT !.end = end]
         IN  new \in LineType /\ new.kind = line.kind /\ new.text = line.text /\ new.end = end
BY DEF LineType

\* Only the ends of lines change.
LEMMA EndsOnly ==
  ASSUME LinesOK(file), NEW new \in Seq(LineType), Len(new) = Len(file),
         \A i \in 1..Len(file) :
            /\ new[i].kind = file[i].kind /\ new[i].text = file[i].text
            /\ new[i].end \in {"lf", "crlf"} \/ (i = Len(file) /\ new[i].end \in {"none", "cr"})
  PROVE  LinesOK(new)
BY DEF LinesOK

LEMMA ConvertOK ==
  ASSUME LinesOK(file), NEW from \in {"lf", "crlf"}, NEW to \in {"lf", "crlf"},
         ConvertEnds(from, to)
  PROVE  LinesOK(file)'
<1> DEFINE new == [i \in 1..Len(file) |->
                     IF file[i].end = from THEN [file[i] EXCEPT !.end = to] ELSE file[i]]
<1>1. DOMAIN file = 1..Len(file) /\ Len(file) \in Nat /\ \A i \in 1..Len(file) : file[i] \in LineType
  BY DEF LinesOK
<1>2. file' = new
  BY <1>1 DEF ConvertEnds
<1>3. \A i \in 1..Len(file) :
         /\ new[i] \in LineType /\ new[i].kind = file[i].kind /\ new[i].text = file[i].text
         /\ new[i].end \in {to, file[i].end}
  <2>1. to \in Ends
    BY DEF Ends
  <2>2. SUFFICES ASSUME NEW i \in 1..Len(file)
                 PROVE  /\ new[i] \in LineType /\ new[i].kind = file[i].kind
                        /\ new[i].text = file[i].text /\ new[i].end \in {to, file[i].end}
    OBVIOUS
  <2>3. CASE file[i].end = from
    BY <1>1, <2>1, <2>3, WithEnd
  <2>4. CASE file[i].end # from
    BY <1>1, <2>4
  <2>5. QED
    BY <2>3, <2>4
<1>4. new \in Seq(LineType) /\ Len(new) = Len(file)
  BY <1>1, <1>3
<1> HIDE DEF new
<1>5. LinesOK(new)
  BY <1>3, <1>4, EndsOnly DEF LinesOK
<1>6. QED
  BY <1>2, <1>5

\* One line is replaced.
LEMMA Replaced ==
  ASSUME NEW l \in Seq(LineType), NEW k \in 1..Len(l), NEW line \in LineType
  PROVE  LET new == [l EXCEPT ![k] = line]
         IN  /\ new \in Seq(LineType) /\ Len(new) = Len(l) /\ new[k] = line
             /\ \A i \in 1..Len(l) : i # k => new[i] = l[i]
OBVIOUS

LEMMA EndOfFinal ==
  ASSUME LinesOK(file), file # <<>>, NEW end \in Ends
  PROVE  LinesOK([file EXCEPT ![Len(file)] = [file[Len(file)] EXCEPT !.end = end]])
<1> DEFINE k == Len(file)
           line == [file[k] EXCEPT !.end = end]
           new == [file EXCEPT ![k] = line]
<1>1. file \in Seq(LineType) /\ k \in 1..Len(file) /\ file[k] \in LineType
  BY DEF LinesOK
<1>2. line \in LineType /\ line.kind = file[k].kind /\ line.text = file[k].text /\ line.end = end
  BY <1>1, WithEnd
<1> HIDE DEF line
<1>3. /\ new \in Seq(LineType) /\ Len(new) = Len(file) /\ new[k] = line
      /\ \A i \in 1..Len(file) : i # k => new[i] = file[i]
  BY <1>1, <1>2, Replaced
<1> HIDE DEF new
<1>4. \A i \in 1..Len(file) :
         /\ new[i].kind = file[i].kind /\ new[i].text = file[i].text
         /\ new[i].end \in {"lf", "crlf"} \/ (i = Len(file) /\ new[i].end \in {"none", "cr"})
  BY <1>2, <1>3 DEF LinesOK, Ends
<1>5. LinesOK(new)
  BY <1>3, <1>4, EndsOnly
<1>6. QED
  BY <1>5 DEF new, line

LEMMA ChopOK ==
  ASSUME LinesOK(file), file # <<>>, ChopEnd
  PROVE  LinesOK(file)'
<1> DEFINE end == IF file[Final].end = "crlf" THEN "cr" ELSE "none"
<1>1. file' = [file EXCEPT ![Len(file)] = [file[Len(file)] EXCEPT !.end = end]]
  BY DEF ChopEnd, Final, LinesOK
<1>2. end \in Ends
  BY DEF Ends
<1> HIDE DEF end
<1>3. QED
  BY <1>1, <1>2, EndOfFinal

LEMMA AddOK ==
  ASSUME LinesOK(file), file # <<>>, AddLf
  PROVE  LinesOK(file)'
<1>1. file \in Seq(LineType) /\ Len(file) \in 1..Len(file) /\ Len(file) \in Nat
  BY DEF LinesOK
<1>2. CASE file[Final].end = "none"
  <2>1. file' = [file EXCEPT ![Len(file)] = [file[Len(file)] EXCEPT !.end = "lf"]]
    BY <1>1, <1>2 DEF AddLf, Final
  <2>2. QED
    BY <2>1, EndOfFinal DEF Ends
<1>3. CASE file[Final].end = "cr"
  <2>1. file' = [file EXCEPT ![Len(file)] = [file[Len(file)] EXCEPT !.end = "crlf"]]
    BY <1>1, <1>3 DEF AddLf, Final
  <2>2. QED
    BY <2>1, EndOfFinal DEF Ends
<1>4. CASE file[Final].end \notin {"none", "cr"}
  <2> DEFINE blank == CommentLine("blank", Empty)
  <2>1. file' = Append(file, blank)
    BY <1>4 DEF AddLf
  <2>2. IsComment(Empty) /\ Empty.mark = "plain"
    BY DEF IsComment, Empty, Plain, CommentType, Marks, Words
  <2>3. blank \in LineType /\ blank.kind = "blank" /\ blank.text = Empty /\ blank.end = "lf"
    BY <2>2, LineTyped DEF CommentLine
  <2> HIDE DEF blank
  <2>4. /\ file' \in Seq(LineType) /\ Len(file') = Len(file) + 1
        /\ file'[Len(file) + 1] = blank /\ \A i \in 1..Len(file) : file'[i] = file[i]
    BY <1>1, <2>1, <2>3
  <2>5. \A i \in 1..Len(file') : i \in 1..Len(file) \/ i = Len(file) + 1
    BY <1>1, <2>4
  <2>6. \A i \in 1..Len(file) : file[i].end \in {"lf", "crlf"}
    BY <1>4 DEF LinesOK, Final
  <2>7. \A i \in 1..Len(file') :
           /\ IsComment(file'[i].text) /\ file'[i].text.mark # "lf"
           /\ file'[i].end \in {"lf", "crlf"}
    BY <2>2, <2>3, <2>4, <2>5, <2>6 DEF LinesOK
  <2>8. file'[1].kind \in {"untrusted", "bare"}
    BY <1>1, <2>4 DEF LinesOK
  <2>9. ASSUME Len(file') >= 2, file'[2].kind = "base64",
               file'[2].text \in {KeyLine.text, SecretLine.text}
        PROVE  \A i \in 1..Len(file') : i > 2 => file'[i].kind = "blank" /\ file'[i].text = Empty
    <3>1. Len(file) # 1
      BY <2>3, <2>4, <2>9
    <3>2. Len(file) >= 2 /\ file'[2] = file[2]
      <4>1. Len(file) \in Nat /\ Len(file) >= 1 /\ Len(file) # 1
        BY <1>1, <3>1
      <4>2. 2 \in 1..Len(file)
        BY <4>1
      <4>3. QED
        BY <2>4, <4>2
    <3>3. \A i \in 1..Len(file) : i > 2 => file[i].kind = "blank" /\ file[i].text = Empty
      BY <2>9, <3>2 DEF LinesOK
    <3>4. QED
      BY <2>3, <2>4, <2>5, <3>3
  <2>10. QED
    BY <2>4, <2>7, <2>8, <2>9 DEF LinesOK
<1>5. QED
  BY <1>2, <1>3, <1>4

LEMMA WithText ==
  ASSUME NEW line \in LineType, NEW c \in CommentType
  PROVE  LET new == [line EXCEPT !.text = c]
         IN  new \in LineType /\ new.kind = line.kind /\ new.text = c /\ new.end = line.end
BY DEF LineType

LEMMA Unprefixed ==
  ASSUME NEW line \in LineType, line.kind # "global"
  PROVE  LET new == [line EXCEPT !.kind = "bare"]
         IN  new \in LineType /\ new.kind = "bare" /\ new.text = line.text /\ new.end = line.end
BY DEF LineType

\* A line of comment becomes another one.
LEMMA CommentChanged ==
  ASSUME LinesOK(file), NEW k \in 1..Len(file), file[k].kind \in {"untrusted", "trusted", "bare"},
         NEW line \in LineType, line.kind \in {file[k].kind, "bare"}, line.end = file[k].end,
         IsComment(line.text), line.text.mark # "lf"
  PROVE  LinesOK([file EXCEPT ![k] = line])
<1> DEFINE new == [file EXCEPT ![k] = line]
<1>1. /\ new \in Seq(LineType) /\ Len(new) = Len(file) /\ new[k] = line
      /\ \A i \in 1..Len(file) : i # k => new[i] = file[i]
  BY Replaced DEF LinesOK
<1> HIDE DEF new
<1>2. \A i \in 1..Len(file) :
         /\ IsComment(new[i].text) /\ new[i].text.mark # "lf" /\ new[i].end = file[i].end
         /\ new[i].kind \in {file[i].kind, "bare"}
  BY <1>1 DEF LinesOK
<1>3. Len(file) >= 1 => new[1].kind \in {"untrusted", "bare"}
  BY <1>2 DEF LinesOK
<1>4. ASSUME Len(file) >= 2, new[2].kind = "base64", new[2].text \in {KeyLine.text, SecretLine.text}
      PROVE  \A i \in 1..Len(file) : i > 2 => new[i].kind = "blank" /\ new[i].text = Empty
  <2>1. k # 2
    BY <1>1, <1>4
  <2>2. new[2] = file[2]
    BY <1>1, <1>4, <2>1 DEF LinesOK
  <2>3. \A i \in 1..Len(file) : i > 2 => file[i].kind = "blank" /\ file[i].text = Empty
    BY <1>4, <2>2 DEF LinesOK
  <2>4. QED
    BY <1>1, <2>3
<1>5. LinesOK(new)
  BY <1>1, <1>2, <1>3, <1>4 DEF LinesOK
<1>6. QED
  BY <1>5 DEF new

LEMMA RewordOK ==
  ASSUME LinesOK(file), Reword
  PROVE  LinesOK(file)'
<1>1. PICK k \in DOMAIN file, c \in {d \in Comments : d.mark # "lf"} :
         /\ file[k].kind \in {"untrusted", "trusted", "bare"}
         /\ file' = [file EXCEPT ![k].text = c]
  BY DEF Reword
<1> DEFINE line == [file[k] EXCEPT !.text = c]
<1>2. k \in 1..Len(file) /\ file[k] \in LineType /\ IsComment(c) /\ c.mark # "lf"
  BY <1>1, CommentsTyped DEF LinesOK
<1>3. line \in LineType /\ line.kind = file[k].kind /\ line.text = c /\ line.end = file[k].end
  BY <1>2, WithText DEF IsComment
<1>4. file' = [file EXCEPT ![k] = line]
  BY <1>1
<1> HIDE DEF line
<1>5. QED
  BY <1>1, <1>2, <1>3, <1>4, CommentChanged

LEMMA DropOK ==
  ASSUME LinesOK(file), DropPrefix
  PROVE  LinesOK(file)'
<1>1. PICK k \in DOMAIN file :
         /\ file[k].kind \in {"untrusted", "trusted"}
         /\ file' = [file EXCEPT ![k].kind = "bare"]
  BY DEF DropPrefix
<1> DEFINE line == [file[k] EXCEPT !.kind = "bare"]
<1>2. /\ k \in 1..Len(file) /\ file[k] \in LineType
      /\ IsComment(file[k].text) /\ file[k].text.mark # "lf"
  BY <1>1 DEF LinesOK
<1>3. line \in LineType /\ line.kind = "bare" /\ line.text = file[k].text /\ line.end = file[k].end
  BY <1>1, <1>2, Unprefixed
<1>4. file' = [file EXCEPT ![k] = line]
  BY <1>1
<1> HIDE DEF line
<1>5. file[k].kind \in {"untrusted", "trusted", "bare"}
  BY <1>1
<1>6. IsComment(line.text) /\ line.text.mark # "lf"
  BY <1>2, <1>3
<1>7. QED
  BY <1>2, <1>3, <1>4, <1>5, <1>6, CommentChanged

LEMMA EditStep == TextInv /\ Edit => TextInv'
<1> SUFFICES ASSUME TextInv, Edit PROVE TextInv'
  OBVIOUS
<1>1. LinesOK(file) /\ file # <<>> /\ made' = made /\ edits' \in 0..MaxEdits
  BY InvLines, EditsBounded DEF Edit
<1>2. MadeInv'
  BY <1>1, InvLines DEF MadeInv, Edit
<1>3. LinesOK(file)'
  BY <1>1, ConvertOK, ChopOK, AddOK, RewordOK, DropOK DEF Edit
<1>4. QED
  BY <1>1, <1>2, <1>3, LinesInv

-----------------------------------------------------------------------------
THEOREM TextInvariant == Spec => []TextInv
<1>1. Init => TextInv
  BY EditsTyped, NoLinesOK DEF Init, TextInv, TextTypeOK, HeadInv, TailInv, MadeInv, Nobody
<1>2. TextInv /\ [Next]_vars => TextInv'
  <2>1. TextInv /\ Next => TextInv'
    BY RustSignStep, RustPublishStep, RustKeepStep, RustRekeyStep, CSignStep, CPublishStep,
       CKeepStep, CRekeyStep, EditStep DEF Next
  <2>2. TextInv /\ UNCHANGED vars => TextInv'
    BY DEF vars, TextInv, TextTypeOK, Final, HeadInv, TailInv, MadeInv
  <2>3. QED
    BY <2>1, <2>2
<1>3. QED
  BY <1>1, <1>2, PTL DEF Spec

(***************************************************************************)
(* A file is lines of comment, base64 or nothing, and none has a line feed *)
(* in it: this program writes no comment with one, and the one that C      *)
(* writes is two lines.                                                    *)
(***************************************************************************)
THEOREM TextTypeCorrect == Spec => []TextTypeOK
<1>1. TextInv => TextTypeOK
  BY DEF TextInv
<1>2. QED
  BY <1>1, TextInvariant, PTL

(***************************************************************************)
(* What either program writes both can read, whatever becomes of the line  *)
(* ends, but for the exceptions that WrittenIsRead names: for comments of  *)
(* every length, and any number of changes.                                *)
(***************************************************************************)
THEOREM WrittenAlwaysRead == Spec => []WrittenIsRead
BY TextInvariant, InvWrittenIsRead, PTL

(***************************************************************************)
(* No signature verifies only with this program, and no key is read only   *)
(* by the C minisign, but for the exceptions that ReadersAgree names,      *)
(* whatever has been done to the file.                                     *)
(***************************************************************************)
THEOREM ReadersAlwaysAgree == Spec => []ReadersAgree
BY TextInvariant, InvReadersAgree, PTL

(***************************************************************************)
(* -I takes every key file that can be used for the kind of key it is, or  *)
(* refuses it because its comment names the other kind.                    *)
(***************************************************************************)
THEOREM KindAlwaysTold == Spec => []InspectTellsKind
BY TextInvariant, InvInspectTellsKind, PTL
=============================================================================
