------------------------------ MODULE FileText ------------------------------
(***************************************************************************)
(* The text of signature files, public key files and secret key files, as  *)
(* this program (rs/src/signature.rs, keys.rs, validation.rs) and the C    *)
(* minisign (src/minisign.c) write and read it, what an editor or a mailer *)
(* does to it in between, and what -I takes a file for                     *)
(* (rs/src/ops/inspect.rs).                                                *)
(*                                                                         *)
(* A file is a sequence of lines.  Lengths are the real ones, in bytes; of *)
(* the bytes of a comment only the worst one counts (its mark), and of its *)
(* words whether they name a kind of key.                                  *)
(***************************************************************************)
EXTENDS Naturals, Sequences

CONSTANTS
    Comments,   \* what a user may give as a comment, see IsComment
    NoComment,  \* no -c, no -t
    Default,    \* a signature's default comment, about a message with a plain name
    MaxEdits    \* bound on what happens to a file on its way

\* Visible or a tab; a control character but no CR, LF or NUL; a CR before other bytes;
\* a LF; not UTF-8.
Marks == {"plain", "control", "cr", "lf", "bytes"}

\* "secret key" is in it; else "public key" is; or neither.
Words == {"secret", "public", "nothing"}

CommentType == [len : Nat, mark : Marks, says : Words]

IsComment(c) ==
    /\ c \in CommentType
    /\ c.len = 0 => c.mark = "plain"
    /\ c.says # "nothing" => c.len >= 10 /\ c.mark = "plain"

Plain(len, says) == [len |-> len, mark |-> "plain", says |-> says]
Empty == Plain(0, "nothing")

ASSUME CommentsTyped == NoComment \notin Comments /\ \A c \in Comments : IsComment(c)
ASSUME DefaultFits == IsComment(Default) /\ Default.mark = "plain" /\ Default.len \in 1..1003
ASSUME EditsTyped == MaxEdits \in Nat

VARIABLES
    file,   \* the lines
    made,   \* who made it and what it says
    edits   \* how often it has been changed since

vars == <<file, made, edits>>

COMMENTMAXBYTES == 1024
TRUSTEDCOMMENTMAXBYTES == 8192
MAX_SIGNATURE_FILE_BYTES == 16384
MAX_KEY_FILE_BYTES == 4096

Nobody == [by |-> "nobody"]

\* How many bytes a line takes before its comment or base64, and to end it.
Prefix(kind) == CASE kind = "untrusted" -> 19 [] kind = "trusted" -> 17 [] OTHER -> 0
Ending(end) == CASE end = "crlf" -> 2 [] end = "none" -> 0 [] OTHER -> 1

CommentLine(kind, c) == [kind |-> kind, text |-> c, end |-> "lf"]

\* The length of a base64 line tells the three structures apart.
Base64Line(len) == [kind |-> "base64", text |-> Plain(len, "nothing"), end |-> "lf"]
SigLine == Base64Line(100)
KeyLine == Base64Line(56)
SecretLine == Base64Line(212)

\* The global signature is ideal: it is known by what it is over.
GlobalLine(trusted) ==
    [kind |-> "global", text |-> Plain(88, "nothing"), over |-> trusted, end |-> "lf"]

SignatureFile(untrusted, trusted) ==
    <<CommentLine("untrusted", untrusted), SigLine,
      CommentLine("trusted", trusted), GlobalLine(trusted)>>

PublicKeyFile(untrusted) == <<CommentLine("untrusted", untrusted), KeyLine>>
SecretKeyFile(untrusted) == <<CommentLine("untrusted", untrusted), SecretLine>>

\* "minisign public key <16 digits>", "minisign secret key", "minisign encrypted secret key"
PublicComment == Plain(36, "public")
SecretComments == {Plain(19, "secret"), Plain(29, "secret")}

Bytes(line) == Prefix(line.kind) + line.text.len + Ending(line.end)
FileBytes(lines) ==
    LET upTo[i \in 0..Len(lines)] == IF i = 0 THEN 0 ELSE upTo[i - 1] + Bytes(lines[i])
    IN upTo[Len(lines)]

Init == file = <<>> /\ made = Nobody /\ edits = 0

-----------------------------------------------------------------------------
(* This program                                                            *)

\* Bug: line feeds are let through.
PrintableLines(c) == c.mark \in {"plain", "lf"}

\* is_printable, on what is UTF-8 already.
Printable(c) == c.mark = "plain"

\* Bug: one byte too many.
UntrustedOneMore(c) == Printable(c) /\ c.len <= COMMENTMAXBYTES - 20

\* validate_untrusted_comment, validate_trusted_comment: prefix and NUL are counted.
ValidUntrusted(c) == Printable(c) /\ c.len < COMMENTMAXBYTES - 20
ValidTrusted(c) == Printable(c) /\ c.len < TRUSTEDCOMMENTMAXBYTES - 18

Given(c, default) == IF c = NoComment THEN default ELSE c

\* Arguments that are not UTF-8 do not get past the command line.
Arguments == {c \in Comments : c.mark # "bytes"} \union {NoComment}

\* create_signature and to_file_contents: nothing is written unless both are valid.
RustSign ==
    /\ made = Nobody
    /\ \E u, t \in Arguments :
          /\ ValidUntrusted(Given(u, Default)) /\ ValidTrusted(Given(t, Default))
          /\ file' = SignatureFile(Given(u, Default), Given(t, Default))
          /\ made' = [by |-> "rust", lines |-> file']
    /\ UNCHANGED edits

\* generate and recreate_with_key: an empty comment is refused.
RustPublish ==
    /\ made = Nobody
    /\ \E u \in Arguments :
          /\ Given(u, PublicComment).len # 0 /\ ValidUntrusted(Given(u, PublicComment))
          /\ file' = PublicKeyFile(Given(u, PublicComment))
          /\ made' = [by |-> "rust", lines |-> file']
    /\ UNCHANGED edits

\* generate: the comment of a secret key is not for the user to choose.
RustKeep ==
    /\ made = Nobody
    /\ \E u \in SecretComments :
          file' = SecretKeyFile(u) /\ made' = [by |-> "rust", lines |-> file']
    /\ UNCHANGED edits

\* read_file_bounded: the size, and the text has to be UTF-8.
Utf8Within(lines, max) ==
    FileBytes(lines) <= max /\ \A i \in DOMAIN lines : lines[i].text.mark # "bytes"

\* str::lines keeps a CR that no LF follows, and base64 does not take it.
Decodes(line, like) == line.text = like.text /\ line.kind = like.kind /\ line.end # "cr"

\* Bug: the prefix of the trusted comment is not asked for.
ParsedAnyPrefix(lines) ==
    /\ Utf8Within(lines, MAX_SIGNATURE_FILE_BYTES)
    /\ Len(lines) = 4
    /\ lines[1].kind = "untrusted" /\ ValidUntrusted(lines[1].text)
    /\ Decodes(lines[2], SigLine)
    /\ lines[3].kind \in {"trusted", "bare"} /\ ValidTrusted(lines[3].text)
    /\ Decodes(lines[4], GlobalLine(lines[3].text))

\* load_signature, SignatureBox::from_file_contents: all that -I -x asks for.
Parsed(lines) ==
    /\ Utf8Within(lines, MAX_SIGNATURE_FILE_BYTES)
    /\ Len(lines) = 4
    /\ lines[1].kind = "untrusted" /\ ValidUntrusted(lines[1].text)
    /\ Decodes(lines[2], SigLine)
    /\ lines[3].kind = "trusted" /\ ValidTrusted(lines[3].text)
    /\ Decodes(lines[4], GlobalLine(lines[3].text))

\* verify_global_signature
RustReadsSignature(lines) == Parsed(lines) /\ lines[4].over = lines[3].text

\* load_public_key, PubkeyStruct::from_file_contents: the comment may be anything.
RustReadsKey(lines) ==
    Utf8Within(lines, MAX_KEY_FILE_BYTES) /\ Len(lines) >= 2 /\ Decodes(lines[2], KeyLine)

\* load_secret_key, SeckeyStruct::from_file_contents: here too.
RustReadsSecret(lines) ==
    Utf8Within(lines, MAX_KEY_FILE_BYTES) /\ Len(lines) >= 2 /\ Decodes(lines[2], SecretLine)

\* change: a secret key gets the comment of its new kind.
RustRekey ==
    /\ RustReadsSecret(file) /\ edits < MaxEdits /\ edits' = edits + 1
    /\ \E u \in SecretComments : file' = SecretKeyFile(u)
    /\ made' = [by |-> "rust", lines |-> file']

\* The kind of key that the comment names.
sniff_key_file_type(lines) ==
    IF lines # <<>> /\ lines[1].kind = "untrusted" THEN lines[1].text.says ELSE "nothing"

\* Bug: the second parser is forgotten.
InspectedAsSecret(lines) ==
    LET says == sniff_key_file_type(lines) IN
    CASE says # "public" /\ RustReadsSecret(lines) -> "secret"
      [] says = "public" /\ RustReadsKey(lines) -> "public"
      [] OTHER -> "refused"

\* inspect: the comment chooses the parser; if it names no kind, both are tried.
Inspected(lines) ==
    LET says == sniff_key_file_type(lines) IN
    CASE says # "public" /\ RustReadsSecret(lines) -> "secret"
      [] says # "secret" /\ RustReadsKey(lines) -> "public"
      [] OTHER -> "refused"

-----------------------------------------------------------------------------
(* The C minisign                                                          *)

CGiven(c, default) == IF c \in {NoComment, Empty} THEN default ELSE c

OneLine(c) == c.mark \notin {"cr", "lf"}

\* xfprintf formats a line in 4096 bytes or ends the program.
Printed(line) == Bytes(line) < 4096

\* What a comment comes to in the file: a line feed in it makes it two lines.
CommentLines(kind, c) ==
    LET half == [c EXCEPT !.len = @ \div 2, !.mark = "plain"] IN
    IF c.mark = "lf" THEN <<CommentLine(kind, half), CommentLine("bare", half)>>
    ELSE <<CommentLine(kind, c)>>

\* sign, without -p.  The file is opened first, and what stops the program, an
\* assertion or xfprintf, leaves what was written before; after an abort some of it, by
\* whole lines here, is still in a buffer.  CMake's MinSizeRel builds without the
\* assertions (NDEBUG), its Debug with them.  A long untrusted comment is only warned
\* of; a trusted one too long for TRUSTEDCOMMENTMAXBYTES has stopped xfprintf already.
CSign ==
    /\ made = Nobody
    /\ \E u, t \in Comments \union {NoComment}, asserts \in BOOLEAN :
          LET untrusted == CGiven(u, Default)
              trusted == CGiven(t, Default)
              lines == SignatureFile(untrusted, trusted)
              start == CommentLines("untrusted", untrusted) \o <<SigLine>>
              end == CommentLines("trusted", trusted) \o <<GlobalLine(trusted)>>
              begun == Printed(lines[1]) /\ (asserts => OneLine(untrusted))
          IN
          \/ /\ begun /\ Printed(lines[3]) /\ (asserts => OneLine(trusted))
             /\ file' = start \o end
             /\ made' = IF file' = lines THEN [by |-> "c", lines |-> lines]
                                         ELSE [by |-> "failure"]
          \/ /\ begun /\ ~Printed(lines[3])
             /\ file' = start /\ made' = [by |-> "failure"]
          \/ /\ begun /\ Printed(lines[3]) /\ asserts /\ ~OneLine(trusted)
             /\ \E k \in 0..2 : file' = SubSeq(start, 1, k)
             /\ made' = [by |-> "failure"]
          \/ /\ ~begun
             /\ file' = <<>> /\ made' = [by |-> "failure"]
    /\ UNCHANGED edits

\* write_pk_file: generate and recreate_pk take no comment for it.
CPublish ==
    /\ made = Nobody
    /\ file' = PublicKeyFile(PublicComment) /\ made' = [by |-> "c", lines |-> file']
    /\ UNCHANGED edits

\* generate: the user's comment goes to the secret key.  Nobody reads the file when it
\* makes two lines; nor is there anything in it after xfprintf fails.
CKeep ==
    /\ made = Nobody
    /\ \E u \in Comments \union {NoComment} :
          LET comment == CGiven(u, Plain(29, "secret"))
              lines == SecretKeyFile(comment)
          IN
          \/ /\ Printed(lines[1]) /\ comment.mark # "lf"
             /\ file' = lines /\ made' = [by |-> "c", lines |-> lines]
          \/ /\ Printed(lines[1]) /\ comment.mark = "lf"
             /\ file' = CommentLines("untrusted", comment) \o <<SecretLine>>
             /\ made' = [by |-> "failure"]
          \/ /\ ~Printed(lines[1])
             /\ file' = <<>> /\ made' = [by |-> "failure"]
    /\ UNCHANGED edits

\* fgets into a buffer of that size, and trim: the line has to be complete.
Trimmed(line, size) ==
    Bytes(line) <= size - 1 /\ line.end \in {"lf", "crlf"} /\ line.text.mark # "cr"

CPrintable(c) == c.mark = "plain"

\* sig_load and verify: the last line may end in any way, what follows is not read.
CReadsSignature(lines) ==
    /\ Len(lines) >= 4
    /\ Trimmed(lines[1], COMMENTMAXBYTES) /\ lines[1].kind = "untrusted"
    /\ Trimmed(lines[2], 103) /\ lines[2].text = SigLine.text
    /\ lines[3].kind = "trusted" /\ Trimmed(lines[3], TRUSTEDCOMMENTMAXBYTES)
    /\ CPrintable(lines[3].text)
    /\ lines[4].kind = "global" /\ Bytes(lines[4]) <= 91 - 1
    /\ lines[4].over = lines[3].text

\* pubkey_load_file: what fgets cuts off the comment is taken for the key.
CReadsKey(lines) ==
    /\ Len(lines) >= 2
    /\ Bytes(lines[1]) <= COMMENTMAXBYTES - 1
    /\ lines[2].kind = "base64" /\ lines[2].text = KeyLine.text /\ Bytes(lines[2]) <= 59 - 1

\* seckey_load: the same.
CReadsSecret(lines) ==
    /\ Len(lines) >= 2
    /\ Bytes(lines[1]) <= COMMENTMAXBYTES - 1
    /\ lines[2].kind = "base64" /\ lines[2].text = SecretLine.text
    /\ Bytes(lines[2]) <= 215 - 1

\* update_password: the first line stays, but for its end.
CRekey ==
    /\ CReadsSecret(file) /\ edits < MaxEdits /\ edits' = edits + 1
    /\ file' = <<[file[1] EXCEPT !.end = "lf"], SecretLine>>
    /\ made' = [by |-> "c", lines |-> file']

-----------------------------------------------------------------------------
(* On its way                                                              *)

Final == Len(file)

\* All lines end as on another system.
ConvertEnds(from, to) ==
    file' = [i \in DOMAIN file |->
               IF file[i].end = from THEN [file[i] EXCEPT !.end = to] ELSE file[i]]

\* The last byte is cut off.
ChopEnd ==
    /\ file[Final].kind # "blank" /\ file[Final].end # "none"
    /\ file' = [file EXCEPT ![Final].end = IF @ = "crlf" THEN "cr" ELSE "none"]

\* A line feed is added: it ends the last line or makes another one.
AddLf ==
    CASE file[Final].end = "none" -> file' = [file EXCEPT ![Final].end = "lf"]
      [] file[Final].end = "cr" -> file' = [file EXCEPT ![Final].end = "crlf"]
      [] OTHER -> file' = Append(file, CommentLine("blank", Empty))

Reword ==
    \E i \in DOMAIN file, c \in {d \in Comments : d.mark # "lf"} :
        file[i].kind \in {"untrusted", "trusted", "bare"} /\ file' = [file EXCEPT ![i].text = c]

DropPrefix ==
    \E i \in DOMAIN file :
        file[i].kind \in {"untrusted", "trusted"} /\ file' = [file EXCEPT ![i].kind = "bare"]

Edit ==
    /\ made # Nobody /\ file # <<>> /\ edits < MaxEdits /\ edits' = edits + 1
    /\ \/ ConvertEnds("lf", "crlf") \/ ConvertEnds("crlf", "lf")
       \/ ChopEnd \/ AddLf \/ Reword \/ DropPrefix
    /\ UNCHANGED made

Next ==
    \/ RustSign \/ RustPublish \/ RustKeep \/ RustRekey
    \/ CSign \/ CPublish \/ CKeep \/ CRekey
    \/ Edit

Spec == Init /\ [][Next]_vars

-----------------------------------------------------------------------------
Ends == {"lf", "crlf", "cr", "none"}

LineType ==
    [kind : {"untrusted", "trusted", "bare", "base64", "blank"}, text : CommentType, end : Ends]
    \union [kind : {"global"}, text : CommentType, over : CommentType, end : Ends]

\* No line has a line feed in it: this program writes no comment with one, and one that
\* C writes is two lines.
TextTypeOK ==
    /\ file \in Seq(LineType)
    /\ \A i \in DOMAIN file :
          /\ IsComment(file[i].text) /\ file[i].text.mark # "lf"
          /\ file[i].end \in {"lf", "crlf"} \union IF i = Final THEN {"none", "cr"} ELSE {}
    /\ made.by \in {"nobody", "rust", "c", "failure"}
    /\ edits \in 0..MaxEdits

\* Nothing but the line ends is different from what was written.
TextKept ==
    /\ made.by \in {"rust", "c"} /\ Len(file) = Len(made.lines)
    /\ \A i \in DOMAIN file : [file[i] EXCEPT !.end = "lf"] = made.lines[i]
    /\ file[Final].end # "cr"

\* A line that just fits C's buffer, but not with CR and LF.
CrAtLimit ==
    \E i \in DOMAIN file :
        /\ file[i].end = "crlf"
        /\ Bytes(file[i]) =
              IF file[i].kind = "trusted" THEN TRUSTEDCOMMENTMAXBYTES ELSE COMMENTMAXBYTES

\* What C writes although one of the two will not read it: an untrusted comment over
\* 1003 bytes, of which C warns in a signature only, and a comment that is not printable,
\* of which it never warns, and which it reads again where it is an untrusted one.
Dubious ==
    made.by = "c" /\ \E i \in DOMAIN file :
        \/ file[i].text.mark # "plain"
        \/ file[i].kind = "untrusted" /\ file[i].text.len > 1003

(***************************************************************************)
(* What either program has written, comments of every admissible length    *)
(* included, both can read, whatever became of the line ends on the way    *)
(* ("All file formats are byte-identical and fully interchangeable",       *)
(* rs/README.md).  Two exceptions: what C writes with a comment that is    *)
(* too long or not printable, which one of them refuses (see Dubious), and *)
(* lines of maximal length with CR LF, which C does not read.              *)
(***************************************************************************)
WrittenIsRead ==
    TextKept /\ ~Dubious =>
        CASE Len(file) = 4 -> RustReadsSignature(file) /\ (CrAtLimit \/ CReadsSignature(file))
          [] file[2].text = KeyLine.text -> RustReadsKey(file) /\ (CrAtLimit \/ CReadsKey(file))
          [] OTHER -> RustReadsSecret(file) /\ (CrAtLimit \/ CReadsSecret(file))

(***************************************************************************)
(* Whatever became of a file, a signature this program accepts is one that *)
(* C accepts too: no signature verifies only here (but for CR LF at the    *)
(* limit).  A key that C reads, this program reads, unless it is not UTF-8,*)
(* ends in a bare CR, or has been drawn out by blank lines.                *)
(***************************************************************************)
ReadersAgree ==
    /\ RustReadsSignature(file) => CrAtLimit \/ CReadsSignature(file)
    /\ CReadsKey(file) \/ CReadsSecret(file) =>
          \/ RustReadsKey(file) \/ RustReadsSecret(file)
          \/ file[2].end = "cr" \/ file[1].text.mark = "bytes"
          \/ Len(file) > 2 /\ FileBytes(file) > MAX_KEY_FILE_BYTES

Mislabelled(kind) == sniff_key_file_type(file) \notin {"nothing", kind}

(***************************************************************************)
(* -I takes every key file that either program wrote and this one can use  *)
(* for the kind of key it is, whatever became of its comment since, unless *)
(* the comment now names the other kind, and then it is refused.  What     *)
(* this program wrote it always recognises, but for a public key that its  *)
(* user's comment calls a secret key.                                      *)
(***************************************************************************)
InspectTellsKind ==
    /\ RustReadsSecret(file) =>
          Inspected(file) = IF Mislabelled("secret") THEN "refused" ELSE "secret"
    /\ RustReadsKey(file) =>
          Inspected(file) = IF Mislabelled("public") THEN "refused" ELSE "public"
    /\ TextKept /\ made.by = "rust" /\ Len(file) = 2 =>
          \/ Inspected(file) = IF file[2].text = SecretLine.text THEN "secret" ELSE "public"
          \/ file[2].text = KeyLine.text /\ Mislabelled("public")
=============================================================================
