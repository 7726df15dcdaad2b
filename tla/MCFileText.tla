----------------------------- MODULE MCFileText -----------------------------
(***************************************************************************)
(* Files on a small instance: comments just within and just past the two   *)
(* limits and xfprintf's buffer, an empty one, one with each kind of bad   *)
(* byte, and ones that name a kind of key.                                 *)
(***************************************************************************)
EXTENDS FileText

AllComments ==
    {Plain(n, "nothing") : n \in {0, 1003, 1004, 4075, 4078, 8173, 8174}}
    \union {[len |-> 9, mark |-> m, says |-> "nothing"] : m \in Marks}
    \union {Plain(20, says) : says \in {"secret", "public"}}

DefaultComment == Plain(34, "secret")
=============================================================================
