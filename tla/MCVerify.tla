----------------------------- MODULE MCVerify -------------------------------
(* Model checking of Verify: messages of up to four blocks with a limit of *)
(* two, two keys with one number and a third one, right and wrong boxes.   *)
EXTENDS Verify, TLC

AllContents == {<<"x">>, <<"x", "y">>, <<"x", "y", "x">>, <<"x", "y", "x", "y">>}

AllKeys == {"k", "twin", "other"}
Numbers == ("k" :> 1 @@ "twin" :> 1 @@ "other" :> 2)

\* What signing writes.
Box(k, prehashed, content) ==
    LET sig == Signature(k, Digest(prehashed, content)) IN
    [num |-> Numbers[k], prehashed |-> prehashed, signature |-> sig, comment |-> "c",
     global |-> Signature(k, <<sig, "c">>)]

Right == {Box("k", pre, c) : pre \in BOOLEAN, c \in {<<"x", "y">>, <<"x", "y", "x">>}}
Plain == Box("k", TRUE, <<"x", "y">>)
Wrong == {Box("twin", TRUE, <<"x", "y">>), Box("other", TRUE, <<"x", "y">>),
          [Plain EXCEPT !.comment = "d"], [Plain EXCEPT !.prehashed = FALSE]}
AllBoxes == Right \union Wrong

AllFiles == {"f", "g"}
World(f, fb, g, gb, k) ==
    [message |-> ("f" :> f @@ "g" :> g), sigFile |-> ("f" :> fb @@ "g" :> gb), keyFile |-> k]
AllWorlds ==
    {World(f, fb, <<"x", "y">>, gb, k) :
        f \in AllContents, fb \in AllBoxes \union {NoBox}, gb \in {Plain, NoBox},
        k \in {"k", "twin"}}

Job(names, output, force, sequential) ==
    [names |-> names, output |-> output, forcePrehashed |-> force,
     sequential |-> sequential, keyGiven |-> FALSE]
AllJobs ==
    {Job(<<"f">>, output, force, FALSE) : output \in BOOLEAN, force \in BOOLEAN}
    \union {Job(<<"f", "g">>, FALSE, FALSE, sequential) : sequential \in BOOLEAN}
    \union {[Job(<<"f">>, TRUE, TRUE, FALSE) EXCEPT !.keyGiven = TRUE]}
=============================================================================
