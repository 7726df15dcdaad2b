---------------------------- MODULE MCBatchSign -----------------------------
(* Model checking of BatchSign: messages m and n, the signature of m as a  *)
(* message of its own, symlinks, and a key that may be in the way.         *)
EXTENDS BatchSign, TLC

AllLocs == {"m", "n", "m.sig", "n.sig", "m.sig.sig", "key"}
Signatures == ("m" :> "m.sig" @@ "n" :> "n.sig" @@ "m.sig" :> "m.sig.sig")

Holding(n, msig, nsig) ==
    [l \in AllLocs |->
        CASE l = "n" -> n [] l = "m.sig" -> msig [] l = "n.sig" -> nsig
          [] l \in {"m", "key"} -> Data(l) [] OTHER -> Nothing]

Mixed == {Holding(n, msig, nsig) :
            n \in {Data("n"), LinkTo("m")},
            msig \in {Nothing, Data("m.sig"), LinkTo("m")},
            nsig \in {Nothing, Data("n.sig")}}
    \union {Holding(LinkTo("m.sig"), Data("m.sig"), Nothing),
            Holding(Nothing, Nothing, Nothing)}

AllBatches == {<<"m">>, <<"m", "m">>, <<"m", "n">>, <<"n", "m">>, <<"m", "m.sig">>,
               <<"m.sig", "n">>, <<"n", "m", "n">>}

\* One run is asked for anything; the other signs m, or n and m on a pool.
CONSTANTS Anything, Company
AllJobs == {[r \in Runs |-> IF r = Anything THEN j ELSE k] :
    j \in [names : AllBatches, mode : ModeType],
    k \in [names : {<<"m">>, <<"n", "m">>},
           mode : [force : BOOLEAN, legacy : {FALSE}, sequential : {FALSE}]]}

BothKeys == {"key", "n.sig"}
=============================================================================
