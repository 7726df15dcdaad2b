----------------------------- MODULE OutputFile -----------------------------
(***************************************************************************)
(* What a file writer promises the rest of the program, whatever the file  *)
(* system does: the contents of one path change as a whole, a writer that  *)
(* was told "created" never replaced anything, and a writer that returned  *)
(* Ok has its contents in place even after a power loss.  A writer that    *)
(* returned an error, or was killed, may or may not have taken effect.     *)
(* A writer outside Durable, one that creates a file and fills it in       *)
(* place, promises only that it never replaced anything.                   *)
(***************************************************************************)
EXTENDS Sequences, Naturals

CONSTANTS
    Writers,
    Creators, Durable,  \* subsets of Writers
    None, Before        \* what is at the path before, None for nothing

VARIABLES
    history,   \* what has been at the path, the present contents last
    outcome    \* outcome[w]: running, or how the call of w ended

abstractVars == <<history, outcome>>

Now(h) == h[Len(h)]
Happened(h) == {h[i] : i \in 1..Len(h)}

Init ==
    /\ history \in {<<x>> : x \in Before}
    /\ outcome = [w \in Writers |-> "running"]

\* The new contents appear at the path, all of them at once.
TakeEffect(w) ==
    /\ outcome[w] = "running" /\ w \notin Happened(history)
    /\ w \in Creators => Now(history) = None
    /\ history' = Append(history, w)
    /\ UNCHANGED outcome

\* Only a writer that has taken effect may say so.
Succeed(w) ==
    /\ outcome[w] = "running" /\ w \in Happened(history)
    /\ outcome' = [outcome EXCEPT ![w] = "ok"]
    /\ UNCHANGED history

GiveUp(w) ==
    /\ outcome[w] = "running"
    /\ \E how \in {"err", "lost"} : outcome' = [outcome EXCEPT ![w] = how]
    /\ UNCHANGED history

\* Everything is lost after some point, but never what was reported as done.
PowerLoss ==
    /\ \E i \in 1..Len(history) :
          /\ history' = SubSeq(history, 1, i)
          /\ \A w \in Durable : outcome[w] = "ok" => w \in Happened(history')
    /\ outcome' = [w \in Writers |-> IF outcome[w] = "running" THEN "lost" ELSE outcome[w]]

Next == PowerLoss \/ \E w \in Writers : TakeEffect(w) \/ Succeed(w) \/ GiveUp(w)

Spec == Init /\ [][Next]_abstractVars
=============================================================================
