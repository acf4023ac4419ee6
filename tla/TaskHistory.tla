---------------------------- MODULE TaskHistory ----------------------------
(***************************************************************************)
(* What the task store promises whichever way it keeps a task, as a file or *)
(* as a chain of events: the task's history grows at its end by one change  *)
(* at a time, a change that names the history it is based on is made on     *)
(* exactly that one, and its author is told of it only once it is there.    *)
(***************************************************************************)
EXTENDS Sequences

CONSTANTS Changes, Fenced

VARIABLES
    history,  \* the changes made, in order
    seen,     \* the history each author last looked at
    told      \* the changes whose author was told

Made == {history[i] : i \in DOMAIN history}

Init == history = <<>> /\ seen = [c \in Changes |-> <<>>] /\ told = {}

Look(c) == seen' = [seen EXCEPT ![c] = history] /\ UNCHANGED <<history, told>>

Change(c) ==
    /\ c \notin Made
    /\ c \in Fenced => seen[c] = history
    /\ history' = Append(history, c)
    /\ told' \in {told, told \cup {c}}
    /\ UNCHANGED seen

Tell(c) == c \in Made /\ told' = told \cup {c} /\ UNCHANGED <<history, seen>>

Next == \E c \in Changes : Look(c) \/ Change(c) \/ Tell(c)

Spec == Init /\ [][Next]_<<history, seen, told>>
=============================================================================
