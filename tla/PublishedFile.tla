---------------------------- MODULE PublishedFile ----------------------------
(***************************************************************************)
(* What the publication protocol promises of one file: its readers see      *)
(* nothing or the complete bytes of one publication, the ones that were     *)
(* current when the reader opened the file.                                 *)
(***************************************************************************)
CONSTANTS
    Values,     \* complete payloads
    Readers,
    Absent

VARIABLES
    value,  \* what the path names, Absent before the first publication
    seen    \* what each reader has in its hands

Init == value = Absent /\ seen = [r \in Readers |-> Absent]

Publish == value' \in Values /\ UNCHANGED seen

Look(r) ==
    /\ seen[r] = Absent /\ value # Absent
    /\ seen' = [seen EXCEPT ![r] = value]
    /\ UNCHANGED value

Return(r) ==
    /\ seen[r] # Absent
    /\ seen' = [seen EXCEPT ![r] = Absent]
    /\ UNCHANGED value

Next == Publish \/ \E r \in Readers : Look(r) \/ Return(r)

vars == <<value, seen>>

Spec == Init /\ [][Next]_vars
=============================================================================
