------------------------ MODULE MCAtomicPublication ------------------------
(* Two small instances of AtomicPublication over the same variables, one of *)
(* which runs, chosen at the start.  "bootstrap" is a tree that is not      *)
(* there yet, where p1, p2 and p3 meet.  "recovery", the instance the       *)
(* configuration describes, is an initialized tree with writers, readers,   *)
(* recover-temporaries and a failing system call.                           *)
EXTENDS AtomicPublication, TLC

CONSTANTS p1, p2, p3, q1, q2, v1, v2, Parts

VARIABLE part

Newcomers == {p1, p2, p3}

Boot == INSTANCE AtomicPublication WITH
            Procs <- Newcomers, Values <- {v1}, Fresh <- TRUE,
            Commands <- {"init", "plan", "acquire", "recover"},
            MaxRuns <- 3, Kills <- 1, Faults <- 0

PublishInit ==
    /\ part \in Parts
    /\ part = "bootstrap" => Boot!Init
    /\ part = "recovery" => Init

PublishNext ==
    /\ UNCHANGED part
    /\ \/ part = "bootstrap" /\ Boot!Next
       \/ part = "recovery" /\ Next

PublishSpec ==
    /\ PublishInit /\ [][PublishNext]_<<vars, part>>
    /\ \A p \in Procs : WF_vars(part = "recovery" /\ Step(p))

(* Only the bootstrap has these processes, and no fairness is asked of them. *)
AnyNewcomer == Permutations(Newcomers)

(* ResidueRecoverable and WriterKeepsTemporary: what is left behind can be  *)
(* recovered, and what a writer still uses is not taken for it.             *)
ResidueIsDead ==
    part = "recovery" => TypeOK /\ ResidueRecoverable /\ WriterKeepsTemporary

(* ImplementsFile: readers without the lock see whole publications.         *)
ReadersSeeFiles ==
    /\ part = "recovery" => File!Init
    /\ [][part = "recovery" => [File!Next]_File!vars]_vars

(* CommandsEnd: no error path, kill or failing call leaves waiters waiting. *)
CommandsFinish ==
    \A p \in Procs :
        part = "recovery" /\ run[p] # None ~> (part = "recovery" => run[p] = None)
=============================================================================
