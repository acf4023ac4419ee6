----------------------------- MODULE FencedLease -----------------------------
(***************************************************************************)
(* What the Chief lease promises, without processes, lock, clock or files:  *)
(* at most one lease is current, every lease handed out has a higher epoch  *)
(* than all the earlier ones, and a write is made under the current lease.  *)
(***************************************************************************)
EXTENDS Naturals, Sequences

CONSTANTS
    Leases,     \* records with an epoch, the session and the secret it got
    NoLease     \* nobody is Chief

VARIABLES current, granted, writes

vars == <<current, granted, writes>>

Init ==
    /\ current = NoLease
    /\ granted = {}
    /\ writes = <<>>

(* Acquisition or takeover *)
Grant ==
    /\ current' \in Leases
    /\ \A g \in granted : g.epoch < current'.epoch
    /\ granted' = granted \cup {current'}
    /\ UNCHANGED writes

Drop ==
    /\ current # NoLease
    /\ current' = NoLease
    /\ UNCHANGED <<granted, writes>>

Write ==
    /\ current # NoLease
    /\ writes' = Append(writes, current)
    /\ UNCHANGED <<current, granted>>

Next == Grant \/ Drop \/ Write

Spec == Init /\ [][Next]_vars

=============================================================================
