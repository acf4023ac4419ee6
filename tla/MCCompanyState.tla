--------------------------- MODULE MCCompanyState ---------------------------
(* Small instances of CompanyState: two requests share a command, two an    *)
(* event and two a takeover capability.                                     *)
EXTENDS CompanyState, TLC

CONSTANTS r1, r2, r3, r4

Names(t, c, e, k) == [tx |-> t, command |-> c, events |-> e, capability |-> k]

Colliding == r1 :> Names(1, 1, {1}, 1) @@ r2 :> Names(2, 2, {2, 3}, 1)
             @@ r3 :> Names(3, 3, {3}, None) @@ r4 :> Names(4, 1, {4}, None)
Given == [r \in Requests |-> Colliding[r]]

=============================================================================
