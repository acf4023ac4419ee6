-------------------------- MODULE MCChiefAuthority --------------------------
(* A small instance of ChiefAuthority for TLC.                              *)
EXTENDS ChiefAuthority, TLC

Symmetry == Permutations(Procs) \cup Permutations(Sessions)

=============================================================================
