---------------------------- MODULE OneShotGrants ----------------------------
(***************************************************************************)
(* What a Chief's one-shot grants promise on a task's chain of events: a    *)
(* grant is reserved under a live Chief who stands behind it, alone, on the *)
(* head it was decided on; it takes effect once and on that head, or a      *)
(* later Chief ends it.  A permit is issued first, and once it is reserved  *)
(* anybody may finish it; what is not a permit only its own Chief may.      *)
(***************************************************************************)
EXTENDS Naturals

CONSTANTS Grants, Permits, Mark(_)   \* Mark(permit): one of a Chief's marks

VARIABLES
    stage,    \* "open", "issued", "reserved", "done" or "abandoned"
    base,     \* the length of the chain it was decided on
    issuer,   \* the epoch of the Chief who decided it
    length,   \* the length of the chain
    epoch, live   \* the Chief

vars == <<stage, base, issuer, length, epoch, live>>

Init ==
    /\ stage = [g \in Grants |-> "open"]
    /\ base = [g \in Grants |-> 0] /\ issuer = [g \in Grants |-> 0]
    /\ length = 0 /\ epoch = 1 /\ live = TRUE

Chief == <<epoch, live>>

Moves(g, s) == stage' = [stage EXCEPT ![g] = s]
Decides(g) ==
    /\ base' = [base EXCEPT ![g] = length]
    /\ issuer' = [issuer EXCEPT ![g] = epoch]

(* A Chief uses a mark once.                                                 *)
Issue(g) ==
    /\ g \in Permits /\ stage[g] = "open" /\ live
    /\ \A h \in Permits :
          stage[h] # "open" /\ issuer[h] = epoch => Mark(h) # Mark(g)
    /\ Moves(g, "issued") /\ Decides(g) /\ UNCHANGED <<length, Chief>>

Reservable(g) ==
    /\ live /\ \A h \in Grants : stage[h] # "reserved"
    /\ IF g \in Permits
       THEN stage[g] = "issued" /\ issuer[g] = epoch /\ base[g] = length
       ELSE stage[g] = "open"

Reserve(g) == Reservable(g) /\ Moves(g, "reserved") /\ Decides(g) /\ UNCHANGED <<length, Chief>>

Effect(g) == Moves(g, "done") /\ length' = length + 1 /\ UNCHANGED Chief

Finish(g) ==
    /\ stage[g] = "reserved" /\ base[g] = length
    /\ g \in Permits \/ (live /\ issuer[g] = epoch)
    /\ Effect(g) /\ UNCHANGED <<base, issuer>>

ReserveAndFinish(g) == Reservable(g) /\ Decides(g) /\ Effect(g)

Abandon(g) ==
    /\ g \notin Permits /\ stage[g] = "reserved" /\ base[g] = length
    /\ live /\ issuer[g] < epoch
    /\ Moves(g, "abandoned") /\ length' = length + 1 /\ UNCHANGED <<base, issuer, Chief>>

Other == length' = length + 1 /\ UNCHANGED <<stage, base, issuer, Chief>>

ChiefMoves ==
    /\ \/ live /\ live' = FALSE /\ UNCHANGED epoch
       \/ epoch' = epoch + 1 /\ live' = TRUE
    /\ UNCHANGED <<stage, base, issuer, length>>

Next ==
    \/ \E g \in Grants :
          Issue(g) \/ Reserve(g) \/ Finish(g) \/ ReserveAndFinish(g) \/ Abandon(g)
    \/ Other \/ ChiefMoves

Spec == Init /\ [][Next]_vars
=============================================================================
