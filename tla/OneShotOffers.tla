---------------------------- MODULE OneShotOffers ----------------------------
(***************************************************************************)
(* What the arming of packets promises about the agents that start: an      *)
(* offer is the only open offer of its slot and is either taken once, by an *)
(* event that fits the slot and takes no other offer, or withdrawn.  It is  *)
(* never opened again.                                                      *)
(***************************************************************************)
CONSTANTS
    Offers,
    Events,         \* the starts that may be observed
    Fits(_, _),     \* Fits(slot, event)
    Contends(_, _), \* Contends(slot, slot): some event fits both
    Absent

VARIABLES
    fate,   \* "none", "open", "taken" or "withdrawn"
    slot,   \* the slot of each offer, Absent before it is made
    taker   \* the event that took each offer, Absent if none did

Open(o) == fate[o] = "open"

Init == /\ fate = [o \in Offers |-> "none"]
        /\ slot = [o \in Offers |-> Absent]
        /\ taker = [o \in Offers |-> Absent]

Make(o) ==
    /\ fate[o] = "none"
    /\ fate' = [fate EXCEPT ![o] = "open"]
    /\ \A x \in Offers : Open(x) => ~Contends(slot[x], slot'[o])
    /\ \A x \in Offers \ {o} : slot'[x] = slot[x]
    /\ UNCHANGED taker

Take(o, e) ==
    /\ Open(o) /\ Fits(slot[o], e)
    /\ \A x \in Offers : taker[x] # e
    /\ fate' = [fate EXCEPT ![o] = "taken"]
    /\ taker' = [taker EXCEPT ![o] = e]
    /\ UNCHANGED slot

(* One change of authority withdraws several offers at once.                *)
Withdraw(S) ==
    /\ \A o \in S : Open(o)
    /\ fate' = [o \in Offers |-> IF o \in S THEN "withdrawn" ELSE fate[o]]
    /\ UNCHANGED <<slot, taker>>

Next == \/ \E o \in Offers : Make(o) \/ \E e \in Events : Take(o, e)
        \/ \E S \in SUBSET Offers : Withdraw(S)

Spec == Init /\ [][Next]_<<fate, slot, taker>>
=============================================================================
