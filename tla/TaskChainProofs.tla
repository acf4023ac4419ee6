-------------------------- MODULE TaskChainProofs --------------------------
(***************************************************************************)
(* Proofs about the life of one task: its semantic chain, what is appended  *)
(* to it, and its completion.                                               *)
(*                                                                          *)
(* Permits and promotions implement one-shot grants, and none of them is    *)
(* blocked by a kill, for every set of permits, nonces and promotions and   *)
(* every number of Chiefs and of other commands.                            *)
(*                                                                          *)
(* The semantic store implements one history of the task that only grows,   *)
(* whichever way the task is kept, and is never stuck, for every set of     *)
(* changes, legacy writers, migrations and rollbacks and any number of      *)
(* kills.                                                                   *)
(*                                                                          *)
(* finish-mini closes, answers and can be made again as it should, for      *)
(* every set of requests and any number of kills and of other commands.     *)
(*                                                                          *)
(* A launch crosses each boundary of its packet at most once, after the     *)
(* pending event, ends in a true verdict, and can be taken up again by      *)
(* another run, for every set of launches and runs and any number of kills. *)
(***************************************************************************)
EXTENDS BoundTransitions, SemanticLedger, MiniCompletion, TransportLaunch,
        SequenceTheorems, FiniteSetTheorems, TLAPS

-----------------------------------------------------------------------------
(* Permits and promotions                                                    *)

Decisions == [head : Nat, epoch : Nat]
GrantEvents == [of : Transitions \cup {NoBound}, made : {"done", "abandoned"}]

BoundTypeOK ==
    /\ boundChain \in Seq(GrantEvents)
    /\ boundObjects \in [Transitions -> 0 .. AllObjects]
    /\ boundMarker \in [Permitted -> Decisions \cup {NoBound}]
    /\ boundBinding \in [Transitions -> Decisions \cup {NoBound}]
    /\ boundChief \in [epoch : Nat, live : BOOLEAN]

(* What a grant left behind rests on what its command wrote before.         *)
GrantsFounded ==
    /\ \A p \in Permitted :
          /\ boundMarker[p] # NoBound => boundObjects[p] = AllObjects
          /\ boundBinding[p] # NoBound => boundBinding[p] = boundMarker[p]
          /\ ~IsAbandoned(p)
    /\ \A t \in Transitions :
          /\ boundBinding[t] # NoBound => /\ boundObjects[t] = AllObjects
                                          /\ boundBinding[t].epoch <= boundChief.epoch
          /\ IsDone(t) \/ IsAbandoned(t) => boundBinding[t] # NoBound

OnePending == \A t, u \in Transitions : IsPending(t) /\ IsPending(u) => t = u

BoundInv == BoundTypeOK /\ GrantsFounded /\ OnePending

LEMMA LargerOfTwo ==
    ASSUME NEW a \in Int, NEW b \in Int
    PROVE  Max({a, b}) = IF a >= b THEN a ELSE b
<1>1. \E x \in {a, b} : \A y \in {a, b} : x >= y
  OBVIOUS
<1>2. Max({a, b}) \in {a, b} /\ \A y \in {a, b} : Max({a, b}) >= y
  BY <1>1 DEF Max
<1> QED BY <1>2

LEMMA SmallerOfTwo ==
    ASSUME NEW a \in Int, NEW b \in Int
    PROVE  Min({a, b}) = IF a <= b THEN a ELSE b
<1>1. \E x \in {a, b} : \A y \in {a, b} : x =< y
  OBVIOUS
<1>2. Min({a, b}) \in {a, b} /\ \A y \in {a, b} : Min({a, b}) =< y
  BY <1>1 DEF Min
<1> QED BY <1>2

(* What an event on the chain changes: the length, and its own transition.  *)
LEMMA AppendFacts ==
    ASSUME BoundTypeOK, NEW e \in GrantEvents, boundChain' = Append(boundChain, e)
    PROVE  /\ boundChain' \in Seq(GrantEvents) /\ BoundHead' = BoundHead + 1
           /\ \A t \in Transitions :
                 /\ IsDone(t)' <=> IsDone(t) \/ e = [of |-> t, made |-> "done"]
                 /\ IsAbandoned(t)' <=> IsAbandoned(t) \/ e = [of |-> t, made |-> "abandoned"]
<1>1. /\ boundChain \in Seq(GrantEvents) /\ boundChain' \in Seq(GrantEvents)
      /\ Len(boundChain') = Len(boundChain) + 1 /\ Len(boundChain) \in Nat
      /\ \A i \in 1 .. Len(boundChain) : boundChain'[i] = boundChain[i]
      /\ boundChain'[Len(boundChain) + 1] = e
  BY DEF BoundTypeOK
<1>2. \A x : Contains(boundChain', x) <=> Contains(boundChain, x) \/ e = x
  BY <1>1 DEF Contains
<1> QED BY <1>1, <1>2 DEF BoundHead, IsDone, IsAbandoned, OnChain, Contains

LEMMA GrantsUnmoved ==
    ASSUME boundChain' = boundChain, boundBinding' = boundBinding
    PROVE  /\ BoundHead' = BoundHead
           /\ \A t \in Transitions : /\ IsDone(t)' <=> IsDone(t)
                                     /\ IsAbandoned(t)' <=> IsAbandoned(t)
                                     /\ IsPending(t)' <=> IsPending(t)
  BY DEF BoundHead, IsDone, IsAbandoned, IsPending, OnChain, Contains

(* What the binding and the event of a transition change, n of them written. *)
LEMMA BindingWrites ==
    ASSUME BoundTypeOK, NEW t \in Transitions, NEW plan \in Decisions, NEW n \in 0 .. 2,
           BindAndAppend(t, plan, n)
    PROVE  /\ n = 0 => boundChain' = boundChain /\ boundBinding' = boundBinding
           /\ n > 0 => boundBinding' = [boundBinding EXCEPT ![t] = plan]
           /\ n < 2 => boundChain' = boundChain /\ BoundHead' = BoundHead
           /\ n = 2 => BoundHead' = BoundHead + 1
           /\ boundChain' \in Seq(GrantEvents)
           /\ \A u \in Transitions : /\ IsDone(u)' <=> IsDone(u) \/ (n = 2 /\ u = t)
                                     /\ IsAbandoned(u)' <=> IsAbandoned(u)
<1> DEFINE e == [of |-> t, made |-> "done"]
<1>1. /\ boundBinding' = IF n < 1 THEN boundBinding ELSE [boundBinding EXCEPT ![t] = plan]
      /\ boundChain' = IF n < 2 THEN boundChain ELSE Append(boundChain, e)
  BY DEF BindAndAppend
<1>2. CASE n < 2
  BY <1>1, <1>2 DEF BoundTypeOK, BoundHead, IsDone, IsAbandoned, OnChain, Contains
<1>3. CASE n = 2
  <2>1. e \in GrantEvents
    BY DEF GrantEvents
  <2>2. boundChain' = Append(boundChain, e)
    BY <1>1, <1>3
  <2> QED BY <1>1, <1>3, <2>1, <2>2, AppendFacts
<1> QED BY <1>2, <1>3

LEMMA BindingKeepsInv ==
    ASSUME BoundInv, NEW t \in Transitions, NEW plan \in Decisions, NEW n \in 0 .. 2,
           BindAndAppend(t, plan, n), NonePendingBut(t, plan), ~IsDone(t), ~IsAbandoned(t),
           n > 0 => boundObjects'[t] = AllObjects,
           boundObjects' \in [Transitions -> 0 .. AllObjects],
           \A u \in Transitions : boundObjects[u] = AllObjects => boundObjects'[u] = AllObjects,
           boundMarker' = boundMarker, boundChief' = boundChief,
           plan.epoch <= boundChief.epoch, t \in Permitted => plan = boundMarker[t]
    PROVE  BoundInv'
<1>1. BoundTypeOK
  BY DEF BoundInv
<1>2. /\ n = 0 => boundChain' = boundChain /\ boundBinding' = boundBinding
      /\ n > 0 => boundBinding' = [boundBinding EXCEPT ![t] = plan]
      /\ boundChain' \in Seq(GrantEvents)
      /\ \A u \in Transitions : /\ IsDone(u)' <=> IsDone(u) \/ (n = 2 /\ u = t)
                                /\ IsAbandoned(u)' <=> IsAbandoned(u)
  BY <1>1, BindingWrites
<1>3. /\ boundBinding' \in [Transitions -> Decisions \cup {NoBound}]
      /\ \A u \in Transitions \ {t} : boundBinding'[u] = boundBinding[u]
      /\ n > 0 => boundBinding'[t] = plan
      /\ n = 0 => boundBinding'[t] = boundBinding[t]
      /\ plan # NoBound
  BY <1>1, <1>2, BoundAssumption DEF BoundTypeOK, Decisions
<1>4. BoundTypeOK'
  BY <1>1, <1>2, <1>3 DEF BoundTypeOK
<1>5. GrantsFounded'
  <2>1. ASSUME NEW p \in Permitted
        PROVE  /\ boundMarker'[p] # NoBound => boundObjects'[p] = AllObjects
               /\ boundBinding'[p] # NoBound => boundBinding'[p] = boundMarker'[p]
               /\ ~IsAbandoned(p)'
    <3>1. p \in Transitions
      BY DEF Transitions
    <3> QED BY <1>2, <1>3, <3>1 DEF BoundInv, GrantsFounded
  <2>2. ASSUME NEW u \in Transitions
        PROVE  /\ boundBinding'[u] # NoBound => /\ boundObjects'[u] = AllObjects
                                                /\ boundBinding'[u].epoch <= boundChief'.epoch
               /\ IsDone(u)' \/ IsAbandoned(u)' => boundBinding'[u] # NoBound
    <3>1. CASE u = t
      BY <1>2, <1>3, <3>1 DEF BoundInv, GrantsFounded
    <3>2. CASE u # t
      BY <1>2, <1>3, <3>2 DEF BoundInv, GrantsFounded
    <3> QED BY <3>1, <3>2
  <2> QED BY <2>1, <2>2 DEF GrantsFounded
<1>6. OnePending'
  <2>1. \A u \in Transitions : IsPending(u)' => u = t
    BY <1>2, <1>3 DEF NonePendingBut, IsPending
  <2> QED BY <2>1 DEF OnePending
<1> QED BY <1>4, <1>5, <1>6 DEF BoundInv

LEMMA BoundInitInv == BoundInit => BoundInv
<1> SUFFICES ASSUME BoundInit PROVE BoundInv
  OBVIOUS
<1>1. BoundTypeOK
  BY DEF BoundInit, BoundTypeOK, AllObjects
<1>2. \A t \in Transitions : ~IsDone(t) /\ ~IsAbandoned(t) /\ ~IsPending(t)
  BY DEF BoundInit, IsDone, IsAbandoned, IsPending, OnChain, Contains
<1>3. Permitted \subseteq Transitions
  BY DEF Transitions
<1> QED BY <1>1, <1>2, <1>3 DEF BoundInit, BoundInv, GrantsFounded, OnePending

(* Every permit and promotion is a transition, and no promotion is a permit. *)
LEMMA GrantKinds ==
    /\ Permitted \subseteq Transitions /\ BoundPromotions \subseteq Transitions
    /\ \A r \in BoundPromotions : r \notin Permitted
  BY BoundAssumption DEF Transitions

LEMMA PlansAreDecisions ==
    ASSUME BoundTypeOK, NEW plan \in Plans
    PROVE  plan \in Decisions /\ plan.epoch <= boundChief.epoch
<1>1. BoundHead \in Nat /\ boundChief.epoch \in Nat
  BY DEF BoundTypeOK, BoundHead
<1> QED BY <1>1 DEF Plans, Decisions

LEMMA IssueKeepsInv ==
    ASSUME BoundInv, NEW p \in Permitted, NEW plan \in Plans, IssuePermit(p, plan)
    PROVE  BoundInv'
<1>1. p \in Transitions /\ plan \in Decisions /\ plan # NoBound
  BY GrantKinds, PlansAreDecisions, BoundAssumption DEF BoundInv, Decisions
<1>2. \A t \in Transitions : /\ IsDone(t)' <=> IsDone(t)
                             /\ IsAbandoned(t)' <=> IsAbandoned(t)
                             /\ IsPending(t)' <=> IsPending(t)
  BY GrantsUnmoved DEF IssuePermit
<1>3. /\ boundObjects' = [boundObjects EXCEPT ![p] = AllObjects]
      /\ boundMarker' = boundMarker \/ boundMarker' = [boundMarker EXCEPT ![p] = plan]
      /\ boundMarker[p] = NoBound
      /\ UNCHANGED <<boundChain, boundBinding, boundChief>>
  BY DEF IssuePermit
<1>4. BoundTypeOK'
  BY <1>1, <1>3 DEF BoundInv, BoundTypeOK, AllObjects
<1>5. boundBinding[p] = NoBound
  BY <1>3 DEF BoundInv, GrantsFounded
<1>6. GrantsFounded'
  BY <1>1, <1>2, <1>3, <1>5, GrantKinds DEF BoundInv, GrantsFounded, BoundTypeOK
<1>7. OnePending'
  BY <1>2 DEF BoundInv, OnePending
<1> QED BY <1>4, <1>6, <1>7 DEF BoundInv

LEMMA ConsumeKeepsInv ==
    ASSUME BoundInv, NEW p \in Permitted, ConsumePermit(p)
    PROVE  BoundInv'
<1>1. p \in Transitions /\ ~IsAbandoned(p)
  BY GrantKinds DEF BoundInv, GrantsFounded
<1>2. /\ boundMarker[p] \in Decisions /\ NonePendingBut(p, boundMarker[p]) /\ ~IsDone(p)
      /\ boundObjects[p] = AllObjects
  BY DEF ConsumePermit, ConsumeAllowed, BoundInv, BoundTypeOK
<1>3. boundMarker[p].epoch <= boundChief.epoch
  <2>1. CASE boundBinding[p] = NoBound
    BY <2>1, <1>2 DEF ConsumePermit, ConsumeAllowed, MayConsume, Decisions
  <2>2. CASE boundBinding[p] # NoBound
    BY <2>2, <1>1 DEF BoundInv, GrantsFounded
  <2> QED BY <2>1, <2>2
<1>4. PICK n \in 1 .. 2 : BindAndAppend(p, boundMarker[p], n)
  BY DEF ConsumePermit
<1>5. n \in 0 .. 2 /\ UNCHANGED <<boundObjects, boundMarker, boundChief>>
  BY DEF ConsumePermit
<1> QED BY <1>1, <1>2, <1>3, <1>4, <1>5, BindingKeepsInv DEF BoundInv, BoundTypeOK

(* What n of the writes of a promotion leave.                                *)
LEMMA PromotionWrites ==
    ASSUME BoundTypeOK, NEW r \in Transitions, NEW plan, NEW n \in 1 .. AllObjects + 2,
           PromoteWrites(r, plan, n)
    PROVE  \E m \in 0 .. 2 :
              /\ BindAndAppend(r, plan, m)
              /\ m > 0 => boundObjects'[r] = AllObjects
              /\ boundObjects' \in [Transitions -> 0 .. AllObjects]
              /\ \A u \in Transitions :
                     boundObjects[u] = AllObjects => boundObjects'[u] = AllObjects
<1>1. /\ Min({n, AllObjects}) = IF n <= 2 THEN n ELSE 2
      /\ Max({0, n - AllObjects}) = IF n <= 2 THEN 0 ELSE n - 2
  BY SmallerOfTwo, LargerOfTwo DEF AllObjects
<1> DEFINE k == Min({n, AllObjects})
           m == Max({0, n - AllObjects})
<1>2. k \in 0 .. 2 /\ m \in 0 .. 2 /\ (m > 0 => k = 2)
  BY <1>1 DEF AllObjects
<1>3. boundObjects[r] \in 0 .. 2
  BY DEF BoundTypeOK, AllObjects
<1> DEFINE v == Max({boundObjects[r], k})
<1>4. v \in 0 .. 2 /\ (k = 2 => v = 2) /\ (boundObjects[r] = 2 => v = 2)
  <2> HIDE DEF k
  <2>1. v = IF boundObjects[r] >= k THEN boundObjects[r] ELSE k
    BY <1>2, <1>3, LargerOfTwo
  <2> QED BY <1>2, <1>3, <2>1
<1>5. boundObjects' = [boundObjects EXCEPT ![r] = v] /\ BindAndAppend(r, plan, m)
  BY DEF PromoteWrites
<1> HIDE DEF k, m, v
<1>6. /\ m > 0 => boundObjects'[r] = AllObjects
      /\ boundObjects' \in [Transitions -> 0 .. AllObjects]
      /\ \A u \in Transitions : boundObjects[u] = AllObjects => boundObjects'[u] = AllObjects
  BY <1>2, <1>4, <1>5 DEF BoundTypeOK, AllObjects
<1> QED BY <1>2, <1>5, <1>6

LEMMA PromoteKeepsInv ==
    ASSUME BoundInv, NEW r \in BoundPromotions, NEW plan \in Plans, Promote(r, plan)
    PROVE  BoundInv'
<1>1. r \in Transitions /\ r \notin Permitted /\ plan \in Decisions /\ BoundTypeOK
  BY GrantKinds, PlansAreDecisions DEF BoundInv
<1>2. /\ NonePendingBut(r, plan) /\ ~IsDone(r) /\ ~IsAbandoned(r)
      /\ plan.epoch <= boundChief.epoch
      /\ boundMarker' = boundMarker /\ boundChief' = boundChief
  BY <1>1 DEF Promote, PromoteAllowed, BoundTypeOK
<1>3. PICK n \in 1 .. AllObjects + 2 : PromoteWrites(r, plan, n)
  BY DEF Promote
<1>4. PICK m \in 0 .. 2 :
         /\ BindAndAppend(r, plan, m)
         /\ m > 0 => boundObjects'[r] = AllObjects
         /\ boundObjects' \in [Transitions -> 0 .. AllObjects]
         /\ \A u \in Transitions : boundObjects[u] = AllObjects => boundObjects'[u] = AllObjects
  BY <1>1, <1>3, PromotionWrites
<1> QED BY <1>1, <1>2, <1>4, BindingKeepsInv

(* An event that takes the place of a reservation, or is another command's.  *)
LEMMA EventKeepsInv ==
    ASSUME BoundInv, NEW e \in GrantEvents, boundChain' = Append(boundChain, e),
           e.of \in Transitions => e.made = "abandoned" /\ e.of \notin Permitted
                                   /\ boundBinding[e.of] # NoBound,
           boundObjects' = boundObjects, boundMarker' = boundMarker,
           boundBinding' = boundBinding, boundChief' = boundChief
    PROVE  BoundInv'
<1>1. /\ boundChain' \in Seq(GrantEvents)
      /\ \A t \in Transitions :
            /\ IsDone(t)' <=> IsDone(t) \/ e = [of |-> t, made |-> "done"]
            /\ IsAbandoned(t)' <=> IsAbandoned(t) \/ e = [of |-> t, made |-> "abandoned"]
  BY AppendFacts DEF BoundInv
<1>2. \A t \in Transitions : /\ IsDone(t)' <=> IsDone(t)
                             /\ IsAbandoned(t)' => IsAbandoned(t) \/ t = e.of
                             /\ IsPending(t)' => IsPending(t)
  BY <1>1 DEF IsPending
<1>3. BoundTypeOK'
  BY <1>1 DEF BoundInv, BoundTypeOK
<1>4. GrantsFounded'
  BY <1>2, GrantKinds DEF BoundInv, GrantsFounded
<1>5. OnePending'
  BY <1>2 DEF BoundInv, OnePending
<1> QED BY <1>3, <1>4, <1>5 DEF BoundInv

LEMMA BoundNextInv == BoundInv /\ [BoundNext]_boundVars => BoundInv'
<1> SUFFICES ASSUME BoundInv, [BoundNext]_boundVars PROVE BoundInv'
  OBVIOUS
<1>1. ASSUME boundChain' = boundChain, boundBinding' = boundBinding,
             boundObjects' = boundObjects, boundMarker' = boundMarker,
             boundChief' \in [epoch : Nat, live : BOOLEAN],
             boundChief.epoch <= boundChief'.epoch
      PROVE  BoundInv'
  <2>1. \A t \in Transitions : /\ IsDone(t)' <=> IsDone(t)
                               /\ IsAbandoned(t)' <=> IsAbandoned(t)
                               /\ IsPending(t)' <=> IsPending(t)
    BY <1>1, GrantsUnmoved
  <2>2. \A t \in Transitions : boundBinding[t] # NoBound =>
           boundBinding[t].epoch \in Nat /\ boundBinding[t].epoch <= boundChief'.epoch
    BY <1>1 DEF BoundInv, GrantsFounded, BoundTypeOK, Decisions
  <2>3. BoundTypeOK' /\ OnePending'
    BY <1>1, <2>1 DEF BoundInv, BoundTypeOK, OnePending
  <2>4. GrantsFounded'
    BY <1>1, <2>1, <2>2, GrantKinds DEF BoundInv, GrantsFounded
  <2> QED BY <2>3, <2>4 DEF BoundInv
<1>2. boundChief \in [epoch : Nat, live : BOOLEAN]
  BY DEF BoundInv, BoundTypeOK
<1>3. CASE ChiefEnds
  <2>1. boundChief'.epoch = boundChief.epoch /\ boundChief' \in [epoch : Nat, live : BOOLEAN]
    BY <1>2, <1>3 DEF ChiefEnds
  <2> QED BY <1>1, <1>2, <1>3, <2>1 DEF ChiefEnds
<1>4. CASE ChiefBegins
  BY <1>1, <1>2, <1>4 DEF ChiefBegins
<1>5. ASSUME NEW p \in Permitted, PermitExpires(p) PROVE BoundInv'
  BY <1>1, <1>2, <1>5 DEF PermitExpires
<1>6. CASE OtherTransition
  <2>1. [of |-> NoBound, made |-> "done"] \in GrantEvents
    BY DEF GrantEvents
  <2> QED BY <1>6, <2>1, BoundAssumption, EventKeepsInv DEF OtherTransition
<1>7. ASSUME NEW r \in BoundPromotions, AbandonPending(r) PROVE BoundInv'
  <2>1. [of |-> r, made |-> "abandoned"] \in GrantEvents /\ r \notin Permitted
    BY GrantKinds DEF GrantEvents
  <2> QED BY <1>7, <2>1, EventKeepsInv
        DEF AbandonPending, AbandonAllowed, Abandonable, IsPending
<1>8. CASE UNCHANGED boundVars
  BY <1>1, <1>2, <1>8 DEF boundVars
<1> QED BY <1>3, <1>4, <1>5, <1>6, <1>7, <1>8, IssueKeepsInv, ConsumeKeepsInv, PromoteKeepsInv
        DEF BoundNext

LEMMA BoundInvariance == BoundSpec => []BoundInv
<1> QED BY BoundInitInv, BoundNextInv, PTL DEF BoundSpec

(* A killed permit-consume can be finished by anybody and a killed promotion *)
(* finished by its Chief or ended by a later one, the next whose lease       *)
(* begins after the promotion's time, for any number of permits, promotions  *)
(* and Chiefs (_validated_binding_namespace, require_no_pending_bindings).   *)
THEOREM GrantsAreResolvable == BoundSpec => []GrantsResolvable
<1>1. BoundInv => GrantsResolvable
  <2> SUFFICES ASSUME BoundInv, ~Stale PROVE GrantsResolvable
    BY DEF GrantsResolvable
  <2>1. Inspected
    BY DEF Inspected, BoundInv, GrantsFounded, OnePending
  <2>2. ASSUME NEW p \in Permitted, IsPending(p) PROVE ConsumeAllowed(p)
    <3>1. p \in Transitions /\ boundBinding[p] # NoBound /\ boundBinding[p] = boundMarker[p]
      BY <2>2, GrantKinds DEF IsPending, BoundInv, GrantsFounded
    <3>2. NonePendingBut(p, boundMarker[p])
      BY <2>1, <2>2, <3>1 DEF NonePendingBut, BoundInv, OnePending
    <3>3. boundMarker[p].head = BoundHead /\ ~IsDone(p)
      BY <2>2, <3>1 DEF Stale, IsPending
    <3> QED BY <3>1, <3>2, <3>3 DEF ConsumeAllowed, BoundInv, GrantsFounded
  <2>3. ASSUME NEW r \in BoundPromotions, boundChief.live, IsPending(r)
        PROVE  \/ PromoteAllowed(r, boundBinding[r])
               \/ boundBinding[r].epoch < boundChief.epoch
                     /\ IF r \in boundAhead THEN Abandonable(r) ELSE AbandonAllowed(r)
    <3>1. r \in Transitions /\ boundBinding[r] # NoBound /\ boundBinding[r].head = BoundHead
      BY <2>3, GrantKinds DEF IsPending, Stale
    <3>2. boundBinding[r].epoch \in Nat /\ boundBinding[r].epoch <= boundChief.epoch
      BY <3>1 DEF BoundInv, GrantsFounded, BoundTypeOK, Decisions
    <3>3. boundChief.epoch \in Nat
      BY DEF BoundInv, BoundTypeOK
    <3>4. CASE boundBinding[r].epoch = boundChief.epoch
      <4>1. NonePendingBut(r, boundBinding[r])
        BY <2>1, <2>3, <3>1 DEF NonePendingBut, BoundInv, OnePending
      <4> QED BY <2>3, <3>1, <3>4, <4>1 DEF PromoteAllowed, IsPending
    <3>5. CASE boundChief.epoch > boundBinding[r].epoch
      BY <2>1, <2>3, <3>1, <3>2, <3>3, <3>5 DEF AbandonAllowed, Abandonable
    <3> QED BY <3>2, <3>3, <3>4, <3>5
  <2>4. ASSUME NEW r \in BoundPromotions, boundChief.live, \A t \in Transitions : ~IsPending(t),
               ~IsDone(r), ~IsAbandoned(r)
        PROVE  PromoteAllowed(r, AtHead)
    <3>1. r \in Transitions
      BY GrantKinds
    <3>2. boundBinding[r] = NoBound
      BY <2>4, <3>1 DEF IsPending
    <3> QED BY <2>1, <2>4, <3>2 DEF PromoteAllowed, AtHead, NonePendingBut
  <2> QED BY <2>2, <2>3, <2>4 DEF GrantsResolvable
<1> QED BY <1>1, BoundInvariance, PTL

(* What a transition is to the grants follows from what it left.             *)
LEMMA SameGrant ==
    ASSUME NEW t \in Transitions, IsDone(t)' <=> IsDone(t), IsAbandoned(t)' <=> IsAbandoned(t),
           boundBinding'[t] = boundBinding[t],
           t \in Permitted => boundMarker'[t] = boundMarker[t]
    PROVE  GrantStage(t)' = GrantStage(t) /\ Decided(t)' = Decided(t)
  BY DEF GrantStage, Decided, IsPending

LEMMA ReservedGrant ==
    ASSUME GrantsFounded, NEW t \in Transitions
    PROVE  /\ GrantStage(t) = "reserved" <=> IsPending(t)
           /\ t \in Permitted => (GrantStage(t) = "issued" <=>
                 boundMarker[t] # NoBound /\ boundBinding[t] = NoBound)
           /\ t \in Permitted => (GrantStage(t) = "open" <=> boundMarker[t] = NoBound)
           /\ t \notin Permitted => (GrantStage(t) = "open" <=> boundBinding[t] = NoBound)
           /\ boundBinding[t] # NoBound => Decided(t) = boundBinding[t]
           /\ t \in Permitted /\ boundMarker[t] # NoBound => Decided(t) = boundMarker[t]
  BY DEF GrantsFounded, GrantStage, Decided, IsPending

(* Only g moves: what the three functions of the grants become.              *)
LEMMA OneGrantMoves ==
    ASSUME NEW g \in Transitions,
           \A t \in Transitions \ {g} : GrantStage(t)' = GrantStage(t) /\ Decided(t)' = Decided(t)
    PROVE  /\ [t \in Transitions |-> GrantStage(t)]'
                 = [[t \in Transitions |-> GrantStage(t)] EXCEPT ![g] = GrantStage(g)']
           /\ [t \in Transitions |-> Decided(t).head]'
                 = [[t \in Transitions |-> Decided(t).head] EXCEPT ![g] = Decided(g)'.head]
           /\ [t \in Transitions |-> Decided(t).epoch]'
                 = [[t \in Transitions |-> Decided(t).epoch] EXCEPT ![g] = Decided(g)'.epoch]
  OBVIOUS

LEMMA NoGrantMoves ==
    ASSUME \A t \in Transitions : GrantStage(t)' = GrantStage(t) /\ Decided(t)' = Decided(t)
    PROVE  /\ [t \in Transitions |-> GrantStage(t)]' = [t \in Transitions |-> GrantStage(t)]
           /\ [t \in Transitions |-> Decided(t).head]' = [t \in Transitions |-> Decided(t).head]
           /\ [t \in Transitions |-> Decided(t).epoch]' = [t \in Transitions |-> Decided(t).epoch]
  OBVIOUS

LEMMA IssueIssues ==
    ASSUME BoundInv, NEW p \in Permitted, NEW plan \in Plans, IssuePermit(p, plan)
    PROVE  AllGrants!Issue(p) \/ UNCHANGED AllGrants!vars
<1>1. /\ p \in Transitions /\ plan \in Decisions /\ plan # NoBound
      /\ plan.head = BoundHead /\ plan.epoch = boundChief.epoch /\ boundChief.live
  BY GrantKinds, PlansAreDecisions, BoundAssumption DEF BoundInv, Decisions, IssuePermit, AtHead
<1>2. /\ boundMarker[p] = NoBound /\ boundBinding[p] = NoBound
      /\ ~IsDone(p) /\ ~IsAbandoned(p) /\ GrantStage(p) = "open"
  BY <1>1 DEF IssuePermit, BoundInv, GrantsFounded, GrantStage, IsPending
<1>3. /\ BoundHead' = BoundHead /\ boundBinding' = boundBinding /\ boundChief' = boundChief
      /\ \A t \in Transitions : /\ IsDone(t)' <=> IsDone(t)
                                /\ IsAbandoned(t)' <=> IsAbandoned(t)
                                /\ IsPending(t)' <=> IsPending(t)
  BY GrantsUnmoved DEF IssuePermit
<1>4. CASE boundMarker' = boundMarker
  <2>1. \A t \in Transitions : GrantStage(t)' = GrantStage(t) /\ Decided(t)' = Decided(t)
    BY <1>3, <1>4, SameGrant
  <2> QED BY <1>3, <2>1, NoGrantMoves DEF AllGrants!vars
<1>5. CASE boundMarker' = [boundMarker EXCEPT ![p] = plan]
  <2>1. boundMarker'[p] = plan /\ \A q \in Permitted \ {p} : boundMarker'[q] = boundMarker[q]
    BY <1>5 DEF BoundInv, BoundTypeOK
  <2>2. \A t \in Transitions \ {p} : GrantStage(t)' = GrantStage(t) /\ Decided(t)' = Decided(t)
    BY <1>3, <2>1, SameGrant
  <2>3. GrantStage(p)' = "issued" /\ Decided(p)' = plan
    BY <1>1, <1>2, <1>3, <2>1 DEF GrantStage, Decided, IsPending
  <2>4. ASSUME NEW h \in Permitted, GrantStage(h) # "open", Decided(h).epoch = boundChief.epoch
        PROVE  NonceOf(h) # NonceOf(p)
    <3>1. boundMarker[h] # NoBound /\ Decided(h) = boundMarker[h]
      BY <2>4, GrantKinds, ReservedGrant DEF BoundInv
    <3>2. ReplayMarker(h, boundMarker[h]) # ReplayMarker(p, plan)
      BY <3>1 DEF IssuePermit
    <3> QED BY <1>1, <2>4, <3>1, <3>2 DEF ReplayMarker, NonceOf
  <2>5. /\ p \in Permitted /\ GrantStage(p) = "open" /\ boundChief.live
        /\ [t \in Transitions |-> GrantStage(t)]'
              = [[t \in Transitions |-> GrantStage(t)] EXCEPT ![p] = "issued"]
        /\ [t \in Transitions |-> Decided(t).head]'
              = [[t \in Transitions |-> Decided(t).head] EXCEPT ![p] = BoundHead]
        /\ [t \in Transitions |-> Decided(t).epoch]'
              = [[t \in Transitions |-> Decided(t).epoch] EXCEPT ![p] = boundChief.epoch]
    BY <1>1, <1>2, <2>2, <2>3, OneGrantMoves
  <2>6. \A h \in Permitted :
           /\ [t \in Transitions |-> GrantStage(t)][h] = GrantStage(h)
           /\ [t \in Transitions |-> Decided(t).epoch][h] = Decided(h).epoch
    BY GrantKinds
  <2> QED BY <1>1, <1>3, <2>4, <2>5, <2>6
          DEF AllGrants!Issue, AllGrants!Moves, AllGrants!Decides, AllGrants!Chief
<1> QED BY <1>4, <1>5 DEF IssuePermit

(* A binding, with its event or without it, on the head it was decided on.  *)
LEMMA BindingReserves ==
    ASSUME BoundInv, NEW t \in Transitions, NEW plan \in Decisions, NEW n \in 1 .. 2,
           BindAndAppend(t, plan, n), NonePendingBut(t, plan),
           ~IsDone(t), ~IsAbandoned(t), boundBinding[t] = NoBound,
           boundChief.live, plan.head = BoundHead, plan.epoch = boundChief.epoch,
           t \in Permitted => boundMarker[t] = plan,
           boundMarker' = boundMarker, boundChief' = boundChief
    PROVE  AllGrants!Reserve(t) \/ AllGrants!ReserveAndFinish(t)
<1>1. BoundTypeOK /\ GrantsFounded /\ n \in 0 .. 2 /\ plan # NoBound
  BY BoundAssumption DEF BoundInv, Decisions
<1>2. /\ boundBinding' = [boundBinding EXCEPT ![t] = plan]
      /\ n < 2 => BoundHead' = BoundHead
      /\ n = 2 => BoundHead' = BoundHead + 1
      /\ \A u \in Transitions : /\ IsDone(u)' <=> IsDone(u) \/ (n = 2 /\ u = t)
                                /\ IsAbandoned(u)' <=> IsAbandoned(u)
  BY <1>1, BindingWrites
<1>3. boundBinding'[t] = plan /\ \A u \in Transitions \ {t} : boundBinding'[u] = boundBinding[u]
  BY <1>1, <1>2 DEF BoundTypeOK
<1>4. \A u \in Transitions \ {t} : GrantStage(u)' = GrantStage(u) /\ Decided(u)' = Decided(u)
  BY <1>2, <1>3, SameGrant
<1>5. /\ Decided(t)' = plan
      /\ n < 2 => GrantStage(t)' = "reserved"
      /\ n = 2 => GrantStage(t)' = "done"
  BY <1>1, <1>2, <1>3 DEF Decided, GrantStage, IsPending
<1>6. AllGrants!Reservable(t)
  <2>1. \A u \in Transitions : GrantStage(u) # "reserved"
    BY <1>1, ReservedGrant DEF NonePendingBut, IsPending
  <2>2. IF t \in Permitted
        THEN /\ GrantStage(t) = "issued" /\ Decided(t).epoch = boundChief.epoch
             /\ Decided(t).head = BoundHead
        ELSE GrantStage(t) = "open"
    BY <1>1, ReservedGrant
  <2> QED BY <2>1, <2>2 DEF AllGrants!Reservable
<1>7. /\ [u \in Transitions |-> GrantStage(u)]'
            = [[u \in Transitions |-> GrantStage(u)] EXCEPT ![t] = GrantStage(t)']
      /\ AllGrants!Decides(t)
  BY <1>4, <1>5, OneGrantMoves DEF AllGrants!Decides
<1>8. CASE n < 2
  BY <1>2, <1>5, <1>6, <1>7, <1>8 DEF AllGrants!Reserve, AllGrants!Moves, AllGrants!Chief
<1>9. CASE n = 2
  BY <1>2, <1>5, <1>6, <1>7, <1>9
     DEF AllGrants!ReserveAndFinish, AllGrants!Effect, AllGrants!Moves, AllGrants!Chief
<1> QED BY <1>8, <1>9

(* The event of a transition that was bound before; or nothing.              *)
LEMMA BoundFinishes ==
    ASSUME BoundInv, NEW t \in Transitions, NEW plan \in Decisions, NEW n \in 0 .. 2,
           BindAndAppend(t, plan, n), ~IsDone(t), ~IsAbandoned(t),
           n = 0 \/ boundBinding[t] = plan,
           n # 0 => plan.head = BoundHead /\ (t \in Permitted \/
                      (boundChief.live /\ plan.epoch = boundChief.epoch)),
           boundMarker' = boundMarker, boundChief' = boundChief
    PROVE  AllGrants!Finish(t) \/ UNCHANGED AllGrants!vars
<1>1. BoundTypeOK /\ GrantsFounded /\ plan # NoBound
  BY BoundAssumption DEF BoundInv, Decisions
<1>2. /\ n = 0 => boundBinding' = boundBinding
      /\ n > 0 => boundBinding' = [boundBinding EXCEPT ![t] = plan]
      /\ n < 2 => BoundHead' = BoundHead
      /\ n = 2 => BoundHead' = BoundHead + 1
      /\ \A u \in Transitions : /\ IsDone(u)' <=> IsDone(u) \/ (n = 2 /\ u = t)
                                /\ IsAbandoned(u)' <=> IsAbandoned(u)
  BY <1>1, BindingWrites
<1>3. boundBinding' = boundBinding
  BY <1>1, <1>2 DEF BoundTypeOK
<1>4. CASE n < 2
  <2>1. \A u \in Transitions : GrantStage(u)' = GrantStage(u) /\ Decided(u)' = Decided(u)
    BY <1>2, <1>3, <1>4, SameGrant
  <2> QED BY <1>2, <1>4, <2>1, NoGrantMoves DEF AllGrants!vars
<1>5. CASE n = 2
  <2>1. \A u \in Transitions \ {t} : GrantStage(u)' = GrantStage(u)
    BY <1>2, <1>3, SameGrant
  <2>2. \A u \in Transitions : Decided(u)' = Decided(u)
    BY <1>3 DEF Decided
  <2>3. GrantStage(t) = "reserved" /\ Decided(t) = plan /\ GrantStage(t)' = "done"
    BY <1>1, <1>2, <1>5 DEF GrantStage, Decided, IsPending
  <2>4. /\ [u \in Transitions |-> GrantStage(u)]'
              = [[u \in Transitions |-> GrantStage(u)] EXCEPT ![t] = "done"]
        /\ [u \in Transitions |-> Decided(u).head]' = [u \in Transitions |-> Decided(u).head]
        /\ [u \in Transitions |-> Decided(u).epoch]' = [u \in Transitions |-> Decided(u).epoch]
    BY <2>1, <2>2, <2>3
  <2> QED BY <1>2, <1>5, <2>3, <2>4
          DEF AllGrants!Finish, AllGrants!Effect, AllGrants!Moves, AllGrants!Chief
<1> QED BY <1>4, <1>5

LEMMA AbandonAbandons ==
    ASSUME BoundInv, NEW r \in BoundPromotions, AbandonPending(r)
    PROVE  AllGrants!Abandon(r)
<1> DEFINE e == [of |-> r, made |-> "abandoned"]
<1>1. /\ r \in Transitions /\ r \notin Permitted /\ e \in GrantEvents
      /\ BoundTypeOK /\ GrantsFounded
  BY GrantKinds DEF GrantEvents, BoundInv
<1>2. /\ boundChain' = Append(boundChain, e)
      /\ boundBinding' = boundBinding /\ boundMarker' = boundMarker /\ boundChief' = boundChief
      /\ IsPending(r) /\ boundBinding[r].head = BoundHead
      /\ boundChief.live /\ boundBinding[r].epoch < boundChief.epoch
  <2>1. boundBinding[r].epoch \in Nat /\ boundChief.epoch \in Nat
    BY <1>1 DEF AbandonPending, AbandonAllowed, Abandonable, IsPending, BoundTypeOK, Decisions
  <2> QED BY <2>1 DEF AbandonPending, AbandonAllowed, Abandonable
<1>3. /\ BoundHead' = BoundHead + 1
      /\ \A t \in Transitions : /\ IsDone(t)' <=> IsDone(t)
                                /\ IsAbandoned(t)' <=> IsAbandoned(t) \/ t = r
  BY <1>1, <1>2, AppendFacts
<1>4. \A t \in Transitions \ {r} : GrantStage(t)' = GrantStage(t)
  BY <1>2, <1>3, SameGrant
<1>5. \A t \in Transitions : Decided(t)' = Decided(t)
  BY <1>2 DEF Decided
<1>6. /\ GrantStage(r) = "reserved" /\ GrantStage(r)' = "abandoned"
      /\ Decided(r) = boundBinding[r]
  BY <1>1, <1>2, <1>3 DEF GrantStage, Decided, IsPending
<1>7. /\ [t \in Transitions |-> GrantStage(t)]'
            = [[t \in Transitions |-> GrantStage(t)] EXCEPT ![r] = "abandoned"]
      /\ [t \in Transitions |-> Decided(t).head]' = [t \in Transitions |-> Decided(t).head]
      /\ [t \in Transitions |-> Decided(t).epoch]' = [t \in Transitions |-> Decided(t).epoch]
  BY <1>4, <1>5, <1>6
<1> QED BY <1>1, <1>2, <1>3, <1>6, <1>7
        DEF AllGrants!Abandon, AllGrants!Moves, AllGrants!Chief

(* Steps that move no grant: the Chief's, another command's, an expiry.      *)
LEMMA OthersStep ==
    ASSUME BoundInv, boundBinding' = boundBinding, boundMarker' = boundMarker,
           \/ /\ boundChain' = boundChain
              /\ \/ boundChief' = boundChief
                 \/ boundChief.live /\ boundChief' = [boundChief EXCEPT !.live = FALSE]
                 \/ boundChief' = [epoch |-> boundChief.epoch + 1, live |-> TRUE]
           \/ /\ boundChain' = Append(boundChain, [of |-> NoBound, made |-> "done"])
              /\ boundChief' = boundChief
    PROVE  AllGrants!Other \/ AllGrants!ChiefMoves \/ UNCHANGED AllGrants!vars
<1>1. BoundTypeOK
  BY DEF BoundInv
<1>2. /\ \A t \in Transitions : /\ IsDone(t)' <=> IsDone(t)
                                /\ IsAbandoned(t)' <=> IsAbandoned(t)
      /\ boundChain' = boundChain => BoundHead' = BoundHead
      /\ boundChain' # boundChain => BoundHead' = BoundHead + 1
  <2>1. CASE boundChain' = boundChain
    BY <2>1, GrantsUnmoved
  <2>2. CASE boundChain' = Append(boundChain, [of |-> NoBound, made |-> "done"])
    <3>1. [of |-> NoBound, made |-> "done"] \in GrantEvents
      BY DEF GrantEvents
    <3>2. /\ BoundHead' = BoundHead + 1
          /\ \A t \in Transitions :
                /\ IsDone(t)' <=> IsDone(t)
                                     \/ [of |-> NoBound, made |-> "done"] = [of |-> t, made |-> "done"]
                /\ IsAbandoned(t)' <=> IsAbandoned(t) \/ [of |-> NoBound, made |-> "done"]
                                                             = [of |-> t, made |-> "abandoned"]
      BY <1>1, <2>2, <3>1, AppendFacts
    <3>3. BoundHead \in Nat /\ (boundChain' = boundChain => BoundHead' = BoundHead)
      BY <1>1 DEF BoundTypeOK, BoundHead
    <3> QED BY <2>2, <3>2, <3>3, BoundAssumption
  <2> QED BY <2>1, <2>2
<1>3. /\ [t \in Transitions |-> GrantStage(t)]' = [t \in Transitions |-> GrantStage(t)]
      /\ [t \in Transitions |-> Decided(t).head]' = [t \in Transitions |-> Decided(t).head]
      /\ [t \in Transitions |-> Decided(t).epoch]' = [t \in Transitions |-> Decided(t).epoch]
  BY <1>2, SameGrant
<1>4. CASE boundChain' # boundChain
  BY <1>2, <1>3, <1>4 DEF AllGrants!Other, AllGrants!Chief
<1>5. CASE boundChain' = boundChain /\ boundChief' = boundChief
  BY <1>2, <1>3, <1>5 DEF AllGrants!vars
<1>6. CASE boundChain' = boundChain /\ boundChief' # boundChief
  <2>1. boundChief \in [epoch : Nat, live : BOOLEAN]
    BY <1>1 DEF BoundTypeOK
  <2>2. \/ boundChief.live /\ boundChief'.live = FALSE /\ boundChief'.epoch = boundChief.epoch
        \/ boundChief'.epoch = boundChief.epoch + 1 /\ boundChief'.live = TRUE
    BY <1>6, <2>1
  <2> QED BY <1>2, <1>3, <1>6, <2>2 DEF AllGrants!ChiefMoves
<1> QED BY <1>4, <1>5, <1>6

LEMMA GrantSteps ==
    ASSUME BoundInv, BoundNext
    PROVE  AllGrants!Next \/ UNCHANGED AllGrants!vars
<1>1. CASE ChiefEnds \/ ChiefBegins \/ OtherTransition \/ \E p \in Permitted : PermitExpires(p)
  <2>1. AllGrants!Other \/ AllGrants!ChiefMoves \/ UNCHANGED AllGrants!vars
    BY <1>1, OthersStep DEF ChiefEnds, ChiefBegins, OtherTransition, PermitExpires
  <2> QED BY <2>1 DEF AllGrants!Next
<1>2. ASSUME NEW p \in Permitted, NEW plan \in Plans, IssuePermit(p, plan)
      PROVE  AllGrants!Next \/ UNCHANGED AllGrants!vars
  BY <1>2, IssueIssues, GrantKinds DEF AllGrants!Next
<1>3. ASSUME NEW p \in Permitted, ConsumePermit(p)
      PROVE  AllGrants!Next \/ UNCHANGED AllGrants!vars
  <2>1. /\ p \in Transitions /\ boundMarker[p] \in Decisions /\ ~IsAbandoned(p)
        /\ ConsumeAllowed(p) /\ boundMarker' = boundMarker /\ boundChief' = boundChief
    BY <1>3, GrantKinds
       DEF ConsumePermit, ConsumeAllowed, BoundInv, GrantsFounded, BoundTypeOK
  <2>2. PICK n \in 1 .. 2 : BindAndAppend(p, boundMarker[p], n)
    BY <1>3 DEF ConsumePermit
  <2>3. CASE boundBinding[p] = NoBound
    BY <2>1, <2>2, <2>3, BindingReserves DEF ConsumeAllowed, MayConsume, AllGrants!Next
  <2>4. CASE boundBinding[p] # NoBound
    <3>1. boundBinding[p] = boundMarker[p] /\ n \in 0 .. 2
      BY <2>4 DEF BoundInv, GrantsFounded
    <3> QED BY <2>1, <2>2, <3>1, BoundFinishes DEF ConsumeAllowed, AllGrants!Next
  <2> QED BY <2>3, <2>4
<1>4. ASSUME NEW r \in BoundPromotions, NEW plan \in Plans, Promote(r, plan)
      PROVE  AllGrants!Next \/ UNCHANGED AllGrants!vars
  <2>1. /\ r \in Transitions /\ r \notin Permitted /\ plan \in Decisions
        /\ PromoteAllowed(r, plan) /\ boundMarker' = boundMarker /\ boundChief' = boundChief
    BY <1>4, GrantKinds, PlansAreDecisions DEF Promote, BoundInv
  <2>2. PICK m \in 0 .. 2 : BindAndAppend(r, plan, m)
    BY <1>4, <2>1, PromotionWrites DEF Promote, BoundInv
  <2>3. CASE m > 0 /\ boundBinding[r] = NoBound
    <3>1. m \in 1 .. 2
      BY <2>3
    <3> QED BY <2>1, <2>2, <2>3, <3>1, BindingReserves DEF PromoteAllowed, AllGrants!Next
  <2>4. CASE m = 0 \/ boundBinding[r] = plan
    BY <2>1, <2>2, <2>4, BoundFinishes DEF PromoteAllowed, AllGrants!Next
  <2> QED BY <2>1, <2>3, <2>4 DEF PromoteAllowed
<1>5. ASSUME NEW r \in BoundPromotions, AbandonPending(r)
      PROVE  AllGrants!Next \/ UNCHANGED AllGrants!vars
  BY <1>5, AbandonAbandons, GrantKinds DEF AllGrants!Next
<1> QED BY <1>1, <1>2, <1>3, <1>4, <1>5 DEF BoundNext

(* Through kills, retries, expiry and changes of the Chief permits and       *)
(* promotions implement one-shot grants: each takes effect at most once, on  *)
(* the head and under the Chief it was decided on, alone, and a replay       *)
(* marker serves once (commit_permitted_arm_transaction,                     *)
(* commit_release_promotion_transaction, abandon_pending_release_promotion). *)
THEOREM GrantsAreOneShot == BoundSpec => ImplementsGrants
<1>1. BoundInit => AllGrants!Init
  <2> SUFFICES ASSUME BoundInit PROVE AllGrants!Init
    OBVIOUS
  <2>1. \A t \in Transitions : ~IsDone(t) /\ ~IsAbandoned(t) /\ ~IsPending(t)
    BY DEF BoundInit, IsDone, IsAbandoned, IsPending, OnChain, Contains
  <2>2. \A t \in Transitions : GrantStage(t) = "open" /\ Decided(t) = [head |-> 0, epoch |-> 0]
    BY <2>1 DEF BoundInit, GrantStage, Decided
  <2> QED BY <2>2 DEF AllGrants!Init, BoundInit, BoundHead
<1>2. BoundInv /\ [BoundNext]_boundVars =>
        [\/ UNCHANGED boundVars
         \/ AllGrants!Next
         \/ UNCHANGED AllGrants!vars]_boundVars
  BY GrantSteps
<1> QED BY <1>1, <1>2, BoundInvariance, PTL DEF BoundSpec, ImplementsGrants

-----------------------------------------------------------------------------
(* The semantic store                                                        *)

LedgerTypeOK ==
    /\ ledgerDisk \in [dirs : {"none", "root", "events"}, events : Seq(Events),
                       snapshot : {NoLedger} \cup LegacyLogs, receipt : BOOLEAN,
                       marker : {NoLedger} \cup LedgerRollbacks, done : BOOLEAN]
    /\ ledgerState \in {NoLedger} \cup StateFiles
    /\ ledgerBase \in [LedgerCommands ->
                          [head : {NoLedger} \cup Seq(Events) \cup LegacyLogs,
                           history : Seq(Events \cup LedgerLegacy)]]

IsLegacy    == ledgerState # NoLedger /\ ledgerState.form = "legacy"
IsProjected == ledgerState # NoLedger /\ ledgerState.form = "projection"
Snapshot    == ledgerDisk.snapshot
Marker      == ledgerDisk.marker

(* What the files of the store rest on.                                     *)
FilesFounded ==
    /\ ledgerDisk.dirs # "events" => Chain = <<>> /\ Snapshot = NoLedger
    /\ Chain = <<>> => ~IsProjected
    /\ Chain = <<>> /\ ledgerState = NoLedger => Snapshot = NoLedger
    /\ Chain # <<>> => Head(Chain) \in LedgerMigrations \cup {LedgerInit}
    /\ ledgerDisk.receipt => Migrated
    /\ Migrated => Snapshot # NoLedger /\ ledgerState # NoLedger
    /\ Marker # NoLedger => MigrationValid
    /\ ledgerDisk.done => Marker # NoLedger /\ Len(Chain) = 1 /\ IsLegacy
    /\ IsProjected => IsPrefix(ledgerState.changes, Chain)
    /\ IsLegacy /\ Chain # <<>> /\ ~ledgerDisk.done =>
          Migrated /\ Len(Chain) = 1 /\ ledgerState.changes = Snapshot

(* Who can go on where a command was killed.                                *)
RetriesFounded ==
    /\ ledgerDisk.dirs = "events" /\ Chain = <<>> /\ IsLegacy =>
          /\ \E m \in LedgerMigrations : ledgerBase[m].head = ledgerState.changes
          /\ Snapshot \in {NoLedger, ledgerState.changes}
    /\ IsLegacy /\ Migrated /\ Marker = NoLedger => ledgerBase[Head(Chain)].head = Snapshot
    /\ Marker # NoLedger /\ ~ledgerDisk.done =>
          IF Len(Chain) = 1 THEN ledgerBase[Marker].head = Chain
          ELSE \E i \in 2 .. Len(Chain) : LedgerChanges[Chain[i]] = "record"

(* A head read on a chain is of a chain no longer than the present one, and *)
(* the history read with the present one is the present history.            *)
HeadsSound ==
    \A c \in LedgerCommands :
        LET b == ledgerBase[c] IN
        b.head \notin {NoLedger} \cup LegacyLogs =>
            /\ Len(b.head) <= Len(Chain)
            /\ b.head = Chain => b.history = Replayable

AppendWrites(c) ==
    IF Contains(Chain, c) THEN ProjectWrites
    ELSE Missing(ProjectionCurrent, "project", <<"event", "project">>)

(* What a running command has left is what it would now plan.               *)
InitRun ==
    /\ ledgerRun = [command |-> LedgerInit, left |-> InitWrites]
    /\ Marker = NoLedger /\ ~ledgerDisk.done
    /\ IF Chain = <<>> THEN ledgerState = NoLedger ELSE Head(Chain) = LedgerInit

MigrateRun(m) ==
    /\ ledgerRun = [command |-> m, left |-> MigrateWrites]
    /\ Marker = NoLedger /\ ~ledgerDisk.done
    /\ IF Chain = <<>>
       THEN /\ IsLegacy /\ ledgerBase[m].head = ledgerState.changes
            /\ Snapshot \in {NoLedger, ledgerState.changes}
       ELSE Head(Chain) = m /\ ledgerBase[m].head = Snapshot

RollbackRun(r) ==
    /\ ledgerRun = [command |-> r, left |-> RollbackWrites]
    /\ MigrationValid /\ Len(Chain) = 1 /\ ledgerBase[r].head = Chain
    /\ Marker \in {NoLedger, r}

AppendRun(c) ==
    /\ ledgerRun = [command |-> c, left |-> AppendWrites(c)]
    /\ LedgerActive /\ ProjectionValid
    /\ ~Contains(Chain, c) =>
          ledgerBase[c].head = Chain /\ (LedgerChanges[c] = "close" => Marker = NoLedger)

RunSound ==
    ledgerRun # NoLedger =>
        \/ InitRun
        \/ \E m \in LedgerMigrations : MigrateRun(m)
        \/ \E r \in LedgerRollbacks : RollbackRun(r)
        \/ \E c \in DOMAIN LedgerChanges : AppendRun(c)

(* What the files say, without the command at work.                         *)
StoreInv == LedgerTypeOK /\ FilesFounded /\ RetriesFounded /\ HeadsSound

LedgerInv == StoreInv /\ RunSound

-----------------------------------------------------------------------------
(* The writes that a command has left                                        *)

WriteKinds == {"root", "events", "snapshot", "genesis", "receipt", "project",
               "marker", "restore", "completion", "event"}

LEMMA Listed ==
    ASSUME NEW w \in WriteKinds, NEW rest \in Seq(WriteKinds)
    PROVE  /\ <<w>> \o rest \in Seq(WriteKinds) /\ <<w>> \o rest # <<>>
           /\ Head(<<w>> \o rest) = w /\ Tail(<<w>> \o rest) = rest
<1>1. <<w>> \o rest # <<>> /\ Head(<<w>> \o rest) = w /\ Len(<<w>> \o rest) = 1 + Len(rest)
      /\ <<w>> \o rest \in Seq(WriteKinds)
  OBVIOUS
<1>2. Tail(<<w>> \o rest) \in Seq(WriteKinds) /\ Len(Tail(<<w>> \o rest)) = Len(rest)
  BY <1>1
<1>3. \A i \in 1 .. Len(rest) : Tail(<<w>> \o rest)[i] = rest[i]
  BY <1>1
<1>. QED
  BY <1>1, <1>2, <1>3, SeqEqual

LEMMA WritesTypeOK ==
    /\ ProjectWrites \in Seq(WriteKinds) /\ <<"event", "project">> \in Seq(WriteKinds)
    /\ <<"completion">> \in Seq(WriteKinds) /\ <<>> \in Seq(WriteKinds)
    /\ \A rest \in Seq(WriteKinds) : BirthWrites(rest) \in Seq(WriteKinds)
    /\ InitWrites \in Seq(WriteKinds) /\ MigrateWrites \in Seq(WriteKinds)
    /\ RollbackWrites \in Seq(WriteKinds)
<1>1. <<>> \in Seq(WriteKinds)
  OBVIOUS
<1>2. ProjectWrites \in Seq(WriteKinds)
  BY <1>1, Listed DEF ProjectWrites, Missing, WriteKinds
<1>3. \A rest \in Seq(WriteKinds) : BirthWrites(rest) \in Seq(WriteKinds)
  BY Listed DEF BirthWrites, Missing, WriteKinds
<1>4. <<"event", "project">> \in Seq(WriteKinds) /\ <<"completion">> \in Seq(WriteKinds)
  BY DEF WriteKinds
<1>5. InitWrites \in Seq(WriteKinds)
  BY <1>2, <1>3, Listed DEF InitWrites, Missing, WriteKinds
<1>6. MigrateWrites \in Seq(WriteKinds)
  <2>. DEFINE r == Missing(ledgerDisk.receipt, "receipt", ProjectWrites)
              g == Missing(Chain # <<>>, "genesis", r)
              s == Missing(ledgerDisk.snapshot # NoLedger, "snapshot", g)
  <2>1. r \in Seq(WriteKinds)
    BY <1>2, Listed DEF Missing, WriteKinds
  <2>2. g \in Seq(WriteKinds)
    BY <2>1, Listed DEF Missing, WriteKinds
  <2>3. s \in Seq(WriteKinds)
    BY <2>2, Listed DEF Missing, WriteKinds
  <2>4. MigrateWrites = BirthWrites(s)
    BY DEF MigrateWrites
  <2>. HIDE DEF s
  <2>. QED
    BY <2>3, <2>4, <1>3
<1>7. RollbackWrites \in Seq(WriteKinds)
  <2>1. Missing(ledgerState = LegacyFile(ledgerDisk.snapshot), "restore", <<"completion">>)
           \in Seq(WriteKinds)
    BY <1>4, Listed DEF Missing, WriteKinds
  <2>. QED
    BY <1>1, <2>1, Listed DEF RollbackWrites, Missing, WriteKinds
<1>. QED
  BY <1>1, <1>2, <1>3, <1>4, <1>5, <1>6, <1>7

-----------------------------------------------------------------------------
(* What each write keeps                                                     *)

LEMMA ChainFacts ==
    ASSUME LedgerTypeOK
    PROVE  /\ Chain \in Seq(Events) /\ Snapshot \in {NoLedger} \cup LegacyLogs
           /\ Chain # <<>> => Head(Chain) \in Events /\ Len(Chain) >= 1
           /\ NoLedger \notin LegacyLogs /\ NoLedger \notin Seq(Events)
           /\ Chain # <<>> => Chain \notin LegacyLogs
           /\ <<>> \in LegacyLogs
           /\ IsLegacy => ledgerState.changes \in LegacyLogs
                            /\ ledgerState = LegacyFile(ledgerState.changes)
           /\ IsProjected => ledgerState.changes \in Seq(Events)
           /\ \A s : LegacyFile(s) # Projection(Chain)
           /\ ledgerState = NoLedger \/ IsLegacy \/ IsProjected
           /\ ~(IsLegacy /\ IsProjected)
           /\ ledgerState = NoLedger => ~IsLegacy /\ ~IsProjected
<1>1. Chain \in Seq(Events) /\ Snapshot \in {NoLedger} \cup LegacyLogs
  BY DEF LedgerTypeOK, Chain, Snapshot
<1>2. Chain # <<>> => Head(Chain) \in Events /\ Len(Chain) >= 1
  BY <1>1
<1>3. NoLedger \notin LegacyLogs /\ NoLedger \notin Seq(Events)
  BY LedgerAssumption
<1>4. ASSUME Chain # <<>> PROVE Chain \notin LegacyLogs
  <2>1. Head(Chain) \notin LedgerLegacy
    BY <1>2, <1>4, LedgerAssumption
  <2>. QED
    BY <2>1, <1>4 DEF LegacyLogs
<1>5. <<>> \in LegacyLogs
  BY DEF LegacyLogs
<1>6. ledgerState = NoLedger \/ ledgerState \in [form : {"legacy"}, changes : LegacyLogs]
        \/ ledgerState \in [form : {"projection"}, changes : Seq(Events)]
  BY DEF LedgerTypeOK, StateFiles
<1>. QED
  BY <1>1, <1>2, <1>3, <1>4, <1>5, <1>6 DEF IsLegacy, IsProjected, LegacyFile, Projection

LEMMA FileFacts ==
    /\ \A s \in LegacyLogs : LegacyFile(s) \in StateFiles /\ LegacyFile(s) # NoLedger
    /\ \A s \in Seq(Events) : Projection(s) \in StateFiles /\ Projection(s) # NoLedger
    /\ \A s : LegacyFile(s).form = "legacy" /\ LegacyFile(s).changes = s
    /\ \A s : Projection(s).form = "projection" /\ Projection(s).changes = s
  BY LedgerAssumption DEF LegacyFile, Projection, StateFiles

LEMMA PrefixFacts ==
    ASSUME NEW s \in Seq(Events), NEW t \in Seq(Events), NEW e \in Events
    PROVE  IsPrefix(t, t) /\ (IsPrefix(s, t) => IsPrefix(s, Append(t, e)))
<1>1. IsPrefix(t, t)
  BY DEF IsPrefix
<1>2. ASSUME IsPrefix(s, t) PROVE IsPrefix(s, Append(t, e))
  <2>1. Len(s) <= Len(t) /\ Len(Append(t, e)) = Len(t) + 1
    BY <1>2 DEF IsPrefix
  <2>2. SubSeq(Append(t, e), 1, Len(s)) = SubSeq(t, 1, Len(s))
    <3>1. \A i \in 1 .. Len(s) : Append(t, e)[i] = t[i]
      BY <2>1
    <3>. QED
      BY <2>1, <3>1
  <2>. QED
    BY <1>2, <2>1, <2>2 DEF IsPrefix
<1>. QED
  BY <1>1, <1>2

(* A store without events or with the first of them only.                   *)
LEMMA MarkerFacts ==
    ASSUME StoreInv
    PROVE  /\ Chain = <<>> => Marker = NoLedger /\ ~ledgerDisk.done /\ ~ledgerDisk.receipt
                                /\ ~Migrated
           /\ Chain # <<>> => ledgerDisk.dirs = "events"
           /\ ledgerDisk.done => Marker # NoLedger
           /\ Marker # NoLedger => Migrated
  BY DEF StoreInv, FilesFounded, MigrationValid, Migrated, Marker

(* A directory of the store is made.                                        *)
LEMMA DirWriteKeeps ==
    ASSUME StoreInv, Chain = <<>>, NEW w \in {"root", "events"},
           ledgerDisk.dirs # "events",
           w = "events" /\ IsLegacy =>
              \E m \in LedgerMigrations : ledgerBase[m].head = ledgerState.changes,
           ledgerDisk' = [ledgerDisk EXCEPT !.dirs = w],
           ledgerState' = ledgerState, ledgerBase' = ledgerBase
    PROVE  StoreInv'
<1>. USE DEF StoreInv
<1>1. LedgerTypeOK'
  BY DEF LedgerTypeOK
<1>2. /\ Chain' = Chain /\ Snapshot' = Snapshot /\ Marker' = Marker /\ Migrated' = Migrated
      /\ ledgerDisk'.receipt = ledgerDisk.receipt /\ ledgerDisk'.done = ledgerDisk.done
      /\ IsLegacy' = IsLegacy /\ IsProjected' = IsProjected /\ Replayable' = Replayable
      /\ ledgerDisk'.dirs = w
  BY DEF LedgerTypeOK, Chain, Snapshot, Marker, Migrated, IsLegacy, IsProjected, Replayable
<1>3. FilesFounded'
  BY <1>2, MarkerFacts DEF FilesFounded, MigrationValid
<1>4. RetriesFounded'
  BY <1>2, MarkerFacts DEF RetriesFounded, FilesFounded
<1>5. HeadsSound'
  BY <1>2 DEF HeadsSound
<1>. QED
  BY <1>1, <1>3, <1>4, <1>5

(* The snapshot of the legacy changes.                                      *)
LEMMA SnapshotKeeps ==
    ASSUME StoreInv, Chain = <<>>, IsLegacy, ledgerDisk.dirs = "events",
           ledgerDisk' = [ledgerDisk EXCEPT !.snapshot = ledgerState.changes],
           ledgerState' = ledgerState, ledgerBase' = ledgerBase
    PROVE  StoreInv'
<1>. USE DEF StoreInv
<1>0. ledgerState.changes \in LegacyLogs
  BY ChainFacts
<1>1. LedgerTypeOK'
  BY <1>0 DEF LedgerTypeOK
<1>2. /\ Chain' = Chain /\ Snapshot' = ledgerState.changes /\ Marker' = Marker
      /\ Migrated' = Migrated
      /\ ledgerDisk'.receipt = ledgerDisk.receipt /\ ledgerDisk'.done = ledgerDisk.done
      /\ IsLegacy' = IsLegacy /\ IsProjected' = IsProjected
      /\ ledgerDisk'.dirs = ledgerDisk.dirs
  BY DEF LedgerTypeOK, Chain, Snapshot, Marker, Migrated, IsLegacy, IsProjected
<1>3. FilesFounded'
  BY <1>2, MarkerFacts, ChainFacts DEF FilesFounded, MigrationValid, IsLegacy
<1>4. RetriesFounded'
  BY <1>2, MarkerFacts DEF RetriesFounded
<1>5. HeadsSound'
  <2>1. Replayable' = <<>> /\ Replayable = <<>>
    BY <1>2, MarkerFacts DEF Replayable
  <2>. QED
    BY <1>2, <2>1 DEF HeadsSound
<1>. QED
  BY <1>1, <1>3, <1>4, <1>5

(* The first event of a chain.                                              *)
LEMMA GenesisKeeps ==
    ASSUME StoreInv, Chain = <<>>, ledgerDisk.dirs = "events", NEW c \in Events,
           \/ c = LedgerInit /\ ledgerState = NoLedger
           \/ /\ c \in LedgerMigrations /\ IsLegacy
              /\ Snapshot = ledgerState.changes /\ ledgerBase[c].head = Snapshot,
           ledgerDisk' = [ledgerDisk EXCEPT !.events = Append(@, c)],
           ledgerState' = ledgerState, ledgerBase' = ledgerBase
    PROVE  StoreInv' /\ Chain' = <<c>>
<1>. USE DEF StoreInv
<1>0. ledgerDisk'.events = <<c>>
  BY DEF LedgerTypeOK, Chain
<1>1. LedgerTypeOK'
  <2>1. <<c>> \in Seq(Events)
    OBVIOUS
  <2>2. ledgerDisk' = [ledgerDisk EXCEPT !.events = <<c>>]
    BY <1>0 DEF LedgerTypeOK
  <2>. QED
    BY <2>1, <2>2 DEF LedgerTypeOK
<1>2. /\ Chain' = <<c>> /\ Snapshot' = Snapshot /\ Marker' = Marker
      /\ ledgerDisk'.receipt = ledgerDisk.receipt /\ ledgerDisk'.done = ledgerDisk.done
      /\ IsLegacy' = IsLegacy /\ IsProjected' = IsProjected
      /\ ledgerDisk'.dirs = ledgerDisk.dirs
  BY <1>0 DEF LedgerTypeOK, Chain, Snapshot, Marker, IsLegacy, IsProjected
<1>3. Chain' # <<>> /\ Head(Chain') = c /\ Len(Chain') = 1
  BY <1>2
<1>4. Migrated' <=> c \in LedgerMigrations
  BY <1>3 DEF Migrated
<1>5. c \in LedgerMigrations => Snapshot # NoLedger /\ ledgerState # NoLedger
  BY ChainFacts, LedgerAssumption DEF IsLegacy
<1>6. FilesFounded'
  BY <1>2, <1>3, <1>4, <1>5, MarkerFacts, LedgerAssumption, ChainFacts
     DEF FilesFounded, MigrationValid
<1>7. RetriesFounded'
  BY <1>2, <1>3, <1>4, MarkerFacts, LedgerAssumption, ChainFacts DEF RetriesFounded
<1>8. HeadsSound'
  <2>. SUFFICES ASSUME NEW b \in LedgerCommands,
                       ledgerBase[b].head \notin {NoLedger} \cup LegacyLogs
       PROVE FALSE
    BY DEF HeadsSound
  <2>1. ledgerBase[b].head \in Seq(Events) /\ Len(ledgerBase[b].head) <= 0
    BY DEF HeadsSound, LedgerTypeOK
  <2>2. ledgerBase[b].head = <<>>
    BY <2>1
  <2>. QED
    BY <2>2, ChainFacts
<1>. QED
  BY <1>1, <1>2, <1>6, <1>7, <1>8

(* The receipt of a migration.                                              *)
LEMMA ReceiptKeeps ==
    ASSUME StoreInv, Migrated, ledgerDisk' = [ledgerDisk EXCEPT !.receipt = TRUE],
           ledgerState' = ledgerState, ledgerBase' = ledgerBase
    PROVE  StoreInv'
<1>. USE DEF StoreInv
<1>1. LedgerTypeOK'
  BY DEF LedgerTypeOK
<1>2. /\ Chain' = Chain /\ Snapshot' = Snapshot /\ Marker' = Marker /\ Migrated' = Migrated
      /\ ledgerDisk'.receipt /\ ledgerDisk'.done = ledgerDisk.done
      /\ IsLegacy' = IsLegacy /\ IsProjected' = IsProjected /\ Replayable' = Replayable
      /\ ledgerDisk'.dirs = ledgerDisk.dirs
  BY DEF LedgerTypeOK, Chain, Snapshot, Marker, Migrated, IsLegacy, IsProjected, Replayable
<1>3. FilesFounded'
  BY <1>2 DEF FilesFounded, MigrationValid
<1>4. RetriesFounded'
  BY <1>2 DEF RetriesFounded
<1>5. HeadsSound'
  BY <1>2 DEF HeadsSound
<1>. QED
  BY <1>1, <1>3, <1>4, <1>5

(* The projection of the chain.                                             *)
LEMMA ProjectKeeps ==
    ASSUME StoreInv, Chain # <<>>, ~ledgerDisk.done, ledgerState' = Projection(Chain),
           ledgerDisk' = ledgerDisk, ledgerBase' = ledgerBase
    PROVE  StoreInv'
<1>. USE DEF StoreInv
<1>1. LedgerTypeOK'
  BY ChainFacts, FileFacts DEF LedgerTypeOK
<1>2. /\ Chain' = Chain /\ Snapshot' = Snapshot /\ Marker' = Marker /\ Migrated' = Migrated
      /\ ~IsLegacy' /\ IsProjected' /\ Replayable' = Replayable /\ ledgerState'.changes = Chain
      /\ ledgerState' # NoLedger
  BY ChainFacts, FileFacts DEF Chain, Snapshot, Marker, Migrated, IsLegacy, IsProjected, Replayable
<1>3. IsPrefix(Chain, Chain)
  BY ChainFacts, PrefixFacts
<1>4. FilesFounded'
  BY <1>2, <1>3 DEF FilesFounded, MigrationValid
<1>5. RetriesFounded'
  BY <1>2 DEF RetriesFounded
<1>6. HeadsSound'
  BY <1>2 DEF HeadsSound
<1>. QED
  BY <1>1, <1>4, <1>5, <1>6

(* A further event.                                                         *)
LEMMA EventKeeps ==
    ASSUME StoreInv, Chain # <<>>, ~ledgerDisk.done, ~IsLegacy,
           NEW c \in DOMAIN LedgerChanges, Marker # NoLedger => LedgerChanges[c] = "record",
           ledgerDisk' = [ledgerDisk EXCEPT !.events = Append(@, c)],
           ledgerState' = ledgerState, ledgerBase' = ledgerBase
    PROVE  StoreInv' /\ Chain' = Append(Chain, c)
<1>. USE DEF StoreInv
<1>0. c \in Events
  BY DEF Events
<1>1. LedgerTypeOK'
  <2>1. Append(ledgerDisk.events, c) \in Seq(Events)
    BY <1>0 DEF LedgerTypeOK
  <2>. QED
    BY <2>1 DEF LedgerTypeOK
<1>2. /\ Chain' = Append(Chain, c) /\ Snapshot' = Snapshot /\ Marker' = Marker
      /\ ledgerDisk'.receipt = ledgerDisk.receipt /\ ledgerDisk'.done = ledgerDisk.done
      /\ IsLegacy' = IsLegacy /\ IsProjected' = IsProjected
      /\ ledgerDisk'.dirs = ledgerDisk.dirs
  BY DEF LedgerTypeOK, Chain, Snapshot, Marker, IsLegacy, IsProjected
<1>3. /\ Chain' # <<>> /\ Head(Chain') = Head(Chain) /\ Len(Chain') = Len(Chain) + 1
      /\ \A i \in 1 .. Len(Chain) : Chain'[i] = Chain[i]
      /\ Chain'[Len(Chain')] = c /\ Len(Chain) \in Nat \ {0}
  BY <1>0, <1>2, ChainFacts
<1>4. Migrated' = Migrated
  BY <1>3 DEF Migrated
<1>5. FilesFounded'
  <2>1. IsProjected' => IsPrefix(ledgerState'.changes, Chain')
    BY <1>0, <1>2, ChainFacts, PrefixFacts DEF FilesFounded
  <2>. QED
    BY <1>2, <1>3, <1>4, <2>1 DEF FilesFounded, MigrationValid
<1>6. RetriesFounded'
  <2>1. Marker' # NoLedger => \E i \in 2 .. Len(Chain') : LedgerChanges[Chain'[i]] = "record"
    <3>. SUFFICES ASSUME Marker' # NoLedger
         PROVE  Len(Chain') \in 2 .. Len(Chain') /\ LedgerChanges[Chain'[Len(Chain')]] = "record"
      OBVIOUS
    <3>. QED
      BY <1>2, <1>3
  <2>. QED
    BY <1>2, <1>3, <2>1 DEF RetriesFounded
<1>7. HeadsSound'
  <2>. SUFFICES ASSUME NEW b \in LedgerCommands,
                       ledgerBase[b].head \notin {NoLedger} \cup LegacyLogs
       PROVE Len(ledgerBase[b].head) <= Len(Chain') /\ ledgerBase[b].head # Chain'
    BY DEF HeadsSound
  <2>1. ledgerBase[b].head \in Seq(Events) /\ Len(ledgerBase[b].head) <= Len(Chain)
    BY DEF HeadsSound, LedgerTypeOK
  <2>. QED
    BY <2>1, <1>3
<1>. QED
  BY <1>1, <1>2, <1>5, <1>6, <1>7

(* The marker of a rollback, the restored file and the completion.          *)
LEMMA MarkerKeeps ==
    ASSUME StoreInv, MigrationValid, Len(Chain) = 1, NEW r \in LedgerRollbacks,
           ledgerBase[r].head = Chain, Marker = NoLedger,
           ledgerDisk' = [ledgerDisk EXCEPT !.marker = r],
           ledgerState' = ledgerState, ledgerBase' = ledgerBase
    PROVE  StoreInv' /\ Marker' = r
<1>. USE DEF StoreInv
<1>1. LedgerTypeOK'
  BY DEF LedgerTypeOK
<1>2. /\ Chain' = Chain /\ Snapshot' = Snapshot /\ Marker' = r /\ Migrated' = Migrated
      /\ ledgerDisk'.receipt = ledgerDisk.receipt /\ ledgerDisk'.done = ledgerDisk.done
      /\ IsLegacy' = IsLegacy /\ IsProjected' = IsProjected /\ Replayable' = Replayable
      /\ ledgerDisk'.dirs = ledgerDisk.dirs
  BY DEF LedgerTypeOK, Chain, Snapshot, Marker, Migrated, IsLegacy, IsProjected, Replayable
<1>3. r # NoLedger
  BY LedgerAssumption DEF LedgerCommands
<1>4. FilesFounded'
  BY <1>2, <1>3 DEF FilesFounded, MigrationValid
<1>5. RetriesFounded'
  BY <1>2, <1>3 DEF RetriesFounded
<1>6. HeadsSound'
  BY <1>2 DEF HeadsSound
<1>. QED
  BY <1>1, <1>2, <1>4, <1>5, <1>6

LEMMA RestoreKeeps ==
    ASSUME StoreInv, MigrationValid, Len(Chain) = 1, Marker # NoLedger,
           ledgerState' = LegacyFile(Snapshot),
           ledgerDisk' = ledgerDisk, ledgerBase' = ledgerBase
    PROVE  StoreInv' /\ IsLegacy'
<1>. USE DEF StoreInv
<1>0. Snapshot \in LegacyLogs
  BY ChainFacts DEF FilesFounded, MigrationValid
<1>1. LedgerTypeOK'
  BY <1>0, FileFacts DEF LedgerTypeOK
<1>2. /\ Chain' = Chain /\ Snapshot' = Snapshot /\ Marker' = Marker /\ Migrated' = Migrated
      /\ IsLegacy' /\ ~IsProjected' /\ Replayable' = Replayable
      /\ ledgerState'.changes = Snapshot /\ ledgerState' # NoLedger
  BY <1>0, FileFacts DEF Chain, Snapshot, Marker, Migrated, IsLegacy, IsProjected, Replayable
<1>3. FilesFounded'
  BY <1>2 DEF FilesFounded, MigrationValid
<1>4. RetriesFounded'
  BY <1>2, MarkerFacts DEF RetriesFounded, MigrationValid, Migrated
<1>5. HeadsSound'
  BY <1>2 DEF HeadsSound
<1>. QED
  BY <1>1, <1>2, <1>3, <1>4, <1>5

LEMMA CompletionKeeps ==
    ASSUME StoreInv, MigrationValid, Len(Chain) = 1, Marker # NoLedger, IsLegacy,
           ledgerDisk' = [ledgerDisk EXCEPT !.done = TRUE],
           ledgerState' = ledgerState, ledgerBase' = ledgerBase
    PROVE  StoreInv'
<1>. USE DEF StoreInv
<1>1. LedgerTypeOK'
  BY DEF LedgerTypeOK
<1>2. /\ Chain' = Chain /\ Snapshot' = Snapshot /\ Marker' = Marker /\ Migrated' = Migrated
      /\ ledgerDisk'.receipt = ledgerDisk.receipt /\ ledgerDisk'.done
      /\ IsLegacy' = IsLegacy /\ IsProjected' = IsProjected /\ Replayable' = Replayable
      /\ ledgerDisk'.dirs = ledgerDisk.dirs
  BY DEF LedgerTypeOK, Chain, Snapshot, Marker, Migrated, IsLegacy, IsProjected, Replayable
<1>3. FilesFounded'
  BY <1>2 DEF FilesFounded, MigrationValid
<1>4. RetriesFounded'
  BY <1>2, MarkerFacts DEF RetriesFounded, MigrationValid, Migrated
<1>5. HeadsSound'
  BY <1>2 DEF HeadsSound
<1>. QED
  BY <1>1, <1>3, <1>4, <1>5

-----------------------------------------------------------------------------
(* What a write does to the history                                          *)

Happened == {History[i] : i \in DOMAIN History}

(* The history stays or grows by one change, made on what its author saw.   *)
Grows(c) ==
    /\ c \notin Happened /\ History' = Append(History, c)
    /\ c \in Fenced => ledgerBase[c].history = History

HistoryStep ==
    History' = History \/ \E c \in Fenced \cup LedgerLegacy \cup {LedgerInit} : Grows(c)

LEMMA HistoryFacts ==
    ASSUME StoreInv
    PROVE  /\ Chain # <<>> /\ ~ledgerDisk.done => History = Replayable
           /\ Chain = <<>> /\ ledgerState = NoLedger => History = <<>>
           /\ IsLegacy /\ (Chain = <<>> \/ ledgerDisk.done) => History = ledgerState.changes
           /\ Migrated => /\ Snapshot \in LegacyLogs /\ Tail(Chain) \in Seq(Events)
                          /\ Replayable = Snapshot \o Tail(Chain)
           /\ ~Migrated => Replayable = Chain
           /\ Replayable \in Seq(Events \cup LedgerLegacy)
           /\ History \in Seq(Events \cup LedgerLegacy)
<1>. USE DEF StoreInv
<1>1. /\ Chain # <<>> /\ ~ledgerDisk.done => History = Replayable
      /\ Chain = <<>> /\ ledgerState = NoLedger => History = <<>>
      /\ IsLegacy /\ (Chain = <<>> \/ ledgerDisk.done) => History = ledgerState.changes
  BY DEF History, IsLegacy
<1>2. Migrated => /\ Snapshot \in LegacyLogs /\ Tail(Chain) \in Seq(Events)
                  /\ Replayable = Snapshot \o Tail(Chain)
  BY ChainFacts DEF FilesFounded, Migrated, Replayable, Snapshot
<1>3. ~Migrated => Replayable = Chain
  BY DEF Replayable
<1>4. Seq(Events) \subseteq Seq(Events \cup LedgerLegacy)
      /\ LegacyLogs \subseteq Seq(Events \cup LedgerLegacy)
  BY SeqMonotonic DEF LegacyLogs
<1>5. Replayable \in Seq(Events \cup LedgerLegacy)
  <2>1. CASE Migrated
    BY <2>1, <1>2, <1>4, ConcatProperties
  <2>2. CASE ~Migrated
    BY <2>2, <1>3, <1>4, ChainFacts
  <2>. QED
    BY <2>1, <2>2
<1>6. History \in Seq(Events \cup LedgerLegacy)
  <2>1. Chain # <<>> \/ ~ledgerDisk.done
    BY MarkerFacts
  <2>2. CASE Chain # <<>> /\ ~ledgerDisk.done
    BY <2>2, <1>1, <1>5
  <2>3. CASE ledgerDisk.done
    BY <2>3, <1>1, <1>4, ChainFacts DEF FilesFounded
  <2>4. CASE Chain = <<>>
    BY <2>4, <1>1, <1>4, ChainFacts DEF FilesFounded
  <2>. QED
    BY <2>1, <2>2, <2>3, <2>4
<1>. QED
  BY <1>1, <1>2, <1>3, <1>5, <1>6

(* A command of the chain happened when it is on the chain.                 *)
LEMMA HappenedOnChain ==
    ASSUME StoreInv, Chain # <<>>, ~ledgerDisk.done, NEW c \in Fenced \cup {LedgerInit}
    PROVE  c \in Happened <=> Contains(Chain, c)
<1>. USE DEF StoreInv
<1>1. CASE ~Migrated
  BY <1>1, HistoryFacts, ChainFacts DEF Happened, Contains
<1>2. CASE Migrated
  <2>. DEFINE s == Snapshot  t == Tail(Chain)
  <2>1. /\ s \in Seq(LedgerLegacy) /\ t \in Seq(Events) /\ History = s \o t
        /\ Chain \in Seq(Events) /\ Len(Chain) \in Nat /\ Len(Chain) >= 1
    <3>1. Chain \in Seq(Events) /\ Len(Chain) \in Nat /\ Len(Chain) >= 1
      BY ChainFacts
    <3>2. Snapshot \in Seq(LedgerLegacy) /\ Tail(Chain) \in Seq(Events)
          /\ Replayable = Snapshot \o Tail(Chain)
      BY <1>2, HistoryFacts DEF LegacyLogs
    <3>3. History = Replayable
      BY HistoryFacts
    <3>. QED
      BY <3>1, <3>2, <3>3
  <2>2. Len(t) = Len(Chain) - 1 /\ \A i \in 1 .. Len(t) : t[i] = Chain[i + 1]
    BY <2>1
  <2>3. c # Chain[1] /\ c \notin LedgerLegacy
    <3>1. Chain[1] \in LedgerMigrations
      BY <1>2, <2>1 DEF Migrated
    <3>. QED
      BY <3>1, LedgerAssumption DEF Fenced, Events
  <2>4. /\ Len(s) \in Nat /\ Len(t) \in Nat /\ \A i \in 1 .. Len(s) : s[i] # c
        /\ DOMAIN History = 1 .. Len(s) + Len(t)
        /\ \A i \in 1 .. Len(s) : History[i] = s[i]
        /\ \A i \in 1 .. Len(t) : History[Len(s) + i] = t[i]
    BY <2>1, <2>3
  <2>. HIDE DEF s, t
  <2>5. ASSUME c \in Happened PROVE Contains(Chain, c)
    <3>1. PICK i \in DOMAIN History : History[i] = c
      BY <2>5 DEF Happened
    <3>2. i - Len(s) \in 1 .. Len(t) /\ i = Len(s) + (i - Len(s))
      BY <3>1, <2>4
    <3>3. t[i - Len(s)] = c
      BY <3>1, <3>2, <2>4
    <3>4. i - Len(s) + 1 \in 1 .. Len(Chain) /\ Chain[i - Len(s) + 1] = c
      BY <3>2, <3>3, <2>1, <2>2, <2>4
    <3>. QED
      BY <3>4 DEF Contains
  <2>6. ASSUME Contains(Chain, c) PROVE c \in Happened
    <3>1. PICK i \in 1 .. Len(Chain) : Chain[i] = c
      BY <2>6 DEF Contains
    <3>2. i - 1 \in 1 .. Len(t) /\ t[i - 1] = c
      BY <3>1, <2>1, <2>2, <2>3
    <3>3. PICK j \in 1 .. Len(t) : t[j] = c
      BY <3>2
    <3>4. Len(s) + j \in DOMAIN History /\ History[Len(s) + j] = c
      BY <3>3, <2>4
    <3>. QED
      BY <3>4 DEF Happened
  <2>. QED
    BY <2>5, <2>6
<1>. QED
  BY <1>1, <1>2

(* An event on a chain is a change of its history.                          *)
LEMMA EventGrows ==
    ASSUME StoreInv, StoreInv', Chain # <<>>, ~ledgerDisk.done, NEW c \in Fenced,
           ~Contains(Chain, c), ledgerBase[c].head = Chain,
           Chain' = Append(Chain, c), Snapshot' = Snapshot,
           ledgerDisk'.done = ledgerDisk.done
    PROVE  Grows(c)
<1>. USE DEF StoreInv
<1>0. c \in Events /\ c \in LedgerCommands
  BY DEF Fenced, Events, LedgerCommands
<1>1. c \notin Happened
  BY HappenedOnChain
<1>2. /\ Chain \in Seq(Events) /\ Len(Chain) \in Nat \ {0} /\ Chain' # <<>>
      /\ Head(Chain') = Head(Chain) /\ Tail(Chain') = Append(Tail(Chain), c)
  <2>1. Chain \in Seq(Events)
    BY ChainFacts
  <2>. QED
    BY <2>1, <1>0, HeadTailAppend
<1>3. Migrated' = Migrated
  BY <1>2 DEF Migrated
<1>4. History = Replayable /\ History' = Replayable'
  <2>1. History' = IF Chain' # <<>> /\ ~ledgerDisk'.done THEN Replayable'
                   ELSE IF ledgerState' = NoLedger THEN <<>> ELSE ledgerState'.changes
    BY DEF History
  <2>. QED
    BY <2>1, <1>2, HistoryFacts
<1>5. Replayable' = Append(Replayable, c)
  <2>1. CASE ~Migrated
    BY <2>1, <1>3, HistoryFacts DEF Replayable
  <2>2. CASE Migrated
    <3>1. Replayable' = Snapshot \o Append(Tail(Chain), c)
      BY <2>2, <1>2, <1>3 DEF Replayable, Snapshot
    <3>2. Snapshot \in Seq(Events \cup LedgerLegacy) /\ Tail(Chain) \in Seq(Events \cup LedgerLegacy)
          /\ Replayable = Snapshot \o Tail(Chain) /\ c \in Events \cup LedgerLegacy
      BY <2>2, <1>0, HistoryFacts, SeqMonotonic DEF LegacyLogs
    <3>3. \A s, t \in Seq(Events \cup LedgerLegacy) : s \o Append(t, c) = Append(s \o t, c)
      <4>. SUFFICES ASSUME NEW s \in Seq(Events \cup LedgerLegacy),
                           NEW t \in Seq(Events \cup LedgerLegacy)
           PROVE s \o Append(t, c) = Append(s \o t, c)
        OBVIOUS
      <4>1. /\ s \o Append(t, c) \in Seq(Events \cup LedgerLegacy)
            /\ Append(s \o t, c) \in Seq(Events \cup LedgerLegacy)
            /\ Len(s \o Append(t, c)) = Len(s) + Len(t) + 1
            /\ Len(Append(s \o t, c)) = Len(s) + Len(t) + 1
        BY <3>2
      <4>2. \A i \in 1 .. Len(s) + Len(t) + 1 : (s \o Append(t, c))[i] = Append(s \o t, c)[i]
        BY <3>2
      <4>. QED
        BY <4>1, <4>2, SeqEqual
    <3>. QED
      BY <3>1, <3>2, <3>3
  <2>. QED
    BY <2>1, <2>2
<1>6. ledgerBase[c].history = Replayable
  BY <1>0, ChainFacts DEF HeadsSound
<1>. QED
  BY <1>1, <1>4, <1>5, <1>6 DEF Grows

-----------------------------------------------------------------------------
(* The writes of each command                                                *)

LEMMA ProjectFacts ==
    /\ ProjectionCurrent => ProjectWrites = <<>>
    /\ ~ProjectionCurrent => ProjectWrites = <<"project">> \o <<>>
  BY DEF ProjectWrites, Missing

(* The chain and the state are the same: nothing happened.                  *)
LEMMA SameHistory ==
    ASSUME ledgerDisk'.events = ledgerDisk.events, ledgerDisk'.done = ledgerDisk.done,
           ledgerDisk'.snapshot = ledgerDisk.snapshot \/ ~Migrated,
           ledgerState' = ledgerState \/ (Chain # <<>> /\ ~ledgerDisk.done)
    PROVE  HistoryStep
<1>1. Chain' = Chain /\ Migrated' = Migrated /\ (Migrated => Replayable' = Replayable)
      /\ (~Migrated => Replayable' = Replayable)
  BY DEF Chain, Migrated, Replayable
<1>2. History' = History
  BY <1>1 DEF History
<1>. QED
  BY <1>2 DEF HistoryStep

LEMMA InitRunWrites ==
    ASSUME LedgerInv, InitRun, LedgerWrite
    PROVE  LedgerInv' /\ HistoryStep
<1>. USE DEF LedgerInv
<1>0. /\ ledgerBase' = ledgerBase /\ InitWrites # <<>>
      /\ ledgerRun' = [command |-> LedgerInit, left |-> Tail(InitWrites)]
      /\ ledgerRun.left = InitWrites
      /\ Marker = NoLedger /\ ~ledgerDisk.done
  BY DEF InitRun, LedgerWrite
<1>. SUFFICES StoreInv' /\ InitRun' /\ HistoryStep
  BY DEF RunSound
<1>1. LedgerActive <=> ledgerDisk.dirs = "events"
  BY <1>0 DEF LedgerActive
<1>2. CASE Chain = <<>>
  <2>0. ledgerState = NoLedger /\ ~ProjectionCurrent /\ ~IsLegacy /\ ~Migrated
        /\ ledgerDisk.dirs \in {"none", "root", "events"}
    BY <1>2, FileFacts, MarkerFacts DEF InitRun, ProjectionCurrent, IsLegacy, StoreInv,
       LedgerTypeOK, Chain
  <2>. DEFINE last == <<"genesis">> \o (<<"project">> \o <<>>)
  <2>1. last \in Seq(WriteKinds)
    BY DEF WriteKinds
  <2>2. InitWrites = BirthWrites(last)
    BY <1>2, <2>0, ProjectFacts DEF InitWrites, Missing
  <2>3. CASE ledgerDisk.dirs # "events"
    <3>. DEFINE w == IF ledgerDisk.dirs = "none" THEN "root" ELSE "events"
                rest == IF ledgerDisk.dirs = "none" THEN <<"events">> \o last ELSE last
    <3>1. InitWrites = <<w>> \o rest
      BY <2>0, <2>2, <2>3, <1>1 DEF BirthWrites, Missing
    <3>2. rest \in Seq(WriteKinds) /\ w \in WriteKinds
      BY <2>1, Listed DEF WriteKinds
    <3>. HIDE DEF rest, last
    <3>3. Head(InitWrites) = w /\ Tail(InitWrites) = rest
      BY <3>1, <3>2, Listed
    <3>4. /\ ledgerDisk' = [ledgerDisk EXCEPT !.dirs = w] /\ ledgerState' = ledgerState
          /\ w \in {"root", "events"}
      BY <1>0, <3>3 DEF LedgerWrite
    <3>5. StoreInv'
      BY <3>4, <1>0, <1>2, <2>0, <2>3, DirWriteKeeps
    <3>6. /\ Chain' = Chain /\ ledgerDisk'.dirs = w /\ Marker' = Marker
          /\ ledgerDisk'.done = ledgerDisk.done /\ ledgerDisk'.snapshot = ledgerDisk.snapshot
          /\ ledgerDisk'.events = ledgerDisk.events /\ ~ProjectionCurrent'
      BY <3>4, <2>0, FileFacts DEF StoreInv, LedgerTypeOK, Chain, Marker, ProjectionCurrent
    <3>7. (LedgerActive)' <=> w = "events"
      BY <3>6, <1>0 DEF LedgerActive
    <3>8. InitWrites' = rest
      <4>1. ProjectWrites' = <<"project">> \o <<>>
        BY <3>6, ProjectFacts DEF ProjectWrites, Missing
      <4>2. InitWrites' = BirthWrites(last)'
        BY <4>1, <3>6, <1>2 DEF InitWrites, Missing, BirthWrites, last
      <4>. QED
        BY <4>2, <3>6, <3>7 DEF BirthWrites, Missing, rest, last
    <3>9. InitRun'
      BY <3>3, <3>4, <3>6, <3>8, <1>0, <1>2, <2>0 DEF InitRun
    <3>. QED
      BY <3>4, <3>5, <3>6, <3>9, SameHistory
  <2>4. CASE ledgerDisk.dirs = "events"
    <3>1. InitWrites = <<"genesis">> \o (<<"project">> \o <<>>)
      BY <2>2, <2>4, <1>1 DEF BirthWrites, Missing
    <3>2. Head(InitWrites) = "genesis" /\ Tail(InitWrites) = <<"project">> \o <<>>
      <4>1. <<"project">> \o <<>> \in Seq(WriteKinds) /\ "genesis" \in WriteKinds
        BY DEF WriteKinds
      <4>. QED
        BY <3>1, <4>1, Listed
    <3>3. ledgerDisk' = [ledgerDisk EXCEPT !.events = Append(@, LedgerInit)]
          /\ ledgerState' = ledgerState
      BY <1>0, <3>2 DEF LedgerWrite, InitRun
    <3>4. StoreInv' /\ Chain' = <<LedgerInit>>
      BY <3>3, <1>0, <1>2, <2>0, <2>4, GenesisKeeps DEF Events
    <3>5. /\ ledgerDisk'.dirs = "events" /\ Marker' = Marker /\ ledgerDisk'.done = ledgerDisk.done
      BY <3>3, <2>4 DEF StoreInv, LedgerTypeOK, Marker
    <3>6. ~ProjectionCurrent'
      BY <3>3, <2>0, FileFacts, <3>4, ChainFacts DEF ProjectionCurrent, StoreInv, LedgerTypeOK, Chain
    <3>7. InitWrites' = <<"project">> \o <<>>
      <4>1. ProjectWrites' = <<"project">> \o <<>>
        BY <3>6 DEF ProjectWrites, Missing
      <4>2. LedgerActive' /\ ledgerDisk'.dirs # "none" /\ Chain' # <<>>
        BY <3>4, <3>5, <1>0 DEF LedgerActive
      <4>. QED
        BY <4>1, <4>2 DEF InitWrites, BirthWrites, Missing
    <3>8. InitRun'
      <4>1. Head(Chain') = LedgerInit /\ Chain' # <<>>
        BY <3>4
      <4>. QED
        BY <4>1, <1>0, <3>2, <3>5, <3>7 DEF InitRun
    <3>9. Grows(LedgerInit)
      <4>1. History = <<>>
        BY <1>2, <2>0, HistoryFacts
      <4>2. History' = <<LedgerInit>>
        <5>1. ~Migrated'
          BY <3>4, LedgerAssumption DEF Migrated
        <5>. QED
          BY <3>4, <3>5, <5>1, <1>0 DEF History, Replayable
      <4>3. LedgerInit \notin Fenced
        BY LedgerAssumption DEF Fenced
      <4>. QED
        BY <4>1, <4>2, <4>3 DEF Grows, Happened
    <3>. QED
      BY <3>4, <3>8, <3>9 DEF HistoryStep
  <2>. QED
    BY <2>0, <2>3, <2>4
<1>3. CASE Chain # <<>>
  <2>1. ledgerDisk.dirs = "events" /\ InitWrites = ProjectWrites
    BY <1>1, <1>3, MarkerFacts DEF InitWrites, BirthWrites, Missing
  <2>2. ~ProjectionCurrent /\ InitWrites = <<"project">> \o <<>>
    BY <2>1, <1>0, ProjectFacts
  <2>3. Head(InitWrites) = "project" /\ Tail(InitWrites) = <<>>
    BY <2>2, Listed DEF WriteKinds
  <2>4. ledgerState' = Projection(Chain) /\ ledgerDisk' = ledgerDisk
    BY <2>3, <1>0 DEF LedgerWrite
  <2>5. StoreInv'
    BY <2>4, <1>0, <1>3, ProjectKeeps
  <2>6. Chain' = Chain /\ Marker' = Marker /\ LedgerActive' = LedgerActive /\ ProjectionCurrent'
    BY <2>4 DEF Chain, Marker, LedgerActive, ProjectionCurrent
  <2>7. InitWrites' = <<>>
    BY <2>1, <2>4, <2>6, <1>1, <1>3 DEF InitWrites, BirthWrites, Missing, ProjectWrites
  <2>8. InitRun'
    BY <2>3, <2>4, <2>6, <2>7, <1>0, <1>3 DEF InitRun
  <2>. QED
    BY <2>4, <2>5, <2>8, <1>0, <1>3, SameHistory
<1>. QED
  BY <1>2, <1>3

LEMMA MigrateRunWrites ==
    ASSUME LedgerInv, NEW m \in LedgerMigrations, MigrateRun(m), LedgerWrite
    PROVE  LedgerInv' /\ HistoryStep
<1>. USE DEF LedgerInv
<1>0. /\ ledgerBase' = ledgerBase /\ MigrateWrites # <<>>
      /\ ledgerRun' = [command |-> m, left |-> Tail(MigrateWrites)]
      /\ ledgerRun.left = MigrateWrites /\ ledgerRun.command = m
      /\ Marker = NoLedger /\ ~ledgerDisk.done
  BY DEF MigrateRun, LedgerWrite
<1>. SUFFICES StoreInv' /\ MigrateRun(m)' /\ HistoryStep
  BY DEF RunSound
<1>1. /\ LedgerActive <=> ledgerDisk.dirs = "events"
      /\ ledgerDisk.dirs \in {"none", "root", "events"}
  BY <1>0 DEF LedgerActive, StoreInv, LedgerTypeOK
<1>. DEFINE fromReceipt == Missing(ledgerDisk.receipt, "receipt", ProjectWrites)
            fromGenesis == Missing(Chain # <<>>, "genesis", fromReceipt)
            fromSnapshot == Missing(ledgerDisk.snapshot # NoLedger, "snapshot", fromGenesis)
<1>2. /\ ProjectWrites \in Seq(WriteKinds) /\ fromReceipt \in Seq(WriteKinds)
      /\ fromGenesis \in Seq(WriteKinds) /\ fromSnapshot \in Seq(WriteKinds)
  <2>1. ProjectWrites \in Seq(WriteKinds)
    BY WritesTypeOK
  <2>2. fromReceipt \in Seq(WriteKinds)
    BY <2>1, Listed DEF Missing, WriteKinds
  <2>3. fromGenesis \in Seq(WriteKinds)
    BY <2>2, Listed DEF Missing, WriteKinds
  <2>4. fromSnapshot \in Seq(WriteKinds)
    BY <2>3, Listed DEF Missing, WriteKinds
  <2>. QED
    BY <2>1, <2>2, <2>3, <2>4
<1>3. MigrateWrites = BirthWrites(fromSnapshot)
  BY DEF MigrateWrites
<1>4. CASE Chain = <<>>
  <2>0. /\ IsLegacy /\ ledgerBase[m].head = ledgerState.changes
        /\ Snapshot \in {NoLedger, ledgerState.changes} /\ ~Migrated
        /\ ~ledgerDisk.receipt /\ ~ProjectionCurrent /\ ledgerState # NoLedger
    BY <1>4, ChainFacts, MarkerFacts DEF MigrateRun, StoreInv, ProjectionCurrent, IsLegacy
  <2>. DEFINE last == <<"receipt">> \o (<<"project">> \o <<>>)
  <2>1. fromGenesis = <<"genesis">> \o last
    BY <1>4, <2>0, ProjectFacts DEF Missing
  <2>2. last \in Seq(WriteKinds)
    BY DEF WriteKinds
  <2>3. CASE ledgerDisk.dirs # "events"
    <3>. DEFINE tail == <<"snapshot">> \o (<<"genesis">> \o last)
                w == IF ledgerDisk.dirs = "none" THEN "root" ELSE "events"
                rest == IF ledgerDisk.dirs = "none" THEN <<"events">> \o tail ELSE tail
    <3>0. Snapshot = NoLedger
      BY <2>3 DEF StoreInv, FilesFounded
    <3>1. fromSnapshot = tail
      BY <2>1, <3>0 DEF Missing, Snapshot
    <3>. HIDE DEF fromSnapshot
    <3>2. MigrateWrites = <<w>> \o rest
      BY <1>1, <1>3, <2>3, <3>1 DEF BirthWrites, Missing
    <3>3. tail \in Seq(WriteKinds)
      BY <3>1, <1>2
    <3>4. rest \in Seq(WriteKinds) /\ w \in WriteKinds
      BY <3>3, Listed DEF WriteKinds
    <3>. HIDE DEF rest, tail, last
    <3>5. Head(MigrateWrites) = w /\ Tail(MigrateWrites) = rest
      BY <3>2, <3>4, Listed
    <3>6. /\ ledgerDisk' = [ledgerDisk EXCEPT !.dirs = w] /\ ledgerState' = ledgerState
          /\ w \in {"root", "events"}
      BY <1>0, <3>5 DEF LedgerWrite
    <3>7. StoreInv'
      BY <3>6, <1>0, <1>4, <2>0, <2>3, DirWriteKeeps
    <3>8. /\ Chain' = Chain /\ ledgerDisk'.dirs = w /\ Marker' = Marker /\ Snapshot' = Snapshot
          /\ ledgerDisk'.done = ledgerDisk.done /\ ledgerDisk'.snapshot = ledgerDisk.snapshot
          /\ ledgerDisk'.events = ledgerDisk.events /\ ~ProjectionCurrent' /\ IsLegacy'
          /\ ~ledgerDisk'.receipt
      BY <3>6, <2>0 DEF StoreInv, LedgerTypeOK, Chain, Marker, Snapshot, ProjectionCurrent, IsLegacy
    <3>9. LedgerActive' <=> w = "events"
      BY <3>8, <1>0 DEF LedgerActive
    <3>10. MigrateWrites' = rest
      <4>1. ProjectWrites' = <<"project">> \o <<>>
        BY <3>8, ProjectFacts DEF ProjectWrites, Missing
      <4>2. MigrateWrites' = BirthWrites(tail)'
        BY <4>1, <3>0, <3>8, <1>4 DEF MigrateWrites, Missing, BirthWrites, tail, last, Snapshot
      <4>. QED
        BY <4>2, <3>8, <3>9 DEF BirthWrites, Missing, rest, tail, last
    <3>11. MigrateRun(m)'
      BY <3>5, <3>6, <3>8, <3>10, <1>0, <1>4, <2>0 DEF MigrateRun
    <3>. QED
      BY <3>6, <3>7, <3>8, <3>11, SameHistory
  <2>4. CASE ledgerDisk.dirs = "events" /\ Snapshot = NoLedger
    <3>1. MigrateWrites = <<"snapshot">> \o (<<"genesis">> \o last)
      BY <1>1, <1>3, <2>1, <2>4 DEF BirthWrites, Missing, Snapshot
    <3>2. <<"genesis">> \o last \in Seq(WriteKinds)
      BY <1>2, <2>1
    <3>. HIDE DEF last
    <3>3. Head(MigrateWrites) = "snapshot" /\ Tail(MigrateWrites) = <<"genesis">> \o last
      BY <3>1, <3>2, Listed DEF WriteKinds
    <3>4. /\ ledgerDisk' = [ledgerDisk EXCEPT !.snapshot = ledgerState.changes]
          /\ ledgerState' = ledgerState
      BY <1>0, <3>3 DEF LedgerWrite
    <3>5. StoreInv'
      BY <3>4, <1>0, <1>4, <2>0, <2>4, SnapshotKeeps
    <3>6. /\ Chain' = Chain /\ ledgerDisk'.dirs = "events" /\ Marker' = Marker
          /\ ledgerDisk'.snapshot = ledgerState.changes /\ Snapshot' = ledgerState.changes
          /\ ledgerDisk'.done = ledgerDisk.done /\ ledgerDisk'.events = ledgerDisk.events
          /\ ~ProjectionCurrent' /\ IsLegacy' /\ ~ledgerDisk'.receipt
      BY <3>4, <2>0, <2>4
         DEF StoreInv, LedgerTypeOK, Chain, Marker, Snapshot, ProjectionCurrent, IsLegacy
    <3>7. ledgerState.changes # NoLedger
      BY <2>0, ChainFacts DEF StoreInv
    <3>8. MigrateWrites' = <<"genesis">> \o last
      <4>1. ProjectWrites' = <<"project">> \o <<>>
        BY <3>6 DEF ProjectWrites, Missing
      <4>2. LedgerActive'
        BY <3>6, <1>0 DEF LedgerActive
      <4>. QED
        BY <4>1, <4>2, <3>6, <3>7, <1>4 DEF MigrateWrites, Missing, BirthWrites, last
    <3>9. MigrateRun(m)'
      BY <3>3, <3>4, <3>6, <3>8, <1>0, <1>4, <2>0 DEF MigrateRun
    <3>. QED
      BY <3>4, <3>5, <3>6, <3>9, <2>0, SameHistory
  <2>5. CASE ledgerDisk.dirs = "events" /\ Snapshot # NoLedger
    <3>1. MigrateWrites = <<"genesis">> \o last
      BY <1>1, <1>3, <2>1, <2>5 DEF BirthWrites, Missing, Snapshot
    <3>. HIDE DEF last
    <3>2. Head(MigrateWrites) = "genesis" /\ Tail(MigrateWrites) = last
      BY <3>1, <2>2, Listed DEF WriteKinds
    <3>3. /\ ledgerDisk' = [ledgerDisk EXCEPT !.events = Append(@, m)]
          /\ ledgerState' = ledgerState
      BY <1>0, <3>2 DEF LedgerWrite
    <3>4. StoreInv' /\ Chain' = <<m>>
      BY <3>3, <1>0, <1>4, <2>0, <2>5, GenesisKeeps DEF Events
    <3>5. /\ ledgerDisk'.dirs = "events" /\ Marker' = Marker /\ Snapshot' = Snapshot
          /\ ledgerDisk'.snapshot = ledgerDisk.snapshot /\ ledgerDisk'.done = ledgerDisk.done
          /\ ~ledgerDisk'.receipt
      BY <3>3, <2>0, <2>5 DEF StoreInv, LedgerTypeOK, Marker, Snapshot
    <3>6. ~ProjectionCurrent'
      BY <3>3, <2>0, FileFacts DEF ProjectionCurrent, IsLegacy
    <3>7. MigrateWrites' = last
      <4>1. ProjectWrites' = <<"project">> \o <<>>
        BY <3>6 DEF ProjectWrites, Missing
      <4>2. LedgerActive' /\ Chain' # <<>>
        BY <3>4, <3>5, <1>0 DEF LedgerActive
      <4>. QED
        BY <4>1, <4>2, <3>5, <2>5 DEF MigrateWrites, Missing, BirthWrites, last, Snapshot
    <3>8. Head(Chain') = m /\ Tail(Chain') = <<>> /\ Chain' # <<>>
      BY <3>4
    <3>9. MigrateRun(m)'
      BY <3>2, <3>5, <3>7, <3>8, <1>0, <2>0, <2>5 DEF MigrateRun
    <3>10. History' = History
      <4>1. History = ledgerState.changes
        BY <1>4, <2>0, HistoryFacts
      <4>2. Migrated'
        BY <3>8 DEF Migrated
      <4>3. History' = Snapshot \o <<>>
        BY <3>5, <3>8, <4>2, <1>0 DEF History, Replayable, Snapshot
      <4>4. Snapshot \in Seq(LedgerLegacy) /\ Snapshot = ledgerState.changes
        BY <2>0, <2>5, ChainFacts DEF StoreInv, LegacyLogs
      <4>. QED
        BY <4>1, <4>3, <4>4, ConcatEmptySeq
    <3>. QED
      BY <3>4, <3>9, <3>10 DEF HistoryStep
  <2>. QED
    BY <1>1, <2>3, <2>4, <2>5
<1>5. CASE Chain # <<>>
  <2>0. /\ Head(Chain) = m /\ ledgerBase[m].head = Snapshot /\ Migrated
        /\ ledgerDisk.dirs = "events" /\ Snapshot # NoLedger
    BY <1>5, MarkerFacts DEF MigrateRun, Migrated, StoreInv, FilesFounded
  <2>1. MigrateWrites = fromReceipt
    BY <1>1, <1>3, <1>5, <2>0 DEF BirthWrites, Missing, Snapshot
  <2>2. CASE ~ledgerDisk.receipt
    <3>1. MigrateWrites = <<"receipt">> \o ProjectWrites
      BY <2>1, <2>2 DEF Missing
    <3>2. Head(MigrateWrites) = "receipt" /\ Tail(MigrateWrites) = ProjectWrites
      BY <3>1, <1>2, Listed DEF WriteKinds
    <3>3. ledgerDisk' = [ledgerDisk EXCEPT !.receipt = TRUE] /\ ledgerState' = ledgerState
      BY <1>0, <3>2 DEF LedgerWrite
    <3>4. StoreInv'
      BY <3>3, <1>0, <2>0, ReceiptKeeps
    <3>5. /\ Chain' = Chain /\ ledgerDisk'.dirs = "events" /\ Marker' = Marker
          /\ Snapshot' = Snapshot /\ ledgerDisk'.snapshot = ledgerDisk.snapshot
          /\ ledgerDisk'.done = ledgerDisk.done /\ ledgerDisk'.events = ledgerDisk.events
          /\ ledgerDisk'.receipt /\ ProjectionCurrent' = ProjectionCurrent
      BY <3>3, <2>0 DEF StoreInv, LedgerTypeOK, Chain, Marker, Snapshot, ProjectionCurrent
    <3>6. MigrateWrites' = ProjectWrites
      <4>1. LedgerActive' /\ Chain' # <<>> /\ ProjectWrites' = ProjectWrites
        BY <3>5, <1>0, <1>5 DEF LedgerActive, ProjectWrites, Missing
      <4>. QED
        BY <4>1, <3>5, <2>0 DEF MigrateWrites, Missing, BirthWrites, Snapshot
    <3>7. MigrateRun(m)'
      BY <3>2, <3>5, <3>6, <1>0, <1>5, <2>0 DEF MigrateRun
    <3>. QED
      BY <3>3, <3>4, <3>5, <3>7, SameHistory
  <2>3. CASE ledgerDisk.receipt
    <3>1. ~ProjectionCurrent /\ MigrateWrites = <<"project">> \o <<>>
      BY <1>0, <2>1, <2>3, ProjectFacts DEF Missing
    <3>2. Head(MigrateWrites) = "project" /\ Tail(MigrateWrites) = <<>>
      BY <3>1, Listed DEF WriteKinds
    <3>3. ledgerState' = Projection(Chain) /\ ledgerDisk' = ledgerDisk
      BY <3>2, <1>0 DEF LedgerWrite
    <3>4. StoreInv'
      BY <3>3, <1>0, <1>5, ProjectKeeps
    <3>5. /\ Chain' = Chain /\ Marker' = Marker /\ LedgerActive' = LedgerActive
          /\ ProjectionCurrent' /\ Snapshot' = Snapshot
      BY <3>3 DEF Chain, Marker, LedgerActive, ProjectionCurrent, Snapshot
    <3>6. MigrateWrites' = <<>>
      <4>1. LedgerActive' /\ Chain' # <<>>
        BY <3>5, <1>1, <1>5, <2>0
      <4>. QED
        BY <4>1, <3>3, <3>5, <2>0, <2>3
           DEF MigrateWrites, BirthWrites, Missing, ProjectWrites, Snapshot
    <3>7. MigrateRun(m)'
      BY <3>2, <3>3, <3>5, <3>6, <1>0, <1>5, <2>0 DEF MigrateRun
    <3>. QED
      BY <3>3, <3>4, <3>7, <1>0, <1>5, SameHistory
  <2>. QED
    BY <2>2, <2>3
<1>. QED
  BY <1>4, <1>5

LEMMA RollbackRunWrites ==
    ASSUME LedgerInv, NEW r \in LedgerRollbacks, RollbackRun(r), LedgerWrite
    PROVE  LedgerInv' /\ HistoryStep
<1>. USE DEF LedgerInv
<1>0. /\ ledgerBase' = ledgerBase /\ RollbackWrites # <<>>
      /\ ledgerRun' = [command |-> r, left |-> Tail(RollbackWrites)]
      /\ ledgerRun.left = RollbackWrites /\ ledgerRun.command = r
      /\ MigrationValid /\ Len(Chain) = 1 /\ ledgerBase[r].head = Chain
      /\ Marker \in {NoLedger, r}
  BY DEF RollbackRun, LedgerWrite
<1>. SUFFICES StoreInv' /\ RollbackRun(r)' /\ HistoryStep
  BY DEF RunSound
<1>. DEFINE rest == IF ledgerDisk.done THEN <<>>
                    ELSE Missing(ledgerState = LegacyFile(ledgerDisk.snapshot), "restore",
                                 <<"completion">>)
<1>1. Migrated /\ Chain # <<>> /\ Snapshot # NoLedger /\ r # NoLedger
  BY <1>0, LedgerAssumption
     DEF MigrationValid, Migrated, StoreInv, FilesFounded, LedgerCommands
<1>2. rest \in Seq(WriteKinds) /\ <<"completion">> \in Seq(WriteKinds)
  <2>1. <<"completion">> \in Seq(WriteKinds) /\ <<>> \in Seq(WriteKinds)
    BY DEF WriteKinds
  <2>. QED
    BY <2>1, Listed DEF Missing, WriteKinds
<1>3. CASE Marker = NoLedger
  <2>1. RollbackWrites = <<"marker">> \o rest
    BY <1>3 DEF RollbackWrites, Missing, Marker
  <2>. HIDE DEF rest
  <2>2. Head(RollbackWrites) = "marker" /\ Tail(RollbackWrites) = rest
    BY <2>1, <1>2, Listed DEF WriteKinds
  <2>3. ledgerDisk' = [ledgerDisk EXCEPT !.marker = r] /\ ledgerState' = ledgerState
    BY <1>0, <2>2 DEF LedgerWrite
  <2>4. StoreInv' /\ Marker' = r
    BY <2>3, <1>0, <1>3, MarkerKeeps
  <2>5. /\ Chain' = Chain /\ ledgerDisk'.snapshot = ledgerDisk.snapshot
        /\ ledgerDisk'.done = ledgerDisk.done /\ ledgerDisk'.events = ledgerDisk.events
        /\ ledgerDisk'.receipt = ledgerDisk.receipt /\ MigrationValid' = MigrationValid
        /\ ledgerDisk'.marker = r
    BY <2>3 DEF StoreInv, LedgerTypeOK, Chain, MigrationValid, Migrated
  <2>6. RollbackWrites' = rest
    BY <2>3, <2>5, <1>1 DEF RollbackWrites, Missing, rest
  <2>7. RollbackRun(r)'
    BY <2>2, <2>4, <2>5, <2>6, <1>0 DEF RollbackRun
  <2>. QED
    BY <2>3, <2>4, <2>5, <2>7, SameHistory
<1>4. CASE Marker = r
  <2>1. RollbackWrites = rest /\ ~ledgerDisk.done
    BY <1>0, <1>1, <1>4 DEF RollbackWrites, Missing, Marker
  <2>2. CASE ledgerState # LegacyFile(Snapshot)
    <3>1. RollbackWrites = <<"restore">> \o <<"completion">>
      BY <2>1, <2>2 DEF Missing, Snapshot
    <3>. HIDE DEF rest
    <3>2. Head(RollbackWrites) = "restore" /\ Tail(RollbackWrites) = <<"completion">>
      BY <3>1, <1>2, Listed DEF WriteKinds
    <3>3. ledgerState' = LegacyFile(Snapshot) /\ ledgerDisk' = ledgerDisk
      BY <1>0, <3>2 DEF LedgerWrite, Snapshot
    <3>4. StoreInv'
      BY <3>3, <1>0, <1>1, <1>4, RestoreKeeps
    <3>5. /\ Chain' = Chain /\ Marker' = Marker /\ MigrationValid' = MigrationValid
      BY <3>3 DEF Chain, Marker, MigrationValid, Migrated
    <3>6. RollbackWrites' = <<"completion">>
      BY <3>3, <2>1, <1>1, <1>4 DEF RollbackWrites, Missing, Marker, Snapshot
    <3>7. RollbackRun(r)'
      BY <3>2, <3>5, <3>6, <1>0 DEF RollbackRun
    <3>. QED
      BY <3>3, <3>4, <3>7, <1>1, <2>1, SameHistory
  <2>3. CASE ledgerState = LegacyFile(Snapshot)
    <3>1. RollbackWrites = <<"completion">>
      BY <2>1, <2>3 DEF Missing, Snapshot
    <3>. HIDE DEF rest
    <3>2. Head(RollbackWrites) = "completion" /\ Tail(RollbackWrites) = <<>>
      BY <3>1
    <3>3. ledgerDisk' = [ledgerDisk EXCEPT !.done = TRUE] /\ ledgerState' = ledgerState
      BY <1>0, <3>2 DEF LedgerWrite
    <3>4. IsLegacy /\ ledgerState.changes = Snapshot
      BY <2>3, <1>1, ChainFacts, FileFacts DEF IsLegacy, StoreInv
    <3>5. StoreInv'
      BY <3>3, <3>4, <1>0, <1>1, <1>4, CompletionKeeps
    <3>6. /\ Chain' = Chain /\ Marker' = Marker /\ MigrationValid' = MigrationValid
          /\ ledgerDisk'.done /\ ledgerDisk'.marker = ledgerDisk.marker
      BY <3>3 DEF StoreInv, LedgerTypeOK, Chain, Marker, MigrationValid, Migrated
    <3>7. RollbackWrites' = <<>>
      BY <3>6, <1>1, <1>4 DEF RollbackWrites, Missing, Marker
    <3>8. RollbackRun(r)'
      BY <3>2, <3>6, <3>7, <1>0 DEF RollbackRun
    <3>9. History' = History
      <4>1. History' = Snapshot
        BY <3>3, <3>4, <3>6 DEF History, IsLegacy
      <4>2. History = Snapshot \o Tail(Chain) /\ Snapshot \in Seq(LedgerLegacy)
        BY <1>1, <2>1, HistoryFacts DEF LegacyLogs
      <4>3. Tail(Chain) = <<>>
        <5>1. Chain \in Seq(Events)
          BY ChainFacts DEF StoreInv
        <5>2. Tail(Chain) \in Seq(Events) /\ Len(Tail(Chain)) = 0
          BY <5>1, <1>0, <1>1
        <5>3. \A t \in Seq(Events) : Len(t) = 0 => t = <<>>
          OBVIOUS
        <5>. QED
          BY <5>2, <5>3
      <4>. QED
        BY <4>1, <4>2, <4>3, ConcatEmptySeq
    <3>. QED
      BY <3>5, <3>8, <3>9 DEF HistoryStep
  <2>. QED
    BY <2>2, <2>3
<1>. QED
  BY <1>0, <1>3, <1>4

LEMMA AppendRunWrites ==
    ASSUME LedgerInv, NEW c \in DOMAIN LedgerChanges, AppendRun(c), LedgerWrite
    PROVE  LedgerInv' /\ HistoryStep
<1>. USE DEF LedgerInv
<1>0. /\ ledgerBase' = ledgerBase /\ AppendWrites(c) # <<>>
      /\ ledgerRun' = [command |-> c, left |-> Tail(AppendWrites(c))]
      /\ ledgerRun.left = AppendWrites(c) /\ ledgerRun.command = c
      /\ LedgerActive /\ ProjectionValid /\ Chain # <<>> /\ ~ledgerDisk.done /\ ~IsLegacy
  BY DEF AppendRun, LedgerWrite, LedgerActive, ProjectionValid, IsLegacy
<1>. SUFFICES StoreInv' /\ AppendRun(c)' /\ HistoryStep
  BY DEF RunSound
<1>1. /\ <<"event", "project">> = <<"event">> \o <<"project">>
      /\ <<"event", "project">> \in Seq(WriteKinds) /\ <<"project">> \in Seq(WriteKinds)
      /\ <<"project">> = <<"project">> \o <<>>
  BY DEF WriteKinds
<1>2. CASE ~ProjectionCurrent
  <2>. DEFINE rest == IF Contains(Chain, c) THEN <<>> ELSE <<"event", "project">>
  <2>1. AppendWrites(c) = <<"project">> \o rest
    BY <1>2, ProjectFacts DEF AppendWrites, Missing
  <2>2. rest \in Seq(WriteKinds)
    BY <1>1
  <2>. HIDE DEF rest
  <2>3. Head(AppendWrites(c)) = "project" /\ Tail(AppendWrites(c)) = rest
    BY <2>1, <2>2, Listed DEF WriteKinds
  <2>4. ledgerState' = Projection(Chain) /\ ledgerDisk' = ledgerDisk
    BY <2>3, <1>0 DEF LedgerWrite
  <2>5. StoreInv'
    BY <2>4, <1>0, ProjectKeeps
  <2>6. Chain' = Chain /\ Marker' = Marker /\ LedgerActive' = LedgerActive /\ ProjectionCurrent'
    BY <2>4 DEF Chain, Marker, LedgerActive, ProjectionCurrent
  <2>7. ProjectionValid'
    <3>1. IsPrefix(Chain, Chain)
      <4>1. c \in Events /\ Chain \in Seq(Events)
        BY ChainFacts DEF StoreInv, Events
      <4>. QED
        BY <4>1, PrefixFacts
    <3>. QED
      BY <3>1, <2>4, <2>6, <1>0, FileFacts DEF ProjectionValid
  <2>8. AppendWrites(c)' = rest
    BY <2>6 DEF AppendWrites, Missing, ProjectWrites, Contains, rest
  <2>9. AppendRun(c)'
    BY <2>3, <2>6, <2>7, <2>8, <1>0 DEF AppendRun, Contains
  <2>. QED
    BY <2>4, <2>5, <2>9, <1>0, SameHistory
<1>3. CASE ProjectionCurrent
  <2>1. ~Contains(Chain, c) /\ AppendWrites(c) = <<"event">> \o <<"project">>
    BY <1>0, <1>1, <1>3, ProjectFacts DEF AppendWrites, Missing
  <2>2. /\ ledgerBase[c].head = Chain
        /\ Marker # NoLedger => LedgerChanges[c] = "record"
    BY <2>1, LedgerAssumption DEF AppendRun
  <2>3. Head(AppendWrites(c)) = "event" /\ Tail(AppendWrites(c)) = <<"project">>
    <3>. DEFINE rest == <<"project">>
    <3>1. rest \in Seq(WriteKinds) /\ AppendWrites(c) = <<"event">> \o rest
      BY <1>1, <2>1
    <3>2. "event" \in WriteKinds
      BY DEF WriteKinds
    <3>. HIDE DEF rest
    <3>3. Head(AppendWrites(c)) = "event" /\ Tail(AppendWrites(c)) = rest
      BY <3>1, <3>2, Listed
    <3>. QED
      BY <3>3 DEF rest
  <2>4. ledgerDisk' = [ledgerDisk EXCEPT !.events = Append(@, c)] /\ ledgerState' = ledgerState
    BY <2>3, <1>0 DEF LedgerWrite
  <2>5. StoreInv' /\ Chain' = Append(Chain, c)
    BY <2>2, <2>4, <1>0, EventKeeps
  <2>6. /\ Snapshot' = Snapshot /\ ledgerDisk'.done = ledgerDisk.done
        /\ LedgerActive' = LedgerActive
    BY <2>4 DEF StoreInv, LedgerTypeOK, Snapshot, LedgerActive
  <2>7. c \in Events /\ Chain \in Seq(Events) /\ IsPrefix(Chain, Append(Chain, c))
        /\ Append(Chain, c) # Chain
    <3>1. c \in Events /\ Chain \in Seq(Events)
      BY ChainFacts DEF StoreInv, Events
    <3>2. Len(Append(Chain, c)) # Len(Chain)
      BY <3>1
    <3>. QED
      BY <3>1, <3>2, PrefixFacts
  <2>8. ProjectionValid' /\ ~ProjectionCurrent' /\ Contains(Chain', c)
    <3>1. ledgerState' = Projection(Chain)
      BY <2>4, <1>3 DEF ProjectionCurrent
    <3>2. Chain' # <<>> /\ Chain'[Len(Chain')] = c /\ Len(Chain') \in 1 .. Len(Chain')
      BY <2>5, <2>7
    <3>3. Contains(Chain', c)
      BY <3>2 DEF Contains
    <3>4. ledgerState'.form = "projection" /\ ledgerState'.changes = Chain
      BY <3>1, FileFacts
    <3>5. ~ProjectionCurrent'
      <4>1. Projection(Chain').changes = Chain'
        BY FileFacts
      <4>. QED
        BY <4>1, <3>4, <2>5, <2>7 DEF ProjectionCurrent
    <3>6. ProjectionValid'
      BY <3>2, <3>4, <2>5, <2>7 DEF ProjectionValid
    <3>. QED
      BY <3>3, <3>5, <3>6
  <2>9. AppendWrites(c)' = <<"project">>
    <3>1. ProjectWrites' = <<"project">> \o <<>>
      BY <2>8 DEF ProjectWrites, Missing
    <3>2. Contains(Chain, c)'
      BY <2>8 DEF Contains
    <3>. QED
      BY <3>1, <3>2, <1>1 DEF AppendWrites
  <2>10. AppendRun(c)'
    <3>1. Contains(Chain, c)'
      BY <2>8 DEF Contains
    <3>. QED
      BY <2>3, <2>6, <2>8, <2>9, <3>1, <1>0 DEF AppendRun
  <2>11. Grows(c)
    BY <2>1, <2>2, <2>5, <2>6, <1>0, EventGrows DEF Fenced
  <2>. QED
    BY <2>5, <2>10, <2>11 DEF HistoryStep, Fenced
<1>. QED
  BY <1>2, <1>3

-----------------------------------------------------------------------------
(* The commands                                                              *)

(* A command that starts leaves the files alone.                            *)
LEMMA StartKeeps ==
    ASSUME StoreInv, ledgerDisk' = ledgerDisk, ledgerState' = ledgerState,
           ledgerBase' = ledgerBase
    PROVE  StoreInv' /\ History' = History
<1>1. /\ Chain' = Chain /\ Snapshot' = Snapshot /\ Marker' = Marker /\ Migrated' = Migrated
      /\ IsLegacy' = IsLegacy /\ IsProjected' = IsProjected /\ Replayable' = Replayable
  BY DEF Chain, Snapshot, Marker, Migrated, IsLegacy, IsProjected, Replayable
<1>2. LedgerTypeOK'
  BY DEF StoreInv, LedgerTypeOK
<1>3. FilesFounded'
  BY <1>1 DEF StoreInv, FilesFounded, MigrationValid
<1>4. RetriesFounded'
  BY <1>1 DEF StoreInv, RetriesFounded
<1>5. HeadsSound'
  BY <1>1 DEF StoreInv, HeadsSound
<1>6. History' = History
  BY <1>1 DEF History
<1>. QED
  BY <1>2, <1>3, <1>4, <1>5, <1>6 DEF StoreInv

LEMMA InitTaskKeeps ==
    ASSUME LedgerInv, InitTask
    PROVE  LedgerInv'
<1>. USE DEF LedgerInv
<1>1. /\ ledgerDisk' = ledgerDisk /\ ledgerState' = ledgerState /\ ledgerBase' = ledgerBase
      /\ ledgerRun' = [command |-> LedgerInit, left |-> InitWrites] /\ InitAllowed
  BY DEF InitTask, StartCommand
<1>2. StoreInv'
  BY <1>1, StartKeeps
<1>3. Chain = <<>> \/ Head(Chain) = LedgerInit
  BY <1>1 DEF InitAllowed, StoreInv, FilesFounded
<1>4. /\ Marker = NoLedger /\ ~ledgerDisk.done
      /\ IF Chain = <<>> THEN ledgerState = NoLedger ELSE Head(Chain) = LedgerInit
  <2>1. ~Migrated
    BY <1>3, MarkerFacts, LedgerAssumption DEF Migrated
  <2>2. Marker = NoLedger /\ ~ledgerDisk.done
    BY <2>1, MarkerFacts
  <2>. QED
    BY <1>1, <1>3, <2>2 DEF InitAllowed
<1>5. InitWrites' = InitWrites /\ Chain' = Chain /\ Marker' = Marker
  BY <1>1 DEF InitWrites, BirthWrites, Missing, ProjectWrites, ProjectionCurrent,
              LedgerActive, Chain, Marker
<1>6. InitRun'
  BY <1>1, <1>4, <1>5 DEF InitRun
<1>. QED
  BY <1>2, <1>6 DEF RunSound

LEMMA MigrateKeeps ==
    ASSUME LedgerInv, NEW m \in LedgerMigrations, Migrate(m)
    PROVE  LedgerInv'
<1>. USE DEF LedgerInv
<1>1. /\ ledgerDisk' = ledgerDisk /\ ledgerState' = ledgerState /\ ledgerBase' = ledgerBase
      /\ ledgerRun' = [command |-> m, left |-> MigrateWrites] /\ MigrateAllowed(m)
  BY DEF Migrate, StartCommand
<1>2. StoreInv'
  BY <1>1, StartKeeps
<1>3. Marker = NoLedger /\ ~ledgerDisk.done
  BY <1>1, MarkerFacts DEF MigrateAllowed, Marker
<1>4. IF Chain = <<>>
      THEN /\ IsLegacy /\ ledgerBase[m].head = ledgerState.changes
           /\ Snapshot \in {NoLedger, ledgerState.changes}
      ELSE Head(Chain) = m /\ ledgerBase[m].head = Snapshot
  <2>1. Chain = <<>> => ~IsProjected
    BY DEF StoreInv, FilesFounded
  <2>2. ledgerState = NoLedger \/ IsLegacy \/ IsProjected
    BY ChainFacts DEF StoreInv
  <2>. QED
    BY <1>1, <2>1, <2>2 DEF MigrateAllowed, MigrateFirst, MigrateAgain, Snapshot
<1>5. /\ MigrateWrites' = MigrateWrites /\ Chain' = Chain /\ Marker' = Marker
      /\ Snapshot' = Snapshot /\ IsLegacy' = IsLegacy
  BY <1>1 DEF MigrateWrites, BirthWrites, Missing, ProjectWrites, ProjectionCurrent,
              LedgerActive, Chain, Marker, Snapshot, IsLegacy
<1>6. MigrateRun(m)'
  BY <1>1, <1>3, <1>4, <1>5 DEF MigrateRun
<1>. QED
  BY <1>2, <1>6 DEF RunSound

LEMMA RollbackKeeps ==
    ASSUME LedgerInv, NEW r \in LedgerRollbacks, Rollback(r)
    PROVE  LedgerInv'
<1>. USE DEF LedgerInv
<1>1. /\ ledgerDisk' = ledgerDisk /\ ledgerState' = ledgerState /\ ledgerBase' = ledgerBase
      /\ ledgerRun' = [command |-> r, left |-> RollbackWrites] /\ RollbackAllowed(r)
  BY DEF Rollback, StartCommand
<1>2. StoreInv'
  BY <1>1, StartKeeps
<1>3. /\ RollbackWrites' = RollbackWrites /\ Chain' = Chain /\ Marker' = Marker
      /\ MigrationValid' = MigrationValid
  BY <1>1 DEF RollbackWrites, Missing, Chain, Marker, MigrationValid, Migrated
<1>4. RollbackRun(r)'
  BY <1>1, <1>3 DEF RollbackRun, RollbackAllowed, Marker
<1>. QED
  BY <1>2, <1>4 DEF RunSound

LEMMA AppendKeeps ==
    ASSUME LedgerInv, NEW c \in DOMAIN LedgerChanges, AppendChange(c)
    PROVE  LedgerInv'
<1>. USE DEF LedgerInv
<1>1. /\ ledgerDisk' = ledgerDisk /\ ledgerState' = ledgerState /\ ledgerBase' = ledgerBase
      /\ LedgerActive /\ ProjectionValid /\ Chain # <<>>
  BY DEF AppendChange, StartCommand, Loads, ProjectionValid
<1>2. StoreInv'
  BY <1>1, StartKeeps
<1>3. /\ ledgerRun' = [command |-> c, left |-> AppendWrites(c)]
      /\ ~Contains(Chain, c) =>
            ledgerBase[c].head = Chain /\ (LedgerChanges[c] = "close" => Marker = NoLedger)
  <2>1. CASE AppendFirst(c) /\
             StartCommand(c, Missing(ProjectionCurrent, "project", <<"event", "project">>))
    BY <2>1 DEF AppendFirst, StartCommand, AppendWrites, HeadHolds, CloseGate, Marker
  <2>2. CASE AppendAgain(c) /\ StartCommand(c, ProjectWrites)
    <3>1. Chain \in Seq(Events)
      BY ChainFacts DEF StoreInv
    <3>2. Len(Chain) \in 1 .. Len(Chain) /\ Chain[Len(Chain)] = c
      BY <3>1, <2>2, <1>1 DEF AppendAgain, Last
    <3>3. Contains(Chain, c)
      BY <3>2 DEF Contains
    <3>. QED
      BY <2>2, <3>3 DEF StartCommand, AppendWrites
  <2>. QED
    BY <2>1, <2>2 DEF AppendChange
<1>4. /\ AppendWrites(c)' = AppendWrites(c) /\ Chain' = Chain /\ Marker' = Marker
      /\ LedgerActive' = LedgerActive /\ ProjectionValid' = ProjectionValid
      /\ Contains(Chain, c)' = Contains(Chain, c)
  BY <1>1 DEF AppendWrites, Missing, ProjectWrites, ProjectionCurrent, LedgerActive,
              ProjectionValid, Chain, Marker, Contains
<1>5. AppendRun(c)'
  BY <1>1, <1>3, <1>4 DEF AppendRun
<1>. QED
  BY <1>2, <1>5 DEF RunSound

LEMMA ReadHeadKeeps ==
    ASSUME LedgerInv, NEW c \in LedgerCommands, ReadHead(c)
    PROVE  /\ LedgerInv' /\ History' = History
           /\ ledgerBase' = [ledgerBase EXCEPT ![c] = [head |-> LedgerHead, history |-> History]]
           /\ ledgerTold' = ledgerTold
<1>. USE DEF LedgerInv
<1>1. /\ ledgerDisk' = ledgerDisk /\ ledgerState' = ledgerState
      /\ ledgerBase' = [ledgerBase EXCEPT ![c] = [head |-> LedgerHead, history |-> History]]
      /\ ledgerRun' = NoLedger /\ Loads /\ ledgerTold' = ledgerTold
  BY DEF ReadHead, LedgerIdle
<1>2. /\ Chain' = Chain /\ Snapshot' = Snapshot /\ Marker' = Marker /\ Migrated' = Migrated
      /\ IsLegacy' = IsLegacy /\ IsProjected' = IsProjected /\ Replayable' = Replayable
  BY <1>1 DEF Chain, Snapshot, Marker, Migrated, IsLegacy, IsProjected, Replayable
<1>3. /\ LedgerActive => LedgerHead = Chain /\ Chain # <<>> /\ History = Replayable
      /\ ~LedgerActive => LedgerHead \in LegacyLogs /\ IsLegacy
  <2>1. CASE LedgerActive
    BY <2>1, <1>1 DEF Loads, LedgerHead, LedgerActive, ProjectionValid, History
  <2>2. CASE ~LedgerActive
    BY <2>2, <1>1, ChainFacts DEF Loads, LedgerHead, IsLegacy, StoreInv
  <2>. QED
    BY <2>1, <2>2
<1>4. LedgerTypeOK'
  <2>1. LedgerHead \in {NoLedger} \cup Seq(Events) \cup LegacyLogs
    BY <1>3, ChainFacts DEF StoreInv
  <2>2. History \in Seq(Events \cup LedgerLegacy)
    BY HistoryFacts
  <2>. QED
    BY <2>1, <2>2, <1>1 DEF StoreInv, LedgerTypeOK
<1>5. FilesFounded'
  BY <1>1, <1>2 DEF StoreInv, FilesFounded, MigrationValid
<1>6. RetriesFounded'
  <2>1. ~(ledgerDisk.dirs = "events" /\ Chain = <<>> /\ IsLegacy)
    BY <1>3, MarkerFacts DEF LedgerActive
  <2>2. ~(IsLegacy /\ Migrated /\ Marker = NoLedger)
    BY <1>1, MarkerFacts DEF LedgerActive, Loads, ProjectionValid, IsLegacy, Migrated
  <2>3. ASSUME Marker # NoLedger, ~ledgerDisk.done
        PROVE  Len(Chain) = 1 /\ ledgerBase'[Marker].head = Chain
    <3>1. LedgerActive
      BY <2>3, MarkerFacts DEF LedgerActive, Migrated
    <3>2. Len(Chain) = 1 /\ ledgerBase[Marker].head = Chain
      BY <2>3, <1>1 DEF Loads, MarkerValid, Marker, StoreInv, RetriesFounded
    <3>. QED
      BY <3>1, <3>2, <1>1, <1>3, <2>3 DEF StoreInv, LedgerTypeOK, Marker, LedgerCommands
  <2>. QED
    BY <2>1, <2>2, <2>3, <1>1, <1>2 DEF RetriesFounded
<1>7. HeadsSound'
  <2>. SUFFICES ASSUME NEW b \in LedgerCommands,
                       ledgerBase'[b].head \notin {NoLedger} \cup LegacyLogs
       PROVE /\ Len(ledgerBase'[b].head) <= Len(Chain)
             /\ ledgerBase'[b].head = Chain => ledgerBase'[b].history = Replayable
    BY <1>2 DEF HeadsSound
  <2>1. CASE b = c
    <3>1. ledgerBase'[b].head = LedgerHead /\ ledgerBase'[b].history = History
      BY <2>1, <1>1 DEF StoreInv, LedgerTypeOK
    <3>2. LedgerActive
      BY <3>1, <1>3
    <3>3. Len(Chain) \in Nat
      BY ChainFacts DEF StoreInv
    <3>. QED
      BY <3>1, <3>2, <3>3, <1>3
  <2>2. CASE b # c
    BY <2>2, <1>1 DEF StoreInv, LedgerTypeOK, HeadsSound
  <2>. QED
    BY <2>1, <2>2
<1>8. History' = History
  BY <1>1, <1>2 DEF History
<1>. QED
  BY <1>1, <1>4, <1>5, <1>6, <1>7, <1>8 DEF RunSound, StoreInv

LEMMA LegacyWriteKeeps ==
    ASSUME LedgerInv, NEW w \in LedgerLegacy, LegacyWrite(w)
    PROVE  LedgerInv' /\ Grows(w) /\ w \notin Fenced
<1>. USE DEF LedgerInv
<1>1. /\ ledgerDisk' = ledgerDisk /\ ledgerBase' = ledgerBase /\ ledgerRun' = NoLedger
      /\ ledgerState' = LegacyFile(Append(ledgerState.changes, w))
      /\ ~Contains(ledgerState.changes, w) /\ IsLegacy /\ ~LedgerActive
  BY DEF LegacyWrite, LedgerIdle, Loads, IsLegacy
<1>2. ledgerState.changes \in Seq(LedgerLegacy)
  BY <1>1, ChainFacts DEF StoreInv, LegacyLogs
<1>3. Append(ledgerState.changes, w) \in LegacyLogs
  BY <1>2 DEF LegacyLogs
<1>4. /\ Chain' = Chain /\ Snapshot' = Snapshot /\ Marker' = Marker /\ Migrated' = Migrated
      /\ IsLegacy' /\ ~IsProjected' /\ Replayable' = Replayable /\ ledgerState' # NoLedger
      /\ ledgerState'.changes = Append(ledgerState.changes, w)
  BY <1>1, <1>3, FileFacts DEF Chain, Snapshot, Marker, Migrated, IsLegacy, IsProjected, Replayable
<1>5. ledgerDisk.dirs # "events" \/ ledgerDisk.done
  BY <1>1 DEF LedgerActive
<1>6. Chain = <<>> \/ ledgerDisk.done
  BY <1>5, MarkerFacts
<1>7. LedgerTypeOK'
  BY <1>1, <1>3, FileFacts DEF StoreInv, LedgerTypeOK
<1>8. FilesFounded'
  BY <1>1, <1>4, <1>6 DEF StoreInv, FilesFounded, MigrationValid
<1>9. RetriesFounded'
  BY <1>1, <1>4, <1>5, <1>6, MarkerFacts DEF RetriesFounded
<1>10. HeadsSound'
  BY <1>1, <1>4 DEF StoreInv, HeadsSound
<1>11. w \notin Fenced
  BY LedgerAssumption DEF Fenced, Events
<1>12. Grows(w)
  <2>1. History = ledgerState.changes
    BY <1>1, <1>6, HistoryFacts
  <2>2. History' = Append(ledgerState.changes, w)
    BY <1>1, <1>4, <1>6 DEF History
  <2>3. w \notin Happened
    BY <2>1, <1>1, <1>2 DEF Happened, Contains
  <2>. QED
    BY <2>1, <2>2, <2>3, <1>11 DEF Grows
<1>. QED
  BY <1>1, <1>7, <1>8, <1>9, <1>10, <1>11, <1>12 DEF RunSound, StoreInv

LEMMA LedgerWriteKeeps ==
    ASSUME LedgerInv, LedgerWrite
    PROVE  LedgerInv' /\ HistoryStep
<1>1. ledgerRun # NoLedger
  BY DEF LedgerWrite, LedgerIdle
<1>. QED
  BY <1>1, InitRunWrites, MigrateRunWrites, RollbackRunWrites, AppendRunWrites
     DEF LedgerInv, RunSound

(* A change is reported done when it has happened.                          *)
LEMMA AnswerIsTrue ==
    ASSUME LedgerInv, LedgerAnswer, ledgerRun.command \in Fenced \cup {LedgerInit}
    PROVE  ledgerRun.command \in Happened
<1>. USE DEF LedgerInv
<1>0. ledgerRun # NoLedger /\ ledgerRun.left = <<>>
  BY DEF LedgerAnswer, LedgerIdle
<1>1. \A m \in LedgerMigrations : ~MigrateRun(m)
  BY LedgerAssumption DEF MigrateRun, Fenced
<1>2. \A r \in LedgerRollbacks : ~RollbackRun(r)
  BY LedgerAssumption DEF RollbackRun, Fenced, Events
<1>3. CASE InitRun
  <2>1. ledgerRun.command = LedgerInit /\ InitWrites = <<>> /\ ~ledgerDisk.done
    BY <1>0, <1>3 DEF InitRun
  <2>2. Chain # <<>>
    <3>. SUFFICES ASSUME Chain = <<>> PROVE FALSE
      OBVIOUS
    <3>1. InitWrites = BirthWrites(<<"genesis">> \o ProjectWrites)
      BY DEF InitWrites, Missing
    <3>2. ProjectWrites \in Seq(WriteKinds) /\ "genesis" \in WriteKinds
          /\ "root" \in WriteKinds /\ "events" \in WriteKinds
      BY WritesTypeOK DEF WriteKinds
    <3>3. /\ <<"genesis">> \o ProjectWrites \in Seq(WriteKinds)
          /\ <<"genesis">> \o ProjectWrites # <<>>
      BY <3>2, Listed
    <3>4. \A rest \in Seq(WriteKinds) : rest # <<>> => BirthWrites(rest) # <<>>
      BY <3>2, Listed DEF BirthWrites, Missing
    <3>. QED
      BY <2>1, <3>1, <3>3, <3>4
  <2>3. Head(Chain) = LedgerInit
    BY <2>2, <1>3 DEF InitRun
  <2>4. Contains(Chain, LedgerInit)
    <3>1. 1 \in 1 .. Len(Chain) /\ Chain[1] = LedgerInit
      BY <2>2, <2>3, ChainFacts DEF StoreInv
    <3>. QED
      BY <3>1 DEF Contains
  <2>. QED
    BY <2>1, <2>2, <2>4, HappenedOnChain
<1>4. ASSUME NEW c \in DOMAIN LedgerChanges, AppendRun(c)
      PROVE  ledgerRun.command \in Happened
  <2>1. /\ ledgerRun.command = c /\ AppendWrites(c) = <<>> /\ ~ledgerDisk.done
        /\ Chain # <<>>
    BY <1>0, <1>4 DEF AppendRun, LedgerActive, ProjectionValid
  <2>2. Contains(Chain, c)
    <3>1. <<"event", "project">> \in Seq(WriteKinds) /\ "project" \in WriteKinds
          /\ <<"event", "project">> # <<>>
      BY DEF WriteKinds
    <3>2. Missing(ProjectionCurrent, "project", <<"event", "project">>) # <<>>
      BY <3>1, Listed DEF Missing
    <3>. QED
      BY <2>1, <3>2 DEF AppendWrites
  <2>. QED
    BY <2>1, <2>2, HappenedOnChain DEF Fenced
<1>. QED
  BY <1>0, <1>1, <1>2, <1>3, <1>4 DEF RunSound

LEMMA LedgerStarts == SemInit => LedgerInv
<1>. SUFFICES ASSUME SemInit PROVE LedgerInv
  OBVIOUS
<1>1. /\ Chain = <<>> /\ Snapshot = NoLedger /\ Marker = NoLedger /\ ~ledgerDisk.done
      /\ ledgerDisk.dirs = "none" /\ ~ledgerDisk.receipt /\ ledgerRun = NoLedger
  BY DEF SemInit, Chain, Snapshot, Marker
<1>2. <<>> \in LegacyLogs /\ <<>> \in Seq(Events) /\ <<>> \in Seq(Events \cup LedgerLegacy)
  BY DEF LegacyLogs
<1>3. LedgerTypeOK
  <2>1. LegacyFile(<<>>) \in StateFiles
    BY <1>2, FileFacts
  <2>. QED
    BY <2>1, <1>2 DEF SemInit, LedgerTypeOK
<1>4. ~IsProjected /\ ~Migrated
  BY <1>1, FileFacts DEF SemInit, IsProjected, Migrated
<1>5. FilesFounded
  BY <1>1, <1>4 DEF FilesFounded
<1>6. RetriesFounded
  BY <1>1, <1>4 DEF RetriesFounded
<1>7. HeadsSound
  BY DEF SemInit, HeadsSound
<1>. QED
  BY <1>1, <1>3, <1>5, <1>6, <1>7 DEF LedgerInv, StoreInv, RunSound

LEMMA LedgerKeeps == LedgerInv /\ [SemNext]_ledgerVars => LedgerInv'
<1>. SUFFICES ASSUME LedgerInv, [SemNext]_ledgerVars PROVE LedgerInv'
  OBVIOUS
<1>1. CASE \E c \in LedgerCommands : ReadHead(c)
  BY <1>1, ReadHeadKeeps
<1>2. CASE \E w \in LedgerLegacy : LegacyWrite(w)
  BY <1>2, LegacyWriteKeeps
<1>3. CASE InitTask
  BY <1>3, InitTaskKeeps
<1>4. CASE \E m \in LedgerMigrations : Migrate(m)
  BY <1>4, MigrateKeeps
<1>5. CASE \E r \in LedgerRollbacks : Rollback(r)
  BY <1>5, RollbackKeeps
<1>6. CASE \E c \in DOMAIN LedgerChanges : AppendChange(c)
  BY <1>6, AppendKeeps
<1>7. CASE LedgerWrite
  BY <1>7, LedgerWriteKeeps
<1>8. CASE LedgerAnswer \/ LedgerKill
  <2>1. ledgerDisk' = ledgerDisk /\ ledgerState' = ledgerState /\ ledgerBase' = ledgerBase
        /\ ledgerRun' = NoLedger
    BY <1>8 DEF LedgerAnswer, LedgerKill
  <2>. QED
    BY <2>1, StartKeeps DEF LedgerInv, RunSound
<1>9. CASE UNCHANGED ledgerVars
  <2>1. ledgerDisk' = ledgerDisk /\ ledgerState' = ledgerState /\ ledgerBase' = ledgerBase
        /\ ledgerRun' = ledgerRun
    BY <1>9 DEF ledgerVars
  <2>2. StoreInv'
    BY <2>1, StartKeeps DEF LedgerInv
  <2>3. RunSound'
    <3>1. /\ Chain' = Chain /\ Marker' = Marker /\ Snapshot' = Snapshot
          /\ (IsLegacy' <=> IsLegacy) /\ (ProjectionCurrent' <=> ProjectionCurrent)
          /\ (LedgerActive' <=> LedgerActive) /\ (MigrationValid' <=> MigrationValid)
      BY <2>1 DEF Chain, Marker, Snapshot, IsLegacy, ProjectionCurrent, LedgerActive,
                  MigrationValid, Migrated
    <3>2. ProjectionValid' <=> ProjectionValid
      BY <2>1 DEF ProjectionValid, Chain
    <3>3. ProjectWrites' = ProjectWrites
      BY <3>1 DEF ProjectWrites, Missing
    <3>4. InitWrites' = InitWrites /\ MigrateWrites' = MigrateWrites
      BY <2>1, <3>1, <3>3 DEF InitWrites, MigrateWrites, BirthWrites, Missing
    <3>5. RollbackWrites' = RollbackWrites
      BY <2>1 DEF RollbackWrites, Missing
    <3>6. \A c : AppendWrites(c)' = AppendWrites(c)
      BY <3>1, <3>3 DEF AppendWrites, Missing, Contains
    <3>7. InitRun => InitRun'
      BY <2>1, <3>1, <3>4 DEF InitRun
    <3>8. \A m : MigrateRun(m) => MigrateRun(m)'
      BY <2>1, <3>1, <3>4 DEF MigrateRun
    <3>9. \A r : RollbackRun(r) => RollbackRun(r)'
      BY <2>1, <3>1, <3>5 DEF RollbackRun
    <3>10. \A c : AppendRun(c) => AppendRun(c)'
      BY <2>1, <3>1, <3>2, <3>6 DEF AppendRun, Contains
    <3>. QED
      BY <2>1, <3>7, <3>8, <3>9, <3>10 DEF LedgerInv, RunSound
  <2>. QED
    BY <2>2, <2>3 DEF LedgerInv
<1>. QED
  BY <1>1, <1>2, <1>3, <1>4, <1>5, <1>6, <1>7, <1>8, <1>9 DEF SemNext

(* The files of the store, the heads that authors hold and the plan of the  *)
(* command at work fit together in every reachable state.                   *)
THEOREM LedgerInvariance == SemSpec => []LedgerInv
  BY LedgerStarts, LedgerKeeps, PTL DEF SemSpec

(* Wherever a birth, a migration, a rollback or a change was killed, the    *)
(* task loads or one of the commands can be made again, except past an      *)
(* ungated change on a migration that is being rolled back (load_task,      *)
(* initialize_semantic_task, migrate_legacy_task,                           *)
(* rollback_semantic_migration).                                            *)
THEOREM StoreIsNeverStuck == SemSpec => []LedgerNeverStuck
<1>1. ASSUME LedgerInv PROVE LedgerNeverStuck
  <2>. USE DEF LedgerInv
  <2>0. /\ ledgerState = NoLedger \/ IsLegacy \/ IsProjected
        /\ Marker = NoLedger \/ Marker \in LedgerRollbacks
    BY <1>1, ChainFacts DEF StoreInv, LedgerTypeOK, Marker
  <2>1. CASE ledgerDisk.dirs # "events"
    <3>1. Chain = <<>> /\ ~IsProjected /\ Marker = NoLedger
      BY <1>1, <2>1, MarkerFacts DEF StoreInv, FilesFounded
    <3>2. CASE ledgerState = NoLedger
      BY <2>1, <3>2 DEF LedgerNeverStuck, CanRetry, InitAllowed
    <3>3. CASE IsLegacy
      BY <2>1, <3>1, <3>3
         DEF LedgerNeverStuck, CanRetry, Loads, MarkerValid, LedgerActive, IsLegacy, Marker
    <3>. QED
      BY <2>0, <3>1, <3>2, <3>3
  <2>2. CASE ledgerDisk.dirs = "events" /\ Chain = <<>>
    <3>1. ~ledgerDisk.done /\ Marker = NoLedger /\ ~IsProjected /\ LedgerActive
      BY <1>1, <2>2, MarkerFacts DEF StoreInv, FilesFounded, LedgerActive
    <3>2. CASE ledgerState = NoLedger
      BY <2>2, <3>1, <3>2 DEF LedgerNeverStuck, CanRetry, InitAllowed
    <3>3. CASE IsLegacy
      <4>1. PICK m \in LedgerMigrations : ledgerBase[m].head = ledgerState.changes
        BY <1>1, <2>2, <3>3 DEF StoreInv, RetriesFounded
      <4>2. Snapshot \in {NoLedger, ledgerState.changes} /\ ledgerState # NoLedger
        BY <1>1, <2>2, <3>3 DEF StoreInv, RetriesFounded, IsLegacy
      <4>3. MigrateAllowed(m)
        BY <2>2, <3>1, <4>1, <4>2 DEF MigrateAllowed, MigrateFirst, Marker, Snapshot
      <4>. QED
        BY <4>3 DEF LedgerNeverStuck, CanRetry
    <3>. QED
      BY <2>0, <3>1, <3>2, <3>3
  <2>3. CASE Chain # <<>> /\ Marker # NoLedger /\ ~ledgerDisk.done
    <3>1. CASE Len(Chain) = 1
      <4>1. MigrationValid /\ ledgerBase[Marker].head = Chain /\ Marker \in LedgerRollbacks
        BY <1>1, <2>0, <2>3, <3>1 DEF StoreInv, FilesFounded, RetriesFounded
      <4>2. RollbackAllowed(Marker)
        BY <3>1, <4>1 DEF RollbackAllowed, Marker
      <4>. QED
        BY <4>1, <4>2 DEF LedgerNeverStuck, CanRetry
    <3>2. CASE Len(Chain) # 1
      BY <1>1, <2>3, <3>2 DEF StoreInv, RetriesFounded, LedgerNeverStuck, Marker
    <3>. QED
      BY <3>1, <3>2
  <2>4. CASE ledgerDisk.done
    <3>1. MigrationValid /\ Len(Chain) = 1 /\ IsLegacy /\ ~LedgerActive
      BY <1>1, <2>4 DEF StoreInv, FilesFounded, LedgerActive
    <3>. QED
      BY <3>1 DEF LedgerNeverStuck, CanRetry, Loads, MarkerValid, IsLegacy
  <2>5. CASE Chain # <<>> /\ Marker = NoLedger
    <3>1. LedgerActive /\ MarkerValid /\ ~ledgerDisk.done
      BY <1>1, <2>5, MarkerFacts DEF LedgerActive, MarkerValid, Marker
    <3>2. CASE ~IsLegacy
      <4>1. ProjectionValid
        BY <1>1, <2>0, <2>5, <3>2 DEF ProjectionValid, StoreInv, FilesFounded, IsProjected
      <4>. QED
        BY <3>1, <4>1 DEF LedgerNeverStuck, CanRetry, Loads
    <3>3. CASE IsLegacy
      <4>1. /\ Migrated /\ Head(Chain) \in LedgerMigrations
            /\ ledgerBase[Head(Chain)].head = Snapshot /\ ledgerState.changes = Snapshot
        BY <1>1, <2>5, <3>1, <3>3 DEF StoreInv, FilesFounded, RetriesFounded, Migrated
      <4>2. ledgerState = LegacyFile(Snapshot)
        BY <1>1, <3>3, <4>1, ChainFacts DEF StoreInv
      <4>3. MigrateAllowed(Head(Chain))
        BY <2>5, <4>1, <4>2 DEF MigrateAllowed, MigrateAgain, Marker, Snapshot
      <4>. QED
        BY <4>1, <4>3 DEF LedgerNeverStuck, CanRetry
    <3>. QED
      BY <3>2, <3>3
  <2>. QED
    BY <2>1, <2>2, <2>3, <2>4, <2>5
<1>. QED
  BY <1>1, LedgerInvariance, PTL

(* The store, in whichever form it keeps the task, implements one history   *)
(* that only grows at its end (TaskHistory): births, migrations, rollbacks, *)
(* kills and retries fork nothing, drop nothing and make nothing twice.     *)
THEOREM HistoryIsKept == SemSpec => ImplementsHistory
<1>. DEFINE changes == Fenced \cup LedgerLegacy \cup {LedgerInit}
            seen == [c \in changes |-> IF c \in Fenced THEN ledgerBase[c].history ELSE <<>>]
<1>1. SemInit => Histories!Init
  <2>. SUFFICES ASSUME SemInit PROVE Histories!Init
    OBVIOUS
  <2>1. History = <<>>
    BY FileFacts DEF SemInit, History, Chain
  <2>2. \A c \in Fenced : ledgerBase[c].history = <<>>
    BY DEF SemInit, Fenced, LedgerCommands
  <2>. QED
    BY <2>1, <2>2 DEF SemInit, Histories!Init
<1>2. ASSUME LedgerInv, LedgerInv', [SemNext]_ledgerVars
      PROVE  [Histories!Next]_<<History, seen, ledgerTold>>
  <2>0. ASSUME ledgerBase' = ledgerBase PROVE seen' = seen
    BY <2>0
  <2>. DEFINE Step == [Histories!Next]_<<History, seen, ledgerTold>>
  <2>1. ASSUME NEW c \in changes, Grows(c), ledgerBase' = ledgerBase,
               ledgerTold' \in {ledgerTold, ledgerTold \cup {c}}
        PROVE  Histories!Next
    <3>1. Histories!Change(c)
      BY <2>1, <2>0 DEF Histories!Change, Histories!Made, Grows, Happened
    <3>. QED
      BY <3>1 DEF Histories!Next
  <2>2. CASE \E c \in LedgerCommands : ReadHead(c)
    <3>1. PICK c \in LedgerCommands : ReadHead(c)
      BY <2>2
    <3>2. /\ History' = History /\ ledgerTold' = ledgerTold
          /\ ledgerBase' = [ledgerBase EXCEPT ![c] = [head |-> LedgerHead, history |-> History]]
      BY <1>2, <3>1, ReadHeadKeeps
    <3>3. \A b \in Fenced : ledgerBase'[b].history = IF b = c THEN History ELSE ledgerBase[b].history
      BY <1>2, <3>2 DEF LedgerInv, StoreInv, LedgerTypeOK, Fenced, LedgerCommands
    <3>4. CASE c \in Fenced
      <4>1. seen' = [seen EXCEPT ![c] = History]
        BY <3>3, <3>4
      <4>2. Histories!Look(c)
        BY <3>2, <4>1 DEF Histories!Look
      <4>. QED
        BY <3>4, <4>2 DEF Histories!Next
    <3>5. CASE c \notin Fenced
      <4>1. seen' = seen
        BY <3>3, <3>5
      <4>. QED
        BY <3>2, <4>1
    <3>. QED
      BY <3>4, <3>5
  <2>3. CASE \E w \in LedgerLegacy : LegacyWrite(w)
    <3>1. PICK w \in LedgerLegacy : LegacyWrite(w)
      BY <2>3
    <3>2. Grows(w)
      BY <1>2, <3>1, LegacyWriteKeeps
    <3>. QED
      BY <2>1, <3>1, <3>2 DEF LegacyWrite
  <2>4. CASE LedgerWrite
    <3>1. HistoryStep /\ ledgerBase' = ledgerBase /\ ledgerTold' = ledgerTold
      BY <1>2, <2>4, LedgerWriteKeeps DEF LedgerWrite
    <3>2. CASE History' = History
      BY <2>0, <3>1, <3>2
    <3>3. CASE \E c \in changes : Grows(c)
      BY <2>1, <3>1, <3>3
    <3>. QED
      BY <3>1, <3>2, <3>3 DEF HistoryStep
  <2>5. CASE LedgerAnswer
    <3>1. ledgerDisk' = ledgerDisk /\ ledgerState' = ledgerState /\ ledgerBase' = ledgerBase
      BY <2>5 DEF LedgerAnswer
    <3>2. History' = History /\ seen' = seen
      BY <1>2, <2>0, <3>1, StartKeeps DEF LedgerInv
    <3>3. CASE ledgerRun.command \in Fenced \cup {LedgerInit}
      <4>1. ledgerRun.command \in Happened
        BY <1>2, <2>5, <3>3, AnswerIsTrue
      <4>2. Histories!Tell(ledgerRun.command)
        BY <2>5, <3>2, <3>3, <4>1 DEF Histories!Tell, Histories!Made, Happened, LedgerAnswer, Fenced
      <4>. QED
        BY <3>3, <4>2 DEF Histories!Next
    <3>4. CASE ledgerRun.command \notin Fenced \cup {LedgerInit}
      BY <2>5, <3>2, <3>4 DEF LedgerAnswer, Fenced
    <3>. QED
      BY <3>3, <3>4
  <2>6. CASE \/ InitTask \/ LedgerKill \/ UNCHANGED ledgerVars
             \/ \E m \in LedgerMigrations : Migrate(m)
             \/ \E r \in LedgerRollbacks : Rollback(r)
             \/ \E c \in DOMAIN LedgerChanges : AppendChange(c)
    <3>1. /\ ledgerDisk' = ledgerDisk /\ ledgerState' = ledgerState /\ ledgerBase' = ledgerBase
          /\ ledgerTold' = ledgerTold
      BY <2>6 DEF InitTask, LedgerKill, ledgerVars, Migrate, Rollback, AppendChange, StartCommand
    <3>2. History' = History
      BY <1>2, <3>1, StartKeeps DEF LedgerInv
    <3>. QED
      BY <2>0, <3>1, <3>2
  <2>. QED
    BY <1>2, <2>2, <2>3, <2>4, <2>5, <2>6 DEF SemNext
<1>. QED
  BY <1>1, <1>2, LedgerInvariance, PTL DEF SemSpec, ImplementsHistory, Histories!Spec

-----------------------------------------------------------------------------
(* finish-mini                                                               *)

Requests == DOMAIN MiniRequests

MiniTypeOK ==
    /\ miniTask \in [status : {"active", "done"}, finish : {NoMini} \cup Requests,
                     delivery : {"pending"} \cup Requests, checkpointed : BOOLEAN,
                     changed : BOOLEAN, blocked : BOOLEAN]
    /\ miniClaim \in {{"active"}, {"active", "archived"}, {"archived"}}
    /\ miniFinal \in 0 .. 1 /\ miniBytes \in 0 .. 1 /\ miniFile \in BOOLEAN
    /\ miniMap \in {"own", "none", "other"}

(* A done task keeps what it was closed with; the record of changes is not  *)
(* the work of a request that declares none.                                *)
MiniRecorded ==
    /\ ~MiniOpen => Archived /\ CheckpointMatches
    /\ miniTask.changed => /\ miniTask.finish # NoMini
                           /\ MiniRequests[miniTask.finish] # "none"

(* The writes of finish-mini, and those from each of them on.               *)
MiniKinds == {"record", "deliver", "stale", "archive", "unlink", "checkpoint file",
              "checkpoint", "close file", "close", "unbind"}

Unbinding         == <<"unbind">> \o <<>>
Closing           == <<"close">> \o Unbinding
ClosingFile       == <<"close file">> \o Closing
Checkpointing     == <<"checkpoint">> \o ClosingFile
CheckpointingFile == <<"checkpoint file">> \o Checkpointing
Unlinking         == <<"unlink">> \o CheckpointingFile
Archiving         == <<"archive">> \o Unlinking
Releasing         == <<"stale">> \o Archiving
FromRelease       == IF Archived THEN CheckpointingFile ELSE Releasing
FromDelivery      == IF miniTask.delivery = "pending" THEN <<"deliver">> \o FromRelease
                     ELSE FromRelease

(* What the command at work has done is what it has not left.               *)
MiniRunSound ==
    ~MiniIdle =>
        LET r == miniRun.request  left == miniRun.left
        IN  /\ miniRun \in [request : Requests, changed : BOOLEAN, left : Seq(MiniKinds)]
            /\ miniRun.changed => MiniRequests[r] # "none"
            /\ BaselineHolds
            /\ \/ /\ left = <<"record">> \o FromDelivery /\ MiniOpen
                  /\ miniTask.finish = NoMini /\ miniTask.delivery \in {"pending", r}
                  /\ miniClaim # {"active", "archived"}
               \/ /\ left = <<"deliver">> \o FromRelease /\ MiniOpen
                  /\ miniTask.finish = r
                  /\ miniClaim # {"active", "archived"}
               \/ /\ miniTask.finish = r /\ miniTask.delivery = r
                  /\ \/ left \in {Releasing, Archiving} /\ MiniOpen /\ miniClaim = {"active"}
                     \/ /\ left = Unlinking /\ MiniOpen /\ miniClaim = {"active", "archived"}
                        /\ miniBytes = miniFinal
                     \/ /\ left \in {CheckpointingFile, Checkpointing, ClosingFile, Closing}
                        /\ MiniOpen /\ Archived
                     \/ left = Unbinding /\ ~MiniOpen

MiniInv == MiniTypeOK /\ MiniRecorded /\ MiniRunSound

LEMMA WriteListed ==
    ASSUME NEW w \in MiniKinds, NEW rest \in Seq(MiniKinds)
    PROVE  /\ <<w>> \o rest \in Seq(MiniKinds) /\ <<w>> \o rest # <<>>
           /\ Head(<<w>> \o rest) = w /\ Tail(<<w>> \o rest) = rest
<1>1. <<w>> \o rest # <<>> /\ Head(<<w>> \o rest) = w /\ Len(<<w>> \o rest) = 1 + Len(rest)
      /\ <<w>> \o rest \in Seq(MiniKinds)
  OBVIOUS
<1>2. Tail(<<w>> \o rest) \in Seq(MiniKinds) /\ Len(Tail(<<w>> \o rest)) = Len(rest)
  BY <1>1
<1>3. \A i \in 1 .. Len(rest) : Tail(<<w>> \o rest)[i] = rest[i]
  BY <1>1
<1>. QED
  BY <1>1, <1>2, <1>3, SeqEqual

(* A list is its first write and the others.                                *)
LEMMA WriteSplit ==
    ASSUME NEW w \in MiniKinds, NEW rest \in Seq(MiniKinds), NEW all \in Seq(MiniKinds),
           Len(all) = Len(rest) + 1, all[1] = w, \A i \in 1 .. Len(rest) : all[i + 1] = rest[i]
    PROVE  <<w>> \o rest = all
<1>1. /\ <<w>> \o rest \in Seq(MiniKinds) /\ Len(<<w>> \o rest) = Len(rest) + 1
      /\ (<<w>> \o rest)[1] = w /\ \A i \in 1 .. Len(rest) : (<<w>> \o rest)[i + 1] = rest[i]
  OBVIOUS
<1>2. \A i \in 1 .. Len(all) : (<<w>> \o rest)[i] = all[i]
  <2>. SUFFICES ASSUME NEW i \in 1 .. Len(all) PROVE (<<w>> \o rest)[i] = all[i]
    OBVIOUS
  <2>1. CASE i = 1
    BY <2>1, <1>1
  <2>2. CASE i # 1
    <3>1. PICK j \in 1 .. Len(rest) : i = j + 1
      <4>1. i - 1 \in 1 .. Len(rest) /\ i = (i - 1) + 1
        BY <2>2
      <4>. QED
        BY <4>1
    <3>. QED
      BY <3>1, <1>1
  <2>. QED
    BY <2>1, <2>2
<1>. QED
  BY <1>1, <1>2, SeqEqual

LEMMA MiniLists ==
    /\ Unbinding \in Seq(MiniKinds) /\ Head(Unbinding) = "unbind"
    /\ Closing \in Seq(MiniKinds) /\ Head(Closing) = "close" /\ Tail(Closing) = Unbinding
    /\ ClosingFile \in Seq(MiniKinds) /\ Head(ClosingFile) = "close file"
    /\ Tail(ClosingFile) = Closing
    /\ Checkpointing \in Seq(MiniKinds) /\ Head(Checkpointing) = "checkpoint"
    /\ Tail(Checkpointing) = ClosingFile
    /\ CheckpointingFile \in Seq(MiniKinds) /\ Head(CheckpointingFile) = "checkpoint file"
    /\ Tail(CheckpointingFile) = Checkpointing
    /\ Unlinking \in Seq(MiniKinds) /\ Head(Unlinking) = "unlink"
    /\ Tail(Unlinking) = CheckpointingFile
    /\ Archiving \in Seq(MiniKinds) /\ Head(Archiving) = "archive" /\ Tail(Archiving) = Unlinking
    /\ Releasing \in Seq(MiniKinds) /\ Head(Releasing) = "stale" /\ Tail(Releasing) = Archiving
<1>. USE DEF MiniKinds
<1>1. <<>> \in Seq(MiniKinds)
  OBVIOUS
<1>2. Unbinding \in Seq(MiniKinds) /\ Head(Unbinding) = "unbind"
  BY <1>1, WriteListed DEF Unbinding
<1>3. Closing \in Seq(MiniKinds) /\ Head(Closing) = "close" /\ Tail(Closing) = Unbinding
  BY <1>2, WriteListed DEF Closing
<1>4. ClosingFile \in Seq(MiniKinds) /\ Head(ClosingFile) = "close file" /\ Tail(ClosingFile) = Closing
  BY <1>3, WriteListed DEF ClosingFile
<1>5. Checkpointing \in Seq(MiniKinds) /\ Head(Checkpointing) = "checkpoint"
      /\ Tail(Checkpointing) = ClosingFile
  BY <1>4, WriteListed DEF Checkpointing
<1>6. CheckpointingFile \in Seq(MiniKinds) /\ Head(CheckpointingFile) = "checkpoint file"
      /\ Tail(CheckpointingFile) = Checkpointing
  BY <1>5, WriteListed DEF CheckpointingFile
<1>7. Unlinking \in Seq(MiniKinds) /\ Head(Unlinking) = "unlink" /\ Tail(Unlinking) = CheckpointingFile
  BY <1>6, WriteListed DEF Unlinking
<1>8. Archiving \in Seq(MiniKinds) /\ Head(Archiving) = "archive" /\ Tail(Archiving) = Unlinking
  BY <1>7, WriteListed DEF Archiving
<1>9. Releasing \in Seq(MiniKinds) /\ Head(Releasing) = "stale" /\ Tail(Releasing) = Archiving
  BY <1>8, WriteListed DEF Releasing
<1>. QED
  BY <1>2, <1>3, <1>4, <1>5, <1>6, <1>7, <1>8, <1>9

LEMMA FromLists ==
    /\ FromRelease \in Seq(MiniKinds) /\ FromDelivery \in Seq(MiniKinds)
    /\ <<"deliver">> \o FromRelease \in Seq(MiniKinds)
    /\ Head(<<"deliver">> \o FromRelease) = "deliver"
    /\ Tail(<<"deliver">> \o FromRelease) = FromRelease
    /\ <<"record">> \o FromDelivery \in Seq(MiniKinds)
    /\ Head(<<"record">> \o FromDelivery) = "record"
    /\ Tail(<<"record">> \o FromDelivery) = FromDelivery
<1>0. "deliver" \in MiniKinds /\ "record" \in MiniKinds
  BY DEF MiniKinds
<1>1. FromRelease \in Seq(MiniKinds)
  BY MiniLists DEF FromRelease
<1>2. /\ <<"deliver">> \o FromRelease \in Seq(MiniKinds)
      /\ Head(<<"deliver">> \o FromRelease) = "deliver"
      /\ Tail(<<"deliver">> \o FromRelease) = FromRelease
  BY <1>0, <1>1, WriteListed
<1>3. FromDelivery \in Seq(MiniKinds)
  BY <1>1, <1>2 DEF FromDelivery
<1>4. /\ <<"record">> \o FromDelivery \in Seq(MiniKinds)
      /\ Head(<<"record">> \o FromDelivery) = "record"
      /\ Tail(<<"record">> \o FromDelivery) = FromDelivery
  BY <1>0, <1>3, WriteListed
<1>. QED
  BY <1>1, <1>2, <1>3, <1>4

(* The writes that an attempt plans.                                        *)
LEMMA MiniPlanned ==
    ASSUME NEW r \in Requests
    PROVE  MiniWrites(r) = IF miniTask.finish = NoMini THEN <<"record">> \o FromDelivery
                           ELSE FromDelivery
<1>. DEFINE last == <<"checkpoint file", "checkpoint", "close file", "close", "unbind">>
            release == IF Archived THEN <<>> ELSE <<"stale", "archive", "unlink">>
            deliver == IF miniTask.delivery = "pending" THEN <<"deliver">> ELSE <<>>
            record == IF miniTask.finish = NoMini THEN <<"record">> ELSE <<>>
<1>1. last \in Seq(MiniKinds) /\ last = CheckpointingFile
  <2>. DEFINE l1 == <<"unbind">>  l2 == <<"close", "unbind">>
              l3 == <<"close file", "close", "unbind">>
              l4 == <<"checkpoint", "close file", "close", "unbind">>
  <2>1. /\ l1 \in Seq(MiniKinds) /\ l2 \in Seq(MiniKinds) /\ l3 \in Seq(MiniKinds)
        /\ l4 \in Seq(MiniKinds) /\ last \in Seq(MiniKinds)
        /\ Len(l1) = 1 /\ Len(l2) = 2 /\ Len(l3) = 3 /\ Len(l4) = 4 /\ Len(last) = 5
    BY DEF MiniKinds
  <2>2. /\ l2[1] = "close" /\ l3[1] = "close file" /\ l4[1] = "checkpoint"
        /\ last[1] = "checkpoint file"
        /\ \A i \in 1 .. Len(l1) : l2[i + 1] = l1[i]
        /\ \A i \in 1 .. Len(l2) : l3[i + 1] = l2[i]
        /\ \A i \in 1 .. Len(l3) : l4[i + 1] = l3[i]
        /\ \A i \in 1 .. Len(l4) : last[i + 1] = l4[i]
        /\ Len(l2) = Len(l1) + 1 /\ Len(l3) = Len(l2) + 1 /\ Len(l4) = Len(l3) + 1
        /\ Len(last) = Len(l4) + 1
    <3>1. \A i \in 1 .. Len(l1) : l2[i + 1] = l1[i]
      OBVIOUS
    <3>2. \A i \in 1 .. Len(l2) : l3[i + 1] = l2[i]
      <4>1. Len(l2) = 2 /\ l3[2] = l2[1] /\ l3[3] = l2[2]
        OBVIOUS
      <4>2. \A i \in 1 .. 2 : i = 1 \/ i = 2
        OBVIOUS
      <4>. HIDE DEF l3, l2
      <4>. QED
        BY <4>1, <4>2
    <3>3. \A i \in 1 .. Len(l3) : l4[i + 1] = l3[i]
      <4>1. Len(l3) = 3 /\ l4[2] = l3[1] /\ l4[3] = l3[2] /\ l4[4] = l3[3]
        OBVIOUS
      <4>2. \A i \in 1 .. 3 : i = 1 \/ i = 2 \/ i = 3
        OBVIOUS
      <4>. HIDE DEF l4, l3
      <4>. QED
        BY <4>1, <4>2
    <3>4. \A i \in 1 .. Len(l4) : last[i + 1] = l4[i]
      <4>1. Len(l4) = 4 /\ last[2] = l4[1] /\ last[3] = l4[2] /\ last[4] = l4[3] /\ last[5] = l4[4]
        OBVIOUS
      <4>2. \A i \in 1 .. 4 : i = 1 \/ i = 2 \/ i = 3 \/ i = 4
        OBVIOUS
      <4>. HIDE DEF last, l4
      <4>. QED
        BY <4>1, <4>2
    <3>5. /\ l2[1] = "close" /\ l3[1] = "close file" /\ l4[1] = "checkpoint"
          /\ last[1] = "checkpoint file"
      OBVIOUS
    <3>6. /\ Len(l2) = Len(l1) + 1 /\ Len(l3) = Len(l2) + 1 /\ Len(l4) = Len(l3) + 1
          /\ Len(last) = Len(l4) + 1
      OBVIOUS
    <3>. HIDE DEF l1, l2, l3, l4, last
    <3>. QED
      BY <3>1, <3>2, <3>3, <3>4, <3>5, <3>6
  <2>3. /\ "close" \in MiniKinds /\ "close file" \in MiniKinds /\ "checkpoint" \in MiniKinds
        /\ "checkpoint file" \in MiniKinds
    BY DEF MiniKinds
  <2>4. Unbinding = l1
    BY <2>1, ConcatEmptySeq DEF Unbinding
  <2>. HIDE DEF l1, l2, l3, l4, last
  <2>5. Closing = l2
    <3>1. /\ l1 \in Seq(MiniKinds) /\ l2 \in Seq(MiniKinds) /\ "close" \in MiniKinds
          /\ Len(l2) = Len(l1) + 1 /\ l2[1] = "close"
          /\ \A i \in 1 .. Len(l1) : l2[i + 1] = l1[i]
      BY <2>1, <2>2, <2>3
    <3>. QED
      BY <2>4, <3>1, WriteSplit DEF Closing
  <2>6. ClosingFile = l3
    <3>1. /\ l2 \in Seq(MiniKinds) /\ l3 \in Seq(MiniKinds) /\ "close file" \in MiniKinds
          /\ Len(l3) = Len(l2) + 1 /\ l3[1] = "close file"
          /\ \A i \in 1 .. Len(l2) : l3[i + 1] = l2[i]
      BY <2>1, <2>2, <2>3
    <3>. QED
      BY <2>5, <3>1, WriteSplit DEF ClosingFile
  <2>7. Checkpointing = l4
    <3>1. /\ l3 \in Seq(MiniKinds) /\ l4 \in Seq(MiniKinds) /\ "checkpoint" \in MiniKinds
          /\ Len(l4) = Len(l3) + 1 /\ l4[1] = "checkpoint"
          /\ \A i \in 1 .. Len(l3) : l4[i + 1] = l3[i]
      BY <2>1, <2>2, <2>3
    <3>. QED
      BY <2>6, <3>1, WriteSplit DEF Checkpointing
  <2>8. CheckpointingFile = last
    <3>1. /\ l4 \in Seq(MiniKinds) /\ last \in Seq(MiniKinds) /\ "checkpoint file" \in MiniKinds
          /\ Len(last) = Len(l4) + 1 /\ last[1] = "checkpoint file"
          /\ \A i \in 1 .. Len(l4) : last[i + 1] = l4[i]
      BY <2>1, <2>2, <2>3
    <3>. QED
      BY <2>7, <3>1, WriteSplit DEF CheckpointingFile
  <2>. QED
    BY <2>1, <2>8
<1>2. record \in Seq(MiniKinds) /\ deliver \in Seq(MiniKinds) /\ release \in Seq(MiniKinds)
  <2>1. /\ <<>> \in Seq(MiniKinds) /\ <<"record">> \in Seq(MiniKinds)
        /\ <<"deliver">> \in Seq(MiniKinds) /\ <<"stale", "archive", "unlink">> \in Seq(MiniKinds)
    BY DEF MiniKinds
  <2>. QED
    BY <2>1
<1>3. MiniWrites(r) = record \o (deliver \o (release \o last))
  BY DEF MiniWrites
<1>. HIDE DEF last
<1>4. release \o last = FromRelease
  <2>1. CASE Archived
    BY <2>1, <1>1, ConcatEmptySeq DEF FromRelease
  <2>2. CASE ~Archived
    <3>. DEFINE rest == CheckpointingFile
    <3>1. rest \in Seq(MiniKinds) /\ last = rest
      BY <1>1
    <3>2. FromRelease = <<"stale">> \o (<<"archive">> \o (<<"unlink">> \o rest))
      BY <2>2 DEF FromRelease, Releasing, Archiving, Unlinking
    <3>. HIDE DEF rest
    <3>3. /\ <<"unlink">> \in Seq(MiniKinds) /\ <<"archive">> \in Seq(MiniKinds)
          /\ <<"stale">> \in Seq(MiniKinds) /\ <<"archive", "unlink">> \in Seq(MiniKinds)
          /\ <<"archive">> \o <<"unlink">> = <<"archive", "unlink">>
          /\ <<"stale">> \o <<"archive", "unlink">> = <<"stale", "archive", "unlink">>
      <4>. DEFINE u1 == <<"unlink">>  u2 == <<"archive", "unlink">>
                  u3 == <<"stale", "archive", "unlink">>
      <4>1. /\ u1 \in Seq(MiniKinds) /\ u2 \in Seq(MiniKinds) /\ u3 \in Seq(MiniKinds)
            /\ Len(u1) = 1 /\ Len(u2) = 2 /\ Len(u3) = 3
            /\ <<"archive">> \in Seq(MiniKinds) /\ <<"stale">> \in Seq(MiniKinds)
            /\ "archive" \in MiniKinds /\ "stale" \in MiniKinds
        BY DEF MiniKinds
      <4>2. /\ u2[1] = "archive" /\ u3[1] = "stale"
            /\ \A i \in 1 .. Len(u1) : u2[i + 1] = u1[i]
            /\ \A i \in 1 .. Len(u2) : u3[i + 1] = u2[i]
            /\ Len(u2) = Len(u1) + 1 /\ Len(u3) = Len(u2) + 1
        OBVIOUS
      <4>. HIDE DEF u1, u2, u3
      <4>3. <<"archive">> \o u1 = u2 /\ <<"stale">> \o u2 = u3
        BY <4>1, <4>2, WriteSplit
      <4>. QED
        BY <4>1, <4>3 DEF u1, u2, u3
    <3>4. <<"archive">> \o (<<"unlink">> \o rest) = <<"archive", "unlink">> \o rest
      BY <3>1, <3>3, ConcatAssociative
    <3>5. <<"stale">> \o (<<"archive", "unlink">> \o rest)
             = <<"stale", "archive", "unlink">> \o rest
      BY <3>1, <3>3, ConcatAssociative
    <3>. QED
      BY <2>2, <3>1, <3>2, <3>4, <3>5
  <2>. QED
    BY <2>1, <2>2
<1>. HIDE DEF release
<1>5. deliver \o FromRelease = FromDelivery
  BY FromLists, ConcatEmptySeq DEF FromDelivery
<1>. HIDE DEF deliver
<1>6. record \o FromDelivery = IF miniTask.finish = NoMini THEN <<"record">> \o FromDelivery
                               ELSE FromDelivery
  BY FromLists, ConcatEmptySeq
<1>. QED
  BY <1>3, <1>4, <1>5, <1>6

(* Where the command at work is, by its next write.                         *)
LEMMA MiniAt ==
    ASSUME MiniInv, NEW w, Writing(w)
    PROVE  LET r == miniRun.request  left == miniRun.left
           IN  /\ r \in Requests /\ r # NoMini /\ BaselineHolds
               /\ miniRun \in [request : Requests, changed : BOOLEAN, left : Seq(MiniKinds)]
               /\ miniRun.changed => MiniRequests[r] # "none"
               /\ w = "record" => /\ left = <<"record">> \o FromDelivery /\ MiniOpen
                                  /\ miniTask.finish = NoMini
                                  /\ miniTask.delivery \in {"pending", r}
                                  /\ miniClaim # {"active", "archived"}
               /\ w = "deliver" => /\ left = <<"deliver">> \o FromRelease /\ MiniOpen
                                   /\ miniTask.finish = r
                                   /\ miniClaim # {"active", "archived"}
               /\ w \notin {"record", "deliver"} => miniTask.finish = r /\ miniTask.delivery = r
               /\ w \in {"stale", "archive"} =>
                     MiniOpen /\ miniClaim = {"active"}
               /\ w = "stale" => left = Releasing
               /\ w = "archive" => left = Archiving
               /\ w = "unlink" => /\ left = Unlinking /\ MiniOpen
                                  /\ miniClaim = {"active", "archived"} /\ miniBytes = miniFinal
               /\ w \in {"checkpoint file", "checkpoint", "close file", "close"} =>
                     MiniOpen /\ Archived
               /\ w = "checkpoint file" => left = CheckpointingFile
               /\ w = "checkpoint" => left = Checkpointing
               /\ w = "close file" => left = ClosingFile
               /\ w = "close" => left = Closing
               /\ w = "unbind" => left = Unbinding /\ ~MiniOpen
<1>. DEFINE r == miniRun.request  left == miniRun.left
<1>0. ~MiniIdle /\ Head(left) = w
  BY DEF Writing
<1>1. /\ miniRun \in [request : Requests, changed : BOOLEAN, left : Seq(MiniKinds)]
      /\ miniRun.changed => MiniRequests[r] # "none"
      /\ BaselineHolds
  BY <1>0 DEF MiniInv, MiniRunSound
<1>2. r \in Requests /\ r # NoMini
  BY <1>1, MiniAssumption DEF Requests
<1>3. CASE /\ left = <<"record">> \o FromDelivery /\ MiniOpen
           /\ miniTask.finish = NoMini /\ miniTask.delivery \in {"pending", r}
           /\ miniClaim # {"active", "archived"}
  <2>1. w = "record"
    BY <1>0, <1>3, FromLists
  <2>. QED
    BY <1>1, <1>2, <1>3, <2>1
<1>4. CASE /\ left = <<"deliver">> \o FromRelease /\ MiniOpen
           /\ miniTask.finish = r /\ miniClaim # {"active", "archived"}
  <2>1. w = "deliver"
    BY <1>0, <1>4, FromLists
  <2>. QED
    BY <1>1, <1>2, <1>4, <2>1
<1>5. CASE /\ miniTask.finish = r /\ miniTask.delivery = r
           /\ left \in {Releasing, Archiving} /\ MiniOpen /\ miniClaim = {"active"}
  <2>1. \/ w = "stale" /\ left = Releasing
        \/ w = "archive" /\ left = Archiving
    BY <1>0, <1>5, MiniLists
  <2>. QED
    BY <1>1, <1>2, <1>5, <2>1
<1>6. CASE /\ miniTask.finish = r /\ miniTask.delivery = r
           /\ left = Unlinking /\ MiniOpen /\ miniClaim = {"active", "archived"}
           /\ miniBytes = miniFinal
  <2>1. w = "unlink"
    BY <1>0, <1>6, MiniLists
  <2>. QED
    BY <1>1, <1>2, <1>6, <2>1
<1>7. CASE /\ miniTask.finish = r /\ miniTask.delivery = r
           /\ left \in {CheckpointingFile, Checkpointing, ClosingFile, Closing}
           /\ MiniOpen /\ Archived
  <2>1. \/ w = "checkpoint file" /\ left = CheckpointingFile
        \/ w = "checkpoint" /\ left = Checkpointing
        \/ w = "close file" /\ left = ClosingFile
        \/ w = "close" /\ left = Closing
    BY <1>0, <1>7, MiniLists
  <2>. QED
    BY <1>1, <1>2, <1>7, <2>1
<1>8. CASE miniTask.finish = r /\ miniTask.delivery = r /\ left = Unbinding /\ ~MiniOpen
  <2>1. w = "unbind"
    BY <1>0, <1>8, MiniLists
  <2>. QED
    BY <1>1, <1>2, <1>8, <2>1
<1>. QED
  BY <1>0, <1>3, <1>4, <1>5, <1>6, <1>7, <1>8 DEF MiniInv, MiniRunSound

(* A command that does not hold the lock, and the end of one that did.      *)
LEMMA OthersKeep ==
    ASSUME MiniInv,
           \/ \E b \in 0 .. 1 : EditClaimed(b)
           \/ \E r \in Requests : SetDelivery(r) \/ FinishAgain(r)
           \/ \E blocked \in BOOLEAN : Checkpoint(blocked)
           \/ ReleaseClaim \/ CloseTask \/ BindSession \/ CloseRefused \/ MiniKill
    PROVE  MiniInv'
<1>. USE DEF MiniInv
<1>1. miniRun' = NoMini
  BY DEF EditClaimed, SetDelivery, FinishAgain, Checkpoint, ReleaseClaim, CloseTask,
         BindSession, CloseRefused, MiniKill, Others, MiniIdle
<1>2. CASE \E b \in 0 .. 1 : EditClaimed(b)
  <2>1. MiniTypeOK'
    BY <1>2 DEF EditClaimed, MiniTypeOK
  <2>2. MiniRecorded'
    BY <1>2 DEF EditClaimed, MiniRecorded, MiniOpen, Archived, CheckpointMatches
  <2>. QED
    BY <1>1, <2>1, <2>2 DEF MiniRunSound, MiniIdle
<1>3. CASE \E r \in Requests : SetDelivery(r)
  <2>1. MiniTypeOK'
    BY ZenonT(40), <1>3 DEF SetDelivery, Bumped, MiniTypeOK
  <2>2. MiniRecorded'
    BY <1>3 DEF SetDelivery, Bumped, MiniTypeOK, MiniRecorded, MiniOpen, Archived
  <2>. QED
    BY <1>1, <2>1, <2>2 DEF MiniRunSound, MiniIdle
<1>4. CASE \E blocked \in BOOLEAN : Checkpoint(blocked)
  <2>1. MiniTypeOK'
    BY <1>4 DEF Checkpoint, MiniTypeOK
  <2>2. MiniRecorded'
    BY <1>4 DEF Checkpoint, MiniTypeOK, MiniRecorded, MiniOpen, Archived
  <2>. QED
    BY <1>1, <2>1, <2>2 DEF MiniRunSound, MiniIdle
<1>5. CASE ReleaseClaim
  <2>1. MiniTypeOK'
    BY <1>5 DEF ReleaseClaim, Bumped, MiniTypeOK
  <2>2. MiniRecorded'
    BY <1>5 DEF ReleaseClaim, Bumped, MiniTypeOK, MiniRecorded, MiniOpen, Archived
  <2>. QED
    BY <1>1, <2>1, <2>2 DEF MiniRunSound, MiniIdle
<1>6. CASE CloseTask
  <2>1. MiniTypeOK'
    BY <1>6 DEF CloseTask, MiniTypeOK
  <2>2. MiniRecorded'
    BY <1>6 DEF CloseTask, MiniCloseGate, MiniTypeOK, MiniRecorded, MiniOpen, Archived,
                CheckpointMatches
  <2>. QED
    BY <1>1, <2>1, <2>2 DEF MiniRunSound, MiniIdle
<1>7. CASE BindSession \/ CloseRefused \/ MiniKill \/ \E r \in Requests : FinishAgain(r)
  <2>1. MiniTypeOK'
    BY <1>7 DEF BindSession, CloseRefused, MiniKill, FinishAgain, FinalizedMap, MiniTypeOK
  <2>2. MiniRecorded'
    BY <1>7 DEF BindSession, CloseRefused, MiniKill, FinishAgain, MiniRecorded, MiniOpen,
                Archived, CheckpointMatches
  <2>. QED
    BY <1>1, <2>1, <2>2 DEF MiniRunSound, MiniIdle
<1>. QED
  BY <1>2, <1>3, <1>4, <1>5, <1>6, <1>7

(* An attempt begins.                                                       *)
LEMMA FinishMiniKeeps ==
    ASSUME MiniInv, NEW r \in Requests, FinishMini(r)
    PROVE  MiniInv'
<1>. USE DEF MiniInv
<1>1. /\ miniRun' = [request |-> r, changed |-> Changed, left |-> MiniWrites(r)]
      /\ miniTask' = miniTask /\ miniClaim' = miniClaim /\ miniFinal' = miniFinal
      /\ miniBytes' = miniBytes /\ miniFile' = miniFile /\ miniMap' = miniMap
      /\ MiniPreflight(r)
  BY DEF FinishMini
<1>2. MiniTypeOK'
  BY <1>1 DEF MiniTypeOK
<1>3. MiniRecorded'
  BY <1>1 DEF MiniRecorded, MiniOpen, Archived, CheckpointMatches
<1>4. /\ BaselineHolds /\ MiniOpen /\ miniTask.finish \in {NoMini, r}
      /\ miniTask.delivery \in {"pending", r} /\ Changed \in BOOLEAN
      /\ Changed => MiniRequests[r] # "none"
      /\ miniClaim # {"active", "archived"}
  <2>1. miniClaim # {"active", "archived"}
    <3>1. {"active", "archived"} # {"active"} /\ {"active", "archived"} # {"archived"}
      OBVIOUS
    <3>. QED
      BY <1>1, <3>1 DEF MiniPreflight, SoleClaim, Archived
  <2>. QED
    BY <1>1, <2>1 DEF MiniPreflight, FinishBound, DeliveryAllowed, Changed
<1>5. /\ BaselineHolds' /\ MiniOpen' /\ FromDelivery' = FromDelivery
      /\ FromRelease' = FromRelease /\ Archived' = Archived
  BY <1>1, <1>4 DEF BaselineHolds, MiniOpen, FromDelivery, FromRelease, Archived,
     CheckpointingFile, Checkpointing, ClosingFile, Closing, Unbinding, Releasing,
     Archiving, Unlinking
<1>6. MiniWrites(r) = IF miniTask.finish = NoMini THEN <<"record">> \o FromDelivery
                      ELSE FromDelivery
  BY MiniPlanned
<1>7. MiniWrites(r) \in Seq(MiniKinds)
  BY <1>6, FromLists
<1>8. miniRun' \in [request : Requests, changed : BOOLEAN, left : Seq(MiniKinds)]
  BY <1>1, <1>4, <1>7
<1>9. r # NoMini
  BY MiniAssumption DEF Requests
<1>10. miniClaim \in {{"active"}, {"archived"}}
  BY <1>4 DEF MiniTypeOK
<1>11. CASE miniTask.finish = NoMini
  <2>1. miniRun'.left = <<"record">> \o FromDelivery'
    BY <1>1, <1>5, <1>6, <1>11
  <2>. QED
    BY <1>1, <1>2, <1>3, <1>4, <1>5, <1>8, <1>11, <2>1 DEF MiniRunSound, MiniIdle
<1>12. CASE miniTask.finish = r /\ miniTask.delivery = "pending"
  <2>1. miniRun'.left = <<"deliver">> \o FromRelease'
    BY <1>1, <1>5, <1>6, <1>9, <1>12 DEF FromDelivery
  <2>. QED
    BY <1>1, <1>2, <1>3, <1>4, <1>5, <1>8, <1>12, <2>1 DEF MiniRunSound, MiniIdle
<1>13. CASE miniTask.finish = r /\ miniTask.delivery # "pending" /\ Archived
  <2>1. miniRun'.left = CheckpointingFile' /\ miniTask.delivery = r
    BY <1>1, <1>4, <1>5, <1>6, <1>9, <1>13 DEF FromDelivery, FromRelease
  <2>. QED
    BY <1>1, <1>2, <1>3, <1>4, <1>5, <1>8, <1>13, <2>1 DEF MiniRunSound, MiniIdle
<1>14. CASE miniTask.finish = r /\ miniTask.delivery # "pending" /\ ~Archived
  <2>1. miniRun'.left = Releasing' /\ miniTask.delivery = r /\ miniClaim = {"active"}
    BY <1>1, <1>4, <1>5, <1>6, <1>9, <1>10, <1>14 DEF FromDelivery, FromRelease, Archived
  <2>. QED
    BY <1>1, <1>2, <1>3, <1>4, <1>5, <1>8, <1>14, <2>1 DEF MiniRunSound, MiniIdle
<1>. QED
  BY <1>4, <1>11, <1>12, <1>13, <1>14

(* What is left after a write.                                              *)
LEMMA MiniAdvance ==
    ASSUME MiniInv, NEW w, Writing(w), Wrote
    PROVE  /\ miniRun' \in [request : Requests, changed : BOOLEAN, left : Seq(MiniKinds)]
           /\ miniRun'.request = miniRun.request /\ miniRun'.changed = miniRun.changed
           /\ miniRun'.left = Tail(miniRun.left)
<1>1. miniRun \in [request : Requests, changed : BOOLEAN, left : Seq(MiniKinds)]
      /\ miniRun.left # <<>> /\ miniRun' = [miniRun EXCEPT !.left = Tail(@)]
  BY MiniAt DEF Writing, Wrote
<1>2. Tail(miniRun.left) \in Seq(MiniKinds)
  BY <1>1
<1>. QED
  BY <1>1, <1>2

LEMMA WritesKeep ==
    ASSUME MiniInv,
           \/ RecordFinish \/ Deliver \/ ReleaseStep \/ CheckpointFile \/ CheckpointRecord
           \/ CloseRecord \/ Finalize
    PROVE  MiniInv'
<1>. USE DEF MiniInv
<1>. DEFINE r == miniRun.request
<1>0. /\ Releasing' = Releasing /\ Archiving' = Archiving /\ Unlinking' = Unlinking
      /\ CheckpointingFile' = CheckpointingFile /\ Checkpointing' = Checkpointing
      /\ ClosingFile' = ClosingFile /\ Closing' = Closing /\ Unbinding' = Unbinding
  BY DEF CheckpointingFile, Checkpointing, ClosingFile, Closing, Unbinding, Releasing,
         Archiving, Unlinking
<1>1. CASE RecordFinish
  <2>1. /\ Writing("record") /\ Wrote
        /\ miniTask' = [miniTask EXCEPT !.finish = r, !.checkpointed = FALSE]
        /\ miniClaim' = miniClaim /\ miniFinal' = miniFinal /\ miniBytes' = miniBytes
        /\ miniFile' = miniFile /\ miniMap' = miniMap
    BY <1>1 DEF RecordFinish, Bumped, MiniTypeOK
  <2>2. /\ miniRun.left = <<"record">> \o FromDelivery /\ MiniOpen /\ r \in Requests
        /\ r # NoMini /\ BaselineHolds /\ miniTask.finish = NoMini
        /\ miniTask.delivery \in {"pending", r} /\ miniClaim # {"active", "archived"}
        /\ miniRun.changed => MiniRequests[r] # "none"
    BY <2>1, MiniAt
  <2>3. MiniTypeOK'
    BY <2>1, <2>2 DEF MiniTypeOK
  <2>4. MiniRecorded'
    BY <2>1, <2>2 DEF MiniTypeOK, MiniRecorded, MiniOpen, Archived
  <2>5. /\ miniRun' \in [request : Requests, changed : BOOLEAN, left : Seq(MiniKinds)]
        /\ miniRun'.request = r /\ miniRun'.changed = miniRun.changed
        /\ miniRun'.left = FromDelivery
    BY <2>1, <2>2, MiniAdvance, FromLists
  <2>6. /\ BaselineHolds' /\ MiniOpen' /\ FromRelease' = FromRelease /\ Archived' = Archived
        /\ miniTask'.finish = r /\ miniTask'.delivery = miniTask.delivery
    BY <2>1, <2>2, <1>0 DEF MiniTypeOK, BaselineHolds, MiniOpen, Archived, FromRelease
  <2>7. miniClaim \in {{"active"}, {"archived"}}
    BY <2>2 DEF MiniTypeOK
  <2>8. MiniRunSound'
    <3>1. CASE miniTask.delivery = "pending"
      <4>1. miniRun'.left = <<"deliver">> \o FromRelease'
        BY <2>5, <2>6, <3>1 DEF FromDelivery
      <4>. QED
        BY <2>1, <2>2, <2>5, <2>6, <4>1 DEF MiniRunSound
    <3>2. CASE miniTask.delivery # "pending" /\ Archived
      <4>1. miniRun'.left = CheckpointingFile' /\ miniTask.delivery = r
        BY <2>2, <2>5, <3>2, <1>0 DEF FromDelivery, FromRelease
      <4>. QED
        BY <2>1, <2>2, <2>5, <2>6, <3>2, <4>1 DEF MiniRunSound
    <3>3. CASE miniTask.delivery # "pending" /\ ~Archived
      <4>1. miniRun'.left = Releasing' /\ miniTask.delivery = r /\ miniClaim' = {"active"}
        BY <2>1, <2>2, <2>5, <2>7, <3>3, <1>0 DEF FromDelivery, FromRelease, Archived
      <4>. QED
        BY <2>1, <2>2, <2>5, <2>6, <4>1 DEF MiniRunSound
    <3>. QED
      BY <3>1, <3>2, <3>3
  <2>. QED
    BY <2>3, <2>4, <2>8
<1>2. CASE Deliver
  <2>1. /\ Writing("deliver") /\ Wrote
        /\ miniTask' = [miniTask EXCEPT !.delivery = r, !.checkpointed = FALSE]
        /\ miniClaim' = miniClaim /\ miniFinal' = miniFinal /\ miniBytes' = miniBytes
        /\ miniFile' = miniFile /\ miniMap' = miniMap
    BY <1>2 DEF Deliver, Bumped, MiniTypeOK
  <2>2. /\ miniRun.left = <<"deliver">> \o FromRelease /\ MiniOpen /\ r \in Requests
        /\ BaselineHolds /\ miniTask.finish = r /\ miniClaim # {"active", "archived"}
        /\ miniRun.changed => MiniRequests[r] # "none"
    BY <2>1, MiniAt
  <2>3. MiniTypeOK'
    BY <2>1, <2>2 DEF MiniTypeOK
  <2>4. MiniRecorded'
    BY <2>1, <2>2 DEF MiniTypeOK, MiniRecorded, MiniOpen, Archived
  <2>5. /\ miniRun' \in [request : Requests, changed : BOOLEAN, left : Seq(MiniKinds)]
        /\ miniRun'.request = r /\ miniRun'.changed = miniRun.changed
        /\ miniRun'.left = FromRelease
    BY <2>1, <2>2, MiniAdvance, FromLists
  <2>6. /\ BaselineHolds' /\ MiniOpen' /\ Archived' = Archived
        /\ miniTask'.finish = r /\ miniTask'.delivery = r
    BY <2>1, <2>2, <1>0 DEF MiniTypeOK, BaselineHolds, MiniOpen, Archived
  <2>7. miniClaim \in {{"active"}, {"archived"}}
    BY <2>2 DEF MiniTypeOK
  <2>8. MiniRunSound'
    <3>1. CASE Archived
      <4>1. miniRun'.left = CheckpointingFile'
        BY <2>5, <3>1, <1>0 DEF FromRelease
      <4>. QED
        BY <2>1, <2>2, <2>5, <2>6, <3>1, <4>1 DEF MiniRunSound
    <3>2. CASE ~Archived
      <4>1. miniRun'.left = Releasing' /\ miniClaim' = {"active"}
        BY <2>1, <2>5, <2>7, <3>2, <1>0 DEF FromRelease, Archived
      <4>. QED
        BY <2>1, <2>2, <2>5, <2>6, <4>1 DEF MiniRunSound
    <3>. QED
      BY <3>1, <3>2
  <2>. QED
    BY <2>3, <2>4, <2>8
<1>3. CASE ReleaseStep
  <2>1. PICK w \in {"stale", "archive", "unlink"} :
           /\ Writing(w) /\ Wrote /\ miniBytes' = miniBytes /\ miniFile' = miniFile
           /\ miniMap' = miniMap
           /\ w = "stale" => /\ miniTask' = [miniTask EXCEPT !.checkpointed = FALSE]
                             /\ miniClaim' = miniClaim /\ miniFinal' = miniFinal
           /\ w = "archive" => /\ miniTask' = miniTask /\ miniFinal' = miniBytes
                               /\ miniClaim' = miniClaim \cup {"archived"}
           /\ w = "unlink" => /\ miniTask' = miniTask /\ miniFinal' = miniFinal
                              /\ miniClaim' = {"archived"}
    <3>1. CASE Writing("stale")
      BY <1>3, <3>1 DEF ReleaseStep, Bumped, Writing
    <3>2. CASE Writing("archive")
      BY <1>3, <3>2 DEF ReleaseStep, Writing
    <3>3. CASE Writing("unlink")
      BY <1>3, <3>3 DEF ReleaseStep, Writing
    <3>. QED
      BY <1>3, <3>1, <3>2, <3>3 DEF ReleaseStep
  <2>2. /\ r \in Requests /\ BaselineHolds /\ miniTask.finish = r /\ miniTask.delivery = r
        /\ MiniOpen /\ (miniRun.changed => MiniRequests[r] # "none")
        /\ w = "stale" => miniRun.left = Releasing /\ miniClaim = {"active"}
        /\ w = "archive" => miniRun.left = Archiving /\ miniClaim = {"active"}
        /\ w = "unlink" => miniRun.left = Unlinking /\ miniBytes = miniFinal
    BY <2>1, MiniAt
  <2>3. /\ {"active"} \cup {"archived"} = {"active", "archived"}
        /\ {"active"} # {"archived"} /\ {"active", "archived"} # {"archived"}
    OBVIOUS
  <2>4. MiniTypeOK'
    BY <2>1, <2>2, <2>3 DEF MiniTypeOK
  <2>5. /\ MiniOpen' /\ miniTask'.finish = r /\ miniTask'.delivery = r
        /\ miniTask'.changed = miniTask.changed
    BY <2>1, <2>2 DEF MiniTypeOK, MiniOpen
  <2>6. MiniRecorded'
    BY <2>2, <2>5 DEF MiniRecorded
  <2>7. /\ miniRun' \in [request : Requests, changed : BOOLEAN, left : Seq(MiniKinds)]
        /\ miniRun'.request = r /\ miniRun'.changed = miniRun.changed
        /\ miniRun'.left = Tail(miniRun.left)
    BY <2>1, MiniAdvance
  <2>8. CASE w = "stale"
    <3>1. miniRun'.left = Archiving' /\ BaselineHolds' /\ miniClaim' = {"active"}
      BY <2>1, <2>2, <2>7, <2>8, <1>0, MiniLists DEF BaselineHolds, Archived
    <3>. QED
      BY <2>2, <2>4, <2>5, <2>6, <2>7, <3>1 DEF MiniRunSound
  <2>9. CASE w = "archive"
    <3>1. /\ miniRun'.left = Unlinking' /\ BaselineHolds' /\ miniBytes' = miniFinal'
          /\ miniClaim' = {"active", "archived"}
      BY <2>1, <2>2, <2>3, <2>7, <2>9, <1>0, MiniLists DEF BaselineHolds, Archived
    <3>. QED
      BY <2>2, <2>4, <2>5, <2>6, <2>7, <3>1 DEF MiniRunSound
  <2>10. CASE w = "unlink"
    <3>1. miniRun'.left = CheckpointingFile' /\ BaselineHolds' /\ Archived'
      BY <2>1, <2>2, <2>7, <2>10, <1>0, MiniLists DEF BaselineHolds, Archived
    <3>. QED
      BY <2>2, <2>4, <2>5, <2>6, <2>7, <3>1 DEF MiniRunSound
  <2>. QED
    BY <2>1, <2>8, <2>9, <2>10
<1>4. CASE CheckpointFile \/ CheckpointRecord \/ CloseRecord
  <2>1. PICK w \in {"checkpoint file", "checkpoint", "close file", "close"} :
           /\ Writing(w) /\ Wrote
           /\ w \in {"checkpoint file", "close file"} =>
                 miniTask' = miniTask /\ miniFile' = FALSE
           /\ w = "checkpoint" =>
                 /\ miniTask' = [miniTask EXCEPT !.checkpointed = TRUE,
                                                 !.changed = @ \/ miniRun.changed]
                 /\ miniFile' = TRUE
           /\ w = "close" =>
                 /\ miniTask' = [miniTask EXCEPT !.status = "done", !.checkpointed = TRUE]
                 /\ miniFile' = TRUE
    <3>1. CASE CheckpointFile
      BY <3>1 DEF CheckpointFile
    <3>2. CASE CheckpointRecord
      BY <3>2 DEF CheckpointRecord
    <3>3. CASE CloseRecord
      BY <3>3 DEF CloseRecord
    <3>. QED
      BY <1>4, <3>1, <3>2, <3>3
  <2>2. /\ miniClaim' = miniClaim /\ miniFinal' = miniFinal /\ miniBytes' = miniBytes
        /\ miniMap' = miniMap
    BY <1>4 DEF CheckpointFile, CheckpointRecord, CloseRecord
  <2>3. /\ r \in Requests /\ r # NoMini /\ BaselineHolds /\ miniTask.finish = r
        /\ miniTask.delivery = r
        /\ MiniOpen /\ Archived /\ (miniRun.changed => MiniRequests[r] # "none")
        /\ miniRun.changed \in BOOLEAN
        /\ w = "checkpoint file" => miniRun.left = CheckpointingFile
        /\ w = "checkpoint" => miniRun.left = Checkpointing
        /\ w = "close file" => miniRun.left = ClosingFile
        /\ w = "close" => miniRun.left = Closing
    BY <2>1, MiniAt
  <2>4. MiniTypeOK'
    BY <2>1, <2>2, <2>3 DEF MiniTypeOK
  <2>5. /\ miniTask'.finish = r /\ miniTask'.delivery = r /\ BaselineHolds' /\ Archived'
        /\ MiniOpen' <=> w # "close"
        /\ w = "close" => CheckpointMatches'
        /\ miniTask'.changed => miniTask.changed \/ miniRun.changed
    BY <2>1, <2>2, <2>3
       DEF MiniTypeOK, MiniOpen, BaselineHolds, Archived, CheckpointMatches
  <2>6. MiniRecorded'
    BY <2>3, <2>5 DEF MiniRecorded
  <2>7. /\ miniRun' \in [request : Requests, changed : BOOLEAN, left : Seq(MiniKinds)]
        /\ miniRun'.request = r /\ miniRun'.changed = miniRun.changed
        /\ miniRun'.left = Tail(miniRun.left)
    BY <2>1, MiniAdvance
  <2>8. CASE w # "close"
    <3>1. miniRun'.left \in {Checkpointing', ClosingFile', Closing'}
      BY <2>1, <2>3, <2>7, <2>8, <1>0, MiniLists
    <3>. QED
      BY <2>3, <2>4, <2>5, <2>6, <2>7, <2>8, <3>1 DEF MiniRunSound
  <2>9. CASE w = "close"
    <3>1. miniRun'.left = Unbinding'
      BY <2>3, <2>7, <2>9, <1>0, MiniLists
    <3>. QED
      BY <2>3, <2>4, <2>5, <2>6, <2>7, <2>9, <3>1 DEF MiniRunSound
  <2>. QED
    BY <2>8, <2>9
<1>5. CASE Finalize
  <2>1. /\ miniRun' = NoMini /\ miniTask' = miniTask /\ miniClaim' = miniClaim
        /\ miniFinal' = miniFinal /\ miniBytes' = miniBytes /\ miniFile' = miniFile
        /\ miniMap' = FinalizedMap
    BY <1>5 DEF Finalize
  <2>2. MiniTypeOK'
    BY <2>1 DEF MiniTypeOK, FinalizedMap
  <2>3. MiniRecorded'
    BY <2>1 DEF MiniRecorded, MiniOpen, Archived, CheckpointMatches
  <2>. QED
    BY <2>1, <2>2, <2>3 DEF MiniRunSound, MiniIdle
<1>. QED
  BY <1>1, <1>2, <1>3, <1>4, <1>5

LEMMA MiniStarts == MiniInit => MiniInv
<1>. SUFFICES ASSUME MiniInit PROVE MiniInv
  OBVIOUS
<1>1. MiniTypeOK
  <2>1. miniTask \in [status : {"active", "done"}, finish : {NoMini} \cup Requests,
                      delivery : {"pending"} \cup Requests, checkpointed : BOOLEAN,
                      changed : BOOLEAN, blocked : BOOLEAN]
    BY DEF MiniInit
  <2>2. miniClaim = {"active"} /\ miniFinal \in 0 .. 1 /\ miniBytes \in 0 .. 1
    BY DEF MiniInit
  <2>. QED
    BY <2>1, <2>2 DEF MiniInit, MiniTypeOK
<1>2. MiniRecorded /\ MiniRunSound
  BY DEF MiniInit, MiniRecorded, MiniRunSound, MiniOpen, MiniIdle
<1>. QED
  BY <1>1, <1>2 DEF MiniInv

LEMMA MiniKeeps == MiniInv /\ [MiniNext]_miniVars => MiniInv'
<1>. SUFFICES ASSUME MiniInv, [MiniNext]_miniVars PROVE MiniInv'
  OBVIOUS
<1>1. CASE UNCHANGED miniVars
  <2>1. /\ miniTask' = miniTask /\ miniClaim' = miniClaim /\ miniFinal' = miniFinal
        /\ miniBytes' = miniBytes /\ miniFile' = miniFile /\ miniMap' = miniMap
        /\ miniRun' = miniRun
    BY <1>1 DEF miniVars
  <2>2. MiniTypeOK' /\ MiniRecorded'
    BY <2>1 DEF MiniInv, MiniTypeOK, MiniRecorded, MiniOpen, Archived, CheckpointMatches
  <2>3. MiniRunSound'
    <3>1. /\ (MiniIdle' <=> MiniIdle) /\ (BaselineHolds' <=> BaselineHolds)
          /\ (MiniOpen' <=> MiniOpen) /\ (Archived' <=> Archived)
      BY <2>1 DEF MiniIdle, BaselineHolds, MiniOpen, Archived
    <3>2. /\ Unbinding' = Unbinding /\ Closing' = Closing /\ ClosingFile' = ClosingFile
          /\ Checkpointing' = Checkpointing /\ CheckpointingFile' = CheckpointingFile
      BY <2>1 DEF Unbinding, Closing, ClosingFile, Checkpointing, CheckpointingFile
    <3>3. Unlinking' = Unlinking /\ Archiving' = Archiving /\ Releasing' = Releasing
      BY <3>2 DEF Unlinking, Archiving, Releasing
    <3>4. FromRelease' = FromRelease
      BY <3>1, <3>2, <3>3 DEF FromRelease
    <3>5. FromDelivery' = FromDelivery
      BY <2>1, <3>4 DEF FromDelivery
    <3>. QED
      BY <2>1, <3>1, <3>2, <3>3, <3>4, <3>5 DEF MiniInv, MiniRunSound
  <2>. QED
    BY <2>2, <2>3 DEF MiniInv
<1>2. CASE \E r \in Requests : FinishMini(r)
  BY <1>2, FinishMiniKeeps
<1>3. CASE MiniNext /\ ~\E r \in Requests : FinishMini(r)
  BY <1>3, OthersKeep, WritesKeep DEF MiniNext, Requests
<1>. QED
  BY <1>1, <1>2, <1>3

LEMMA MiniInvariance == MiniSpec => []MiniInv
  BY MiniStarts, MiniKeeps, PTL DEF MiniSpec

(* finish-mini closes the task on the bytes its claim was released with and *)
(* answers success for the recorded request only, after any kills, retries  *)
(* and commands between them (cmd_finish_mini, _finalize_terminal_mini).    *)
THEOREM FinishesAreSound == MiniSpec => FinishSound
<1>. DEFINE Sound ==
            /\ miniRun # NoMini /\ miniTask.status # miniTask'.status =>
                  miniBytes = miniFinal /\ miniClaim = {"archived"}
            /\ miniAnswer' # miniAnswer =>
                  /\ miniTask'.status = "done" /\ miniTask'.finish = miniAnswer'
                  /\ miniTask'.delivery = miniAnswer' /\ miniTask'.checkpointed /\ miniFile'
                  /\ miniMap' # "own"
            /\ miniMap = "other" => miniMap' = "other"
<1>1. ASSUME MiniInv, [MiniNext]_miniVars PROVE [Sound]_miniVars
  <2>. SUFFICES ASSUME MiniNext PROVE Sound
    BY <1>1
  <2>1. miniTask.status \in {"active", "done"}
    BY <1>1 DEF MiniInv, MiniTypeOK
  <2>2. CASE CloseRecord
    <3>1. Writing("close")
      BY <2>2 DEF CloseRecord
    <3>2. Archived /\ BaselineHolds
      BY <1>1, <3>1, MiniAt
    <3>. QED
      BY <2>2, <3>2 DEF CloseRecord, Archived, BaselineHolds
  <2>3. CASE Finalize
    <3>1. Writing("unbind")
      BY <2>3 DEF Finalize
    <3>2. ~MiniOpen /\ miniTask.finish = miniRun.request
      BY <1>1, <3>1, MiniAt
    <3>. QED
      BY <2>1, <2>3, <3>2 DEF Finalize, MiniOpen, FinalizedMap, CheckpointMatches
  <2>4. CASE \E r \in Requests : FinishAgain(r)
    BY <2>1, <2>4 DEF FinishAgain, MiniOpen, FinalizedMap, CheckpointMatches, MiniIdle
  <2>5. CASE CloseTask \/ BindSession
    BY <2>5 DEF CloseTask, BindSession, Others, MiniIdle
  <2>6. CASE \/ RecordFinish \/ Deliver \/ ReleaseStep \/ CheckpointRecord \/ CheckpointFile
             \/ CloseRefused \/ MiniKill \/ ReleaseClaim
             \/ \E b \in 0 .. 1 : EditClaimed(b)
             \/ \E r \in Requests : SetDelivery(r) \/ FinishMini(r)
             \/ \E blocked \in BOOLEAN : Checkpoint(blocked)
    <3>1. miniTask'.status = miniTask.status /\ miniAnswer' = miniAnswer /\ miniMap' = miniMap
      <4>1. CASE RecordFinish \/ Deliver \/ ReleaseStep \/ CheckpointRecord
        BY <4>1, <1>1 DEF RecordFinish, Deliver, ReleaseStep, CheckpointRecord, Bumped,
           MiniInv, MiniTypeOK
      <4>2. CASE \/ CheckpointFile \/ CloseRefused \/ MiniKill \/ ReleaseClaim
                 \/ \E b \in 0 .. 1 : EditClaimed(b)
                 \/ \E r \in Requests : SetDelivery(r) \/ FinishMini(r)
                 \/ \E blocked \in BOOLEAN : Checkpoint(blocked)
        BY <4>2, <1>1 DEF CheckpointFile, CloseRefused, MiniKill, ReleaseClaim, EditClaimed,
           SetDelivery, FinishMini, Checkpoint, Bumped, MiniInv, MiniTypeOK
      <4>. QED
        BY <2>6, <4>1, <4>2
    <3>. QED
      BY <3>1
  <2>. QED
    BY <2>2, <2>3, <2>4, <2>5, <2>6 DEF MiniNext, Requests
<1>2. MiniSpec => [][Sound]_miniVars
  BY <1>1, MiniInvariance, PTL DEF MiniSpec
<1>. QED
  BY <1>2 DEF FinishSound

(* Nothing finish-mini wrote before it was interrupted stands in the way of *)
(* the recorded request made again (_sole_claim, _validate_existing_finish). *)
THEOREM FinishesResume == MiniSpec => []FinishResumable
<1>1. ASSUME MiniInv PROVE FinishResumable
  <2>. DEFINE r == miniTask.finish
  <2>. SUFFICES ASSUME r # NoMini, MiniIdle, miniClaim # {"active", "archived"},
                       miniTask.delivery \in {"pending", r}, ~miniTask.blocked
       PROVE  IF MiniOpen
              THEN BaselineHolds /\ (MiniRequests[r] = "none" <=> ~Changed) => MiniPreflight(r)
              ELSE Archived /\ CheckpointMatches
    BY DEF FinishResumable
  <2>1. r \in Requests /\ miniClaim \in {{"active"}, {"archived"}}
    BY <1>1 DEF MiniInv, MiniTypeOK
  <2>2. MiniRequests[r] \in {"none", "local-only"}
    BY <2>1, MiniAssumption DEF Requests
  <2>3. MiniRequests[r] = "none" => ~miniTask.changed
    BY <1>1 DEF MiniInv, MiniRecorded
  <2>4. SoleClaim /\ FinishBound(r)
    BY <2>1 DEF SoleClaim, FinishBound, Archived
  <2>5. CASE MiniOpen
    BY <2>2, <2>3, <2>4, <2>5 DEF MiniPreflight, DeliveryAllowed
  <2>6. CASE ~MiniOpen
    BY <1>1, <2>6 DEF MiniInv, MiniRecorded
  <2>. QED
    BY <2>5, <2>6
<1>. QED
  BY <1>1, MiniInvariance, PTL

-----------------------------------------------------------------------------
(* Launches through the transport *)

Stages == {"away", "load", "step", "effect", "observe", "turn", "ended", "fault", "receipt"}
Causes == {"none", "error", "callback", "rejected", "rerouted",
           "completed", "failed", "interrupted"}
Bindings == [head : Nat, place : Nat, launch : Launches, event : LaunchEvents]
Positions == [at : Stages, launch : Launches \cup {NoLaunch}, journal : Seq(LaunchEvents),
              cause : Causes]

LaunchTyped ==
    /\ launchChain \in Seq([launch : Launches \cup {NoLaunch}, event : LaunchEvents \cup {"other"}])
    /\ launchRecorded \in [Launches -> Seq(LaunchEvents)]
    /\ launchObjects \in [Launches -> SUBSET (Nat \X LaunchEvents)]
    /\ \A l \in Launches : IsFiniteSet(launchObjects[l])
    /\ launchBound \in SUBSET Bindings
    /\ launchIssued \in [Launches -> Markers \cup {NoLaunch}]
    /\ launchChief \in [epoch : Nat, live : BOOLEAN]
    /\ launchRun \in [Runners -> Positions]
    /\ launchDid \in [Launches -> [Boundaries -> Nat]]
    /\ launchTurn \in [Launches -> {"none", "running", "rejected", "rerouted",
                                    "completed", "failed", "interrupted"}]
    /\ launchTorn \in SUBSET Launches

(* The journal of a launch that goes on, and of any.                        *)
Stepping(j) == Len(j) <= 9 /\ \A i \in 1 .. Len(j) : j[i] = LaunchSteps[i]
Final(e) == e \in Verdicts \cup {"receipt"}
Shaped(j) == Stepping(j) \/ (j # <<>> /\ Final(Last(j)))

(* One runner works on a launch, which was issued.                          *)
RunnersApart ==
    /\ \A r \in Runners : (launchRun[r].at = "away") <=> (launchRun[r].launch = NoLaunch)
    /\ \A r, q \in Runners :
          r # q /\ launchRun[r].launch # NoLaunch => launchRun[q].launch # launchRun[r].launch
    /\ \A r \in Runners : launchRun[r].launch \in Launches
          => launchIssued[launchRun[r].launch] # NoLaunch

(* One launch of the packet is ever reserved: at the head of its marker.    *)
OneReserved ==
    \A l \in Launches :
        /\ launchIssued[l] = NoLaunch => launchObjects[l] = {} /\ Recorded(l) = <<>>
        /\ Recorded(l) = <<>> => launchObjects[l] \subseteq {<<1, "reserved">>}
        /\ launchIssued[l] # NoLaunch => launchIssued[l].head <= Len(launchChain)
        /\ Recorded(l) # <<>> =>
              /\ \E i \in DOMAIN launchChain : launchChain[i].event = "reserved"
              /\ \A m \in Launches \ {l} :
                    /\ Recorded(m) = <<>>
                    /\ launchIssued[m] # NoLaunch => launchIssued[m].head < Len(launchChain)

(* What an object of a launch says of its turn.                             *)
Truth(l, e) ==
    /\ e = "failed" => launchTurn[l] \in {"none", "rejected", "rerouted", "failed"}
    /\ e \in {"completed", "interrupted"} => launchTurn[l] = e
    /\ e \in {"runtime_unknown", "turn_started"} => launchTurn[l] \notin {"none", "rejected"}

ObjectsTrue ==
    \A l \in Launches :
        /\ ObjectsOf(Recorded(l)) \subseteq launchObjects[l]
        /\ \A o \in launchObjects[l] : Truth(l, o[2])
        /\ Shaped(Recorded(l))

(* What was done is on record.                                               *)
DoneOnRecord ==
    \A l \in Launches :
        /\ \A i \in Boundaries : launchDid[l][i] > 0 =>
              /\ launchDid[l][i] = 1
              /\ Len(Recorded(l)) >= 2 * i /\ Recorded(l)[2 * i] = LaunchSteps[2 * i]
        /\ launchTurn[l] # "none" => Len(Recorded(l)) >= 8

(* Where a runner is, by its stage: beside the journal on record, the       *)
(* objects of the launch, what was done and what became of the turn.        *)
CauseFits(j, c, turn) ==
    /\ c \in {"error", "callback", "rejected", "rerouted"}
    /\ c = "callback" => Len(j) \in {1, 3}
    /\ c = "rejected" => Len(j) \in {6, 8} /\ turn \in {"none", "rejected"}
    /\ c = "rerouted" => Len(j) \in {6, 8, 9} /\ turn \in {"none", "rerouted"}

Unfinal(objs) == \A o \in objs : ~Final(o[2])
Unstarted(objs) == \A o \in objs : o[2] # "turn_started"

Fits(x, rec, objs, did, turn) ==
    /\ rec # <<>>
    /\ x.at # "fault" => rec = x.journal
    /\ x.at = "receipt" => Last(x.journal) \in Verdicts
    /\ x.at # "receipt" => Stepping(rec) /\ Unfinal(objs)
    /\ x.at = "step" => Len(x.journal) \in {1, 3, 5, 7}
    /\ x.at \in {"effect", "observe"} => Len(x.journal) \in {2, 4, 6, 8}
    /\ x.at = "effect" => did[Len(x.journal) \div 2] = 0
    /\ x.at \in {"step", "effect", "observe"} => Unstarted(objs)
    /\ x.at = "observe" /\ Len(x.journal) = 8 => turn = "running"
    /\ x.at \in {"turn", "ended"} => Len(x.journal) = 9
    /\ x.at = "ended" => x.cause \in {"completed", "failed", "interrupted"} /\ turn = x.cause
    /\ x.at = "fault" /\ rec = x.journal => CauseFits(x.journal, x.cause, turn)

Placed(r) ==
    LET l == launchRun[r].launch
    IN  launchRun[r].at \notin {"away", "load"} =>
           Fits(launchRun[r], Recorded(l), launchObjects[l], launchDid[l], launchTurn[l])

LaunchInv ==
    /\ LaunchTyped /\ RunnersApart /\ OneReserved /\ ObjectsTrue /\ DoneOnRecord
    /\ \A r \in Runners : Placed(r)

(* What is published and not yet recorded, unless a binding was overtaken   *)
(* or a controller went on after an error that left an object behind.       *)
Undisturbed == ~Overtaken /\ launchTorn = {}

NextObject(l, o) ==
    /\ o[1] = Len(Recorded(l)) + 1
    /\ IF Recorded(l) = <<>> THEN o[2] = "reserved" ELSE MayFollow(Recorded(l), o[2])

OneUnrecorded ==
    \A l \in Launches :
        /\ \A o \in Unrecorded(l) : NextObject(l, o)
        /\ \A o, p \in Unrecorded(l) : o = p

PendingFirst ==
    /\ \A b \in PendingBindings :
          /\ b.place = Len(Recorded(b.launch)) + 1
          /\ \A l \in Launches : Recorded(l) # <<>> => b.launch = l
    /\ \A b, c \in PendingBindings : b = c

BoundToObjects == \A b \in launchBound : <<b.place, b.event>> \in launchObjects[b.launch]
BoundBefore == \A b \in launchBound : b.head <= Len(launchChain)

NothingLeft ==
    \A r \in Runners :
        launchRun[r].at \notin {"away", "load"} => Unrecorded(launchRun[r].launch) = {}

RecoveryInv ==
    /\ BoundToObjects /\ BoundBefore
    /\ Undisturbed => OneUnrecorded /\ PendingFirst /\ NothingLeft


-----------------------------------------------------------------------------
(* Journals *)

LEMMA StepFacts ==
    /\ Len(LaunchSteps) = 9 /\ DOMAIN LaunchSteps = 1 .. 9
    /\ \A i \in 1 .. 9 :
          /\ LaunchSteps[i] \in LaunchEvents /\ ~Final(LaunchSteps[i])
          /\ LaunchSteps[i] = "turn_started" <=> i = 9
          /\ LaunchSteps[i] = "reserved" <=> i = 1
          /\ LaunchSteps[i] = "version_probe_pending" <=> i = 2
          /\ LaunchSteps[i] \in StartsPending <=> i \in {2, 4, 6, 8}
<1>1. /\ Len(LaunchSteps) = 9 /\ DOMAIN LaunchSteps = 1 .. 9
      /\ LaunchSteps[1] = "reserved" /\ LaunchSteps[2] = "version_probe_pending"
      /\ LaunchSteps[3] = "version_probe_observed" /\ LaunchSteps[4] = "process_start_pending"
      /\ LaunchSteps[5] = "process_started" /\ LaunchSteps[6] = "thread_start_send_pending"
      /\ LaunchSteps[7] = "thread_started" /\ LaunchSteps[8] = "turn_start_send_pending"
      /\ LaunchSteps[9] = "turn_started"
  BY DEF LaunchSteps
<1>2. \A i \in 1 .. 9 : i = 1 \/ i = 2 \/ i = 3 \/ i = 4 \/ i = 5 \/ i = 6 \/ i = 7 \/ i = 8 \/ i = 9
  OBVIOUS
<1>3. StartsPending = {LaunchSteps[2], LaunchSteps[4], LaunchSteps[6], LaunchSteps[8]}
  <2>1. \A i \in Boundaries : i = 1 \/ i = 2 \/ i = 3 \/ i = 4
    BY DEF Boundaries
  <2>2. 1 \in Boundaries /\ 2 \in Boundaries /\ 3 \in Boundaries /\ 4 \in Boundaries
    BY DEF Boundaries
  <2>3. 2 * 1 = 2 /\ 2 * 2 = 4 /\ 2 * 3 = 6 /\ 2 * 4 = 8
    OBVIOUS
  <2>4. \A i \in Boundaries : LaunchSteps[2 * i] \in {LaunchSteps[2], LaunchSteps[4], LaunchSteps[6], LaunchSteps[8]}
    BY <2>1, <2>3
  <2>5. \A x \in {LaunchSteps[2], LaunchSteps[4], LaunchSteps[6], LaunchSteps[8]} :
           \E i \in Boundaries : x = LaunchSteps[2 * i]
    BY <2>2, <2>3
  <2> QED BY <2>4, <2>5 DEF StartsPending
<1>4. \A i \in 1 .. 9 : LaunchSteps[i] \in LaunchEvents
  BY <1>1 DEF LaunchEvents
<1>5. \A i \in 1 .. 9 : ~Final(LaunchSteps[i])
  BY <1>1, <1>2 DEF Final, Verdicts
<1>6. \A i \in 1 .. 9 :
          /\ LaunchSteps[i] = "turn_started" <=> i = 9
          /\ LaunchSteps[i] = "reserved" <=> i = 1
          /\ LaunchSteps[i] = "version_probe_pending" <=> i = 2
  BY <1>1, <1>2
<1>7. \A i \in 1 .. 9 : LaunchSteps[i] \in StartsPending <=> i \in {2, 4, 6, 8}
  BY <1>1, <1>2, <1>3
<1> QED BY <1>1, <1>4, <1>5, <1>6, <1>7

LEMMA EventsFacts ==
    /\ Verdicts \subseteq LaunchEvents /\ "receipt" \in LaunchEvents /\ "reserved" \in LaunchEvents
    /\ "receipt" \notin Verdicts /\ \A v \in Verdicts : Final(v)
    /\ Final("receipt") /\ ~Final("reserved") /\ ~Final("turn_started")
    /\ "turn_started" \notin Verdicts
<1>1. "reserved" \in LaunchEvents
  BY StepFacts
<1> QED BY <1>1 DEF LaunchEvents, Verdicts, Final

(* The last event of a journal, and a journal with one more.                *)
LEMMA JournalParts ==
    ASSUME NEW j \in Seq(LaunchEvents), NEW e \in LaunchEvents
    PROVE  /\ Len(j) \in Nat /\ DOMAIN j = 1 .. Len(j)
           /\ j # <<>> <=> Len(j) # 0
           /\ j # <<>> => Last(j) = j[Len(j)] /\ Last(j) \in LaunchEvents
           /\ Append(j, e) \in Seq(LaunchEvents) /\ Append(j, e) # <<>>
           /\ Len(Append(j, e)) = Len(j) + 1
           /\ Last(Append(j, e)) = e /\ Append(j, e)[Len(j) + 1] = e
           /\ \A i \in 1 .. Len(j) : Append(j, e)[i] = j[i]
<1>1. \A t \in Seq(LaunchEvents) : Len(t) = 0 <=> t = <<>>
  OBVIOUS
<1>2. /\ Append(j, e) \in Seq(LaunchEvents) /\ Len(Append(j, e)) = Len(j) + 1
      /\ Append(j, e)[Len(j) + 1] = e /\ \A i \in 1 .. Len(j) : Append(j, e)[i] = j[i]
      /\ Len(j) \in Nat /\ DOMAIN j = 1 .. Len(j)
  OBVIOUS
<1>3. Append(j, e) # <<>> /\ (j # <<>> <=> Len(j) # 0)
  BY <1>1, <1>2
<1>4. j # <<>> => j[Len(j)] \in LaunchEvents
  BY <1>2, <1>3
<1> QED BY <1>2, <1>3, <1>4 DEF Last

LEMMA SteppingLast ==
    ASSUME NEW j \in Seq(LaunchEvents), Stepping(j), j # <<>>
    PROVE  /\ Len(j) \in 1 .. 9 /\ Last(j) = LaunchSteps[Len(j)] /\ ~Final(Last(j))
           /\ \A i \in 1 .. Len(j) : ~Final(j[i])
<1>1. /\ Len(j) \in 1 .. 9 /\ Last(j) = j[Len(j)]
      /\ \A i \in 1 .. Len(j) : j[i] = LaunchSteps[i] /\ i \in 1 .. 9
  <2>1. Len(j) \in Nat /\ Len(j) # 0 /\ Last(j) = j[Len(j)]
    BY JournalParts, EventsFacts
  <2>2. Len(j) <= 9 /\ \A i \in 1 .. Len(j) : j[i] = LaunchSteps[i]
    BY DEF Stepping
  <2>3. \A n \in Nat : n # 0 /\ n <= 9 => n \in 1 .. 9 /\ \A i \in 1 .. n : i \in 1 .. 9
    OBVIOUS
  <2>4. Len(j) \in 1 .. 9 /\ \A i \in 1 .. Len(j) : i \in 1 .. 9
    BY <2>1, <2>2, <2>3, Zenon
  <2> QED BY <2>1, <2>2, <2>4
<1>2. \A i \in 1 .. 9 : ~Final(LaunchSteps[i])
  BY StepFacts
<1>3. \A i \in 1 .. Len(j) : ~Final(j[i])
  BY <1>1, <1>2
<1>4. Len(j) \in 1 .. Len(j)
  BY <1>1
<1>5. Last(j) = LaunchSteps[Len(j)]
  BY <1>1, <1>4
<1> QED BY <1>1, <1>3, <1>4, <1>5

LEMMA SteppingGrows ==
    ASSUME NEW j \in Seq(LaunchEvents), Stepping(j), Len(j) < 9
    PROVE  /\ LaunchSteps[Len(j) + 1] \in LaunchEvents
           /\ Stepping(Append(j, LaunchSteps[Len(j) + 1]))
<1> DEFINE e == LaunchSteps[Len(j) + 1]
<1>1. Len(j) \in Nat /\ Len(j) + 1 \in 1 .. 9
  OBVIOUS
<1>2. e \in LaunchEvents
  BY <1>1, StepFacts
<1> HIDE DEF e
<1>3. /\ Len(Append(j, e)) = Len(j) + 1 /\ Append(j, e)[Len(j) + 1] = e
      /\ \A i \in 1 .. Len(j) : Append(j, e)[i] = j[i]
  BY <1>2, JournalParts
<1>4. \A i \in 1 .. Len(j) + 1 : i \in 1 .. Len(j) \/ i = Len(j) + 1
  BY <1>1
<1>5. Stepping(Append(j, e))
  BY <1>1, <1>3, <1>4 DEF Stepping, e
<1> QED BY <1>2, <1>5 DEF e

LEMMA FirstStep ==
    Stepping(<<>>) /\ Stepping(Append(<<>>, "reserved"))
<1>1. <<>> \in Seq(LaunchEvents) /\ Len(<<>>) = 0
  OBVIOUS
<1>2. Stepping(<<>>)
  BY <1>1 DEF Stepping
<1>3. LaunchSteps[1] = "reserved"
  BY StepFacts
<1>4. Len(<<>>) + 1 = 1 /\ Len(<<>>) < 9
  BY <1>1
<1>5. Stepping(Append(<<>>, LaunchSteps[Len(<<>>) + 1]))
  BY <1>1, <1>2, <1>4, SteppingGrows
<1>6. LaunchSteps[Len(<<>>) + 1] = "reserved"
  BY <1>3, <1>4
<1> QED BY <1>2, <1>5, <1>6

LEMMA ShapedGrows ==
    ASSUME NEW j \in Seq(LaunchEvents), Shaped(j), NEW e \in LaunchEvents,
           Final(e) \/ (IF j = <<>> THEN e = "reserved" ELSE MayFollow(j, e))
    PROVE  Shaped(Append(j, e))
<1>1. Append(j, e) # <<>> /\ Last(Append(j, e)) = e
  BY JournalParts
<1>2. CASE Final(e)
  BY <1>1, <1>2 DEF Shaped
<1>3. CASE ~Final(e) /\ j = <<>>
  BY <1>3, FirstStep DEF Shaped
<1>4. CASE ~Final(e) /\ j # <<>>
  <2>1. MayFollow(j, e) /\ e \notin Verdicts /\ e # "receipt"
    BY <1>4 DEF Final
  <2>2. Last(j) \notin Verdicts \cup {"receipt"} /\ Len(j) < 9 /\ e = LaunchSteps[Len(j) + 1]
    BY <2>1, StepFacts DEF MayFollow, Verdicts
  <2>3. Stepping(j)
    BY <2>2 DEF Shaped, Final
  <2>4. Stepping(Append(j, e))
    BY <2>2, <2>3, SteppingGrows
  <2> QED BY <2>4 DEF Shaped
<1> QED BY <1>2, <1>3, <1>4

(* The objects of a journal.                                                 *)
LEMMA ObjectsGrow ==
    ASSUME NEW j \in Seq(LaunchEvents), NEW e \in LaunchEvents
    PROVE  /\ ObjectsOf(Append(j, e)) = ObjectsOf(j) \cup {<<Len(j) + 1, e>>}
           /\ \A x : <<Len(j) + 1, x>> \notin ObjectsOf(j)
           /\ ObjectsOf(j) \in SUBSET (Nat \X LaunchEvents)
<1>1. /\ Len(j) \in Nat /\ DOMAIN j = 1 .. Len(j) /\ DOMAIN Append(j, e) = 1 .. Len(j) + 1
      /\ Append(j, e)[Len(j) + 1] = e /\ \A i \in 1 .. Len(j) : Append(j, e)[i] = j[i]
      /\ \A i \in 1 .. Len(j) : j[i] \in LaunchEvents
  OBVIOUS
<1>2. \A i \in 1 .. Len(j) + 1 : i \in 1 .. Len(j) \/ i = Len(j) + 1
  BY <1>1
<1>3. \A i \in 1 .. Len(j) : i \in 1 .. Len(j) + 1 /\ i # Len(j) + 1
  BY <1>1
<1>4. Len(j) + 1 \in 1 .. Len(j) + 1
  BY <1>1
<1>5. ObjectsOf(Append(j, e)) = ObjectsOf(j) \cup {<<Len(j) + 1, e>>}
  <2>1. ASSUME NEW o \in ObjectsOf(Append(j, e))
        PROVE  o \in ObjectsOf(j) \cup {<<Len(j) + 1, e>>}
    <3>1. PICK i \in 1 .. Len(j) + 1 : o = <<i, Append(j, e)[i]>>
      BY <1>1 DEF ObjectsOf
    <3>2. CASE i \in 1 .. Len(j)
      BY <1>1, <3>1, <3>2 DEF ObjectsOf
    <3>3. CASE i = Len(j) + 1
      BY <1>1, <3>1, <3>3
    <3> QED BY <1>2, <3>2, <3>3
  <2>2. ASSUME NEW o \in ObjectsOf(j)
        PROVE  o \in ObjectsOf(Append(j, e))
    <3>1. PICK i \in 1 .. Len(j) : o = <<i, j[i]>>
      BY <1>1 DEF ObjectsOf
    <3> QED BY <1>1, <1>3, <3>1 DEF ObjectsOf
  <2>3. <<Len(j) + 1, e>> \in ObjectsOf(Append(j, e))
    BY <1>1, <1>4 DEF ObjectsOf
  <2> QED BY <2>1, <2>2, <2>3
<1>6. \A x : <<Len(j) + 1, x>> \notin ObjectsOf(j)
  BY <1>1, <1>3 DEF ObjectsOf
<1>7. ObjectsOf(j) \in SUBSET (Nat \X LaunchEvents)
  BY <1>1 DEF ObjectsOf
<1> QED BY <1>5, <1>6, <1>7


LEMMA FollowFacts ==
    ASSUME NEW j \in Seq(LaunchEvents), Shaped(j), j # <<>>, NEW e \in LaunchEvents,
           MayFollow(j, e)
    PROVE  /\ e # "reserved"
           /\ ~Final(e) => Stepping(j) /\ Len(j) < 9 /\ e = LaunchSteps[Len(j) + 1]
                           /\ Stepping(Append(j, e))
           /\ Last(j) \in Verdicts => e = "receipt"
<1>1. Len(j) \in Nat /\ Len(j) # 0
  BY JournalParts
<1>2. CASE Final(e)
  <2>1. e # "reserved"
    BY <1>2, EventsFacts
  <2>2. Last(j) \in Verdicts => e = "receipt"
    BY DEF MayFollow
  <2> QED BY <1>2, <2>1, <2>2
<1>3. CASE ~Final(e)
  <2>1. e \notin Verdicts /\ e # "receipt"
    BY <1>3 DEF Final
  <2>2. Last(j) \notin Verdicts \cup {"receipt"} /\ Len(j) < 9 /\ e = LaunchSteps[Len(j) + 1]
    BY <2>1, StepFacts DEF MayFollow, Verdicts
  <2>3. Stepping(j)
    BY <2>2 DEF Shaped, Final
  <2>4. Stepping(Append(j, e))
    BY <2>2, <2>3, SteppingGrows
  <2>5. Len(j) + 1 \in 1 .. 9 /\ Len(j) + 1 # 1
    BY <1>1, <2>2
  <2>6. LaunchSteps[Len(j) + 1] # "reserved"
    BY <2>5, StepFacts
  <2> QED BY <2>2, <2>3, <2>4, <2>6
<1> QED BY <1>2, <1>3

(* The objects of a journal that goes on say nothing final.                 *)
LEMMA SteppingObjects ==
    ASSUME NEW j \in Seq(LaunchEvents), Stepping(j), NEW o \in ObjectsOf(j)
    PROVE  /\ ~Final(o[2]) /\ o \in Nat \X LaunchEvents
           /\ Len(j) < 9 => o[2] # "turn_started"
<1>1. /\ Len(j) \in Nat /\ DOMAIN j = 1 .. Len(j)
      /\ \A i \in 1 .. Len(j) : j[i] \in LaunchEvents
  OBVIOUS
<1>2. PICK i \in 1 .. Len(j) : o = <<i, j[i]>>
  BY <1>1 DEF ObjectsOf
<1>3. Len(j) <= 9 /\ j[i] = LaunchSteps[i]
  BY DEF Stepping
<1>4. i \in 1 .. 9 /\ (Len(j) < 9 => i # 9)
  BY <1>1, <1>3
<1>5. ~Final(j[i]) /\ (Len(j) < 9 => j[i] # "turn_started")
  BY <1>3, <1>4, StepFacts
<1>6. o[2] = j[i] /\ i \in Nat
  BY <1>1, <1>2
<1> QED BY <1>1, <1>2, <1>5, <1>6

-----------------------------------------------------------------------------
(* One publication *)

(* The writes of a publication, launch by launch.                           *)
LEMMA WrittenParts ==
    ASSUME LaunchTyped, NEW l \in Launches, NEW e \in LaunchEvents, NEW n \in 0 .. 3,
           Written(l, e, n)
    PROVE  /\ \A m \in Launches \ {l} :
                 /\ launchObjects'[m] = launchObjects[m]
                 /\ launchRecorded'[m] = launchRecorded[m]
           /\ n < 1 => launchObjects' = launchObjects
           /\ n >= 1 => launchObjects'[l] = launchObjects[l]
                           \cup {<<Len(launchRecorded[l]) + 1, e>>}
           /\ n < 2 => launchBound' = launchBound
           /\ n >= 2 => launchBound' = launchBound \cup
                  {[head |-> Len(launchChain), place |-> Len(launchRecorded[l]) + 1,
                    launch |-> l, event |-> e]}
           /\ n < 3 => launchChain' = launchChain /\ launchRecorded' = launchRecorded
           /\ n = 3 => /\ launchChain' = Append(launchChain, [launch |-> l, event |-> e])
                       /\ launchRecorded'[l] = Append(launchRecorded[l], e)
           /\ launchObjects' \in [Launches -> SUBSET (Nat \X LaunchEvents)]
           /\ launchRecorded' \in [Launches -> Seq(LaunchEvents)]
           /\ launchBound' \in SUBSET Bindings
           /\ launchChain' \in Seq([launch : Launches \cup {NoLaunch},
                                    event : LaunchEvents \cup {"other"}])
           /\ \A m \in Launches : IsFiniteSet(launchObjects'[m])
<1> DEFINE place == Len(launchRecorded[l]) + 1
           bound == [head |-> Len(launchChain), place |-> place, launch |-> l, event |-> e]
           ev == [launch |-> l, event |-> e]
<1>t. /\ launchChain \in Seq([launch : Launches \cup {NoLaunch}, event : LaunchEvents \cup {"other"}])
      /\ launchRecorded \in [Launches -> Seq(LaunchEvents)]
      /\ launchObjects \in [Launches -> SUBSET (Nat \X LaunchEvents)]
      /\ \A m \in Launches : IsFiniteSet(launchObjects[m])
      /\ launchBound \in SUBSET Bindings
  BY DEF LaunchTyped
<1>n. n \in Nat /\ (n < 3 \/ n = 3) /\ (n < 1 \/ n >= 1) /\ (n < 2 \/ n >= 2)
  OBVIOUS
<1>1. launchRecorded[l] \in Seq(LaunchEvents) /\ Len(launchRecorded[l]) \in Nat
      /\ Len(launchChain) \in Nat
  BY <1>t
<1>2. place \in Nat /\ <<place, e>> \in Nat \X LaunchEvents
  BY <1>1
<1>3. bound \in Bindings
  BY <1>1, <1>2 DEF Bindings
<1>4. ev \in [launch : Launches \cup {NoLaunch}, event : LaunchEvents \cup {"other"}]
  OBVIOUS
<1>o. launchObjects' = IF n < 1 THEN launchObjects
                       ELSE [launchObjects EXCEPT ![l] = launchObjects[l] \cup {<<place, e>>}]
  BY DEF Written, Recorded
<1>b. launchBound' = IF n < 2 THEN launchBound ELSE launchBound \cup {bound}
  BY DEF Written, Recorded
<1>c. IF n < 3 THEN launchChain' = launchChain /\ launchRecorded' = launchRecorded
      ELSE /\ launchChain' = Append(launchChain, ev)
           /\ launchRecorded' = [launchRecorded EXCEPT ![l] = Append(launchRecorded[l], e)]
  BY DEF Written, Appended, TaskChain
<1>5. Append(launchRecorded[l], e) \in Seq(LaunchEvents)
  BY <1>1, JournalParts
<1> HIDE DEF place, bound, ev
<1>6. /\ launchObjects' \in [Launches -> SUBSET (Nat \X LaunchEvents)]
      /\ \A m \in Launches \ {l} : launchObjects'[m] = launchObjects[m]
      /\ n < 1 => launchObjects' = launchObjects
      /\ n >= 1 => launchObjects'[l] = launchObjects[l] \cup {<<place, e>>}
  BY <1>o, <1>t, <1>2, <1>n
<1>7. \A m \in Launches : IsFiniteSet(launchObjects'[m])
  <2> SUFFICES ASSUME NEW m \in Launches PROVE IsFiniteSet(launchObjects'[m])
    OBVIOUS
  <2>1. IsFiniteSet(launchObjects[m])
    BY <1>t
  <2>2. CASE n < 1 \/ m # l
    <3>1. launchObjects'[m] = launchObjects[m]
      BY <1>6, <2>2
    <3> QED BY <2>1, <3>1
  <2>3. CASE n >= 1 /\ m = l
    <3>1. launchObjects'[m] = launchObjects[m] \cup {<<place, e>>}
      BY <1>6, <2>3
    <3>2. IsFiniteSet(launchObjects[m] \cup {<<place, e>>})
      BY <2>1, FS_AddElement
    <3> QED BY <3>1, <3>2
  <2> QED BY <1>n, <2>2, <2>3
<1>8. /\ launchBound' \in SUBSET Bindings
      /\ n < 2 => launchBound' = launchBound
      /\ n >= 2 => launchBound' = launchBound \cup {bound}
  BY <1>b, <1>t, <1>3, <1>n
<1>9. /\ launchChain' \in Seq([launch : Launches \cup {NoLaunch}, event : LaunchEvents \cup {"other"}])
      /\ n < 3 => launchChain' = launchChain /\ launchRecorded' = launchRecorded
      /\ n = 3 => launchChain' = Append(launchChain, ev)
  <2>1. Append(launchChain, ev) \in
           Seq([launch : Launches \cup {NoLaunch}, event : LaunchEvents \cup {"other"}])
    BY <1>t, <1>4
  <2>2. CASE n < 3
    <3>1. launchChain' = launchChain /\ launchRecorded' = launchRecorded
      BY <1>c, <2>2
    <3>2. n # 3
      BY <1>n, <2>2
    <3> QED BY <1>t, <3>1, <3>2
  <2>3. CASE n = 3
    <3>1. ~(n < 3)
      BY <2>3
    <3>2. launchChain' = Append(launchChain, ev)
      BY <1>c, <3>1
    <3> QED BY <2>1, <3>1, <3>2
  <2> QED BY <1>n, <2>2, <2>3
<1>10. /\ launchRecorded' \in [Launches -> Seq(LaunchEvents)]
       /\ \A m \in Launches \ {l} : launchRecorded'[m] = launchRecorded[m]
       /\ n = 3 => launchRecorded'[l] = Append(launchRecorded[l], e)
  <2>1. CASE n < 3
    <3>1. launchRecorded' = launchRecorded
      BY <1>c, <2>1
    <3>2. n # 3
      BY <1>n, <2>1
    <3> QED BY <1>t, <3>1, <3>2
  <2>2. CASE n = 3
    <3>1. ~(n < 3)
      BY <2>2
    <3>2. launchRecorded' = [launchRecorded EXCEPT ![l] = Append(launchRecorded[l], e)]
      BY <1>c, <3>1
    <3> QED BY <1>t, <1>5, <3>2
  <2> QED BY <1>n, <2>1, <2>2
<1> QED BY <1>6, <1>7, <1>8, <1>9, <1>10 DEF place, bound, ev

LEMMA PublishParts ==
    ASSUME LaunchTyped, NEW r \in Runners, NEW l \in Launches, launchRun[r].launch = l,
           NEW journal \in Seq(LaunchEvents), NEW e \in LaunchEvents,
           NEW good, NEW bad, Publishes(r, journal, e, good, bad),
           bad = RunnerAway \/ bad.at = "fault"
    PROVE  \E n \in 0 .. 3, x \in {good, bad, RunnerAway} :
             /\ Written(l, e, n)
             /\ launchRun' = [launchRun EXCEPT ![r] = x]
             /\ launchTorn' \in {launchTorn, launchTorn \cup {l}}
             /\ (x = good /\ n = 3) \/ x = RunnerAway \/ (x = bad /\ (n \in 1 .. 2 => l \in launchTorn'))
             /\ n > 0 => Recorded(l) = journal
             /\ n >= 2 => BindingsSound /\ \A b \in PendingBindings :
                                              b.launch = l /\ b.place = Len(journal) + 1
             /\ launchIssued' = launchIssued
             /\ launchChief' = launchChief
             /\ launchExpired' = launchExpired
             /\ launchDid' = launchDid
             /\ launchTurn' = launchTurn
<1> DEFINE all == LetThrough(l, journal)
           Fails(n) ==
             /\ Becomes(r, bad)
             /\ launchTorn' = IF n \in 1 .. 2 /\ bad.at = "fault"
                              THEN launchTorn \cup {l} ELSE launchTorn
<1>1. PICK n \in 0 .. all :
             /\ Written(l, e, n)
             /\ \/ n = 3 /\ Becomes(r, good) /\ UNCHANGED <<launchTorn, launchSpent>>
                \/ n = all /\ all < 3 /\ Fails(n) /\ UNCHANGED launchSpent
                \/ all = 3 /\ Mishap /\ Fails(n)
                \/ Killed(r) /\ UNCHANGED launchTorn
  BY DEF Publishes
<1>2. launchIssued' = launchIssued /\ launchChief' = launchChief /\ launchExpired' = launchExpired
      /\ launchDid' = launchDid /\ launchTurn' = launchTurn
  BY DEF Publishes
<1>3. all \in {0, 1, 3} /\ (all > 0 => Recorded(l) = journal)
      /\ (all = 3 => BindingsSound /\ \A b \in PendingBindings :
                                              b.launch = l /\ b.place = Len(journal) + 1)
  BY DEF LetThrough
<1> HIDE DEF all
<1>4. n \in 0 .. 3 /\ (n > 0 => all > 0) /\ (n >= 2 => all = 3)
  BY <1>3
<1>5. /\ n > 0 => Recorded(l) = journal
      /\ n >= 2 => BindingsSound /\ \A b \in PendingBindings :
                                              b.launch = l /\ b.place = Len(journal) + 1
  BY <1>3, <1>4
<1>6. ASSUME NEW x \in {good, bad, RunnerAway},
             launchRun' = [launchRun EXCEPT ![r] = x],
             launchTorn' \in {launchTorn, launchTorn \cup {l}},
             (x = good /\ n = 3) \/ x = RunnerAway \/ (x = bad /\ (n \in 1 .. 2 => l \in launchTorn'))
      PROVE  \E nn \in 0 .. 3, xx \in {good, bad, RunnerAway} :
             /\ Written(l, e, nn)
             /\ launchRun' = [launchRun EXCEPT ![r] = xx]
             /\ launchTorn' \in {launchTorn, launchTorn \cup {l}}
             /\ (xx = good /\ nn = 3) \/ xx = RunnerAway \/ (xx = bad /\ (nn \in 1 .. 2 => l \in launchTorn'))
             /\ nn > 0 => Recorded(l) = journal
             /\ nn >= 2 => BindingsSound /\ \A b \in PendingBindings :
                                              b.launch = l /\ b.place = Len(journal) + 1
             /\ launchIssued' = launchIssued
             /\ launchChief' = launchChief
             /\ launchExpired' = launchExpired
             /\ launchDid' = launchDid
             /\ launchTurn' = launchTurn
  <2> n \in 0 .. 3
    BY <1>4
  <2> WITNESS n \in 0 .. 3, x \in {good, bad, RunnerAway}
  <2> QED BY <1>1, <1>2, <1>5, <1>6
<1>7. CASE n = 3 /\ Becomes(r, good) /\ UNCHANGED <<launchTorn, launchSpent>>
  <2>1. launchRun' = [launchRun EXCEPT ![r] = good] /\ launchTorn' = launchTorn
    BY <1>7 DEF Becomes
  <2> QED BY <1>6, <1>7, <2>1
<1>8. CASE Fails(n)
  <2>1. launchRun' = [launchRun EXCEPT ![r] = bad]
    BY <1>8 DEF Becomes
  <2>2. CASE bad = RunnerAway
    <3>1. RunnerAway.at # "fault"
      BY DEF RunnerAway
    <3>2. launchTorn' = launchTorn
      BY <1>8, <2>2, <3>1
    <3> QED BY <1>6, <2>1, <2>2, <3>2
  <2>3. CASE bad.at = "fault"
    <3>1. launchTorn' \in {launchTorn, launchTorn \cup {l}} /\ (n \in 1 .. 2 => l \in launchTorn')
      BY <1>8, <2>3
    <3> QED BY <1>6, <2>1, <3>1
  <2> QED BY <2>2, <2>3
<1>9. CASE Killed(r) /\ UNCHANGED launchTorn
  <2>1. launchRun' = [launchRun EXCEPT ![r] = RunnerAway] /\ launchTorn' = launchTorn
    BY <1>9 DEF Killed, Becomes
  <2> QED BY <1>6, <2>1
<1> QED BY <1>1, <1>7, <1>8, <1>9


LEMMA OthersPlaced ==
    ASSUME LaunchTyped, RunnersApart, NEW l \in Launches,
           NEW q \in Runners, Placed(q), launchRun[q].launch # l,
           launchRun'[q] = launchRun[q],
           \A m \in Launches \ {l} :
              /\ launchRecorded'[m] = launchRecorded[m] /\ launchObjects'[m] = launchObjects[m]
              /\ launchDid'[m] = launchDid[m] /\ launchTurn'[m] = launchTurn[m]
    PROVE  Placed(q)'
<1> DEFINE m == launchRun[q].launch
<1>1. CASE launchRun[q].at \in {"away", "load"}
  BY <1>1 DEF Placed
<1>2. CASE launchRun[q].at \notin {"away", "load"}
  <2>1. launchRun[q] \in Positions
    BY DEF LaunchTyped
  <2>2. m \in Launches \cup {NoLaunch} /\ m # NoLaunch
    BY <1>2, <2>1 DEF Positions, RunnersApart
  <2>3. m \in Launches \ {l}
    BY <2>2
  <2>4. /\ launchRecorded'[m] = launchRecorded[m] /\ launchObjects'[m] = launchObjects[m]
        /\ launchDid'[m] = launchDid[m] /\ launchTurn'[m] = launchTurn[m]
    BY <2>3
  <2> QED BY <2>4 DEF Placed, Recorded
<1> QED BY <1>1, <1>2

(* A runner's position, and what one runner's move leaves of the others.    *)
LEMMA MoveKeepsApart ==
    ASSUME LaunchTyped, RunnersApart, NEW r \in Runners, NEW l \in Launches,
           launchRun[r].launch = l, NEW x \in Positions,
           x = RunnerAway \/ (x.launch = l /\ x.at # "away"),
           launchRun' = [launchRun EXCEPT ![r] = x], launchIssued' = launchIssued
    PROVE  /\ launchRun' \in [Runners -> Positions] /\ launchRun'[r] = x
           /\ \A q \in Runners \ {r} : launchRun'[q] = launchRun[q] /\ launchRun[q].launch # l
           /\ RunnersApart'
           /\ launchIssued[l] # NoLaunch
<1>1. l # NoLaunch
  BY LaunchAssumption
<1>2. /\ launchRun' \in [Runners -> Positions] /\ launchRun'[r] = x
      /\ \A q \in Runners \ {r} : launchRun'[q] = launchRun[q]
  BY DEF LaunchTyped
<1>3. \A q \in Runners \ {r} : launchRun[q].launch # l
  BY <1>1 DEF RunnersApart
<1>4. RunnerAway.at = "away" /\ RunnerAway.launch = NoLaunch
  BY DEF RunnerAway
<1>5. (x.at = "away") <=> (x.launch = NoLaunch)
  BY <1>1, <1>4
<1>6. x.launch \in {l, NoLaunch}
  BY <1>4
<1>7. launchIssued[l] # NoLaunch
  BY DEF RunnersApart
<1>8. \A q \in Runners : (launchRun'[q].at = "away") <=> (launchRun'[q].launch = NoLaunch)
  BY <1>2, <1>5 DEF RunnersApart
<1>9. ASSUME NEW p \in Runners, NEW q \in Runners, p # q, launchRun'[p].launch # NoLaunch
      PROVE  launchRun'[q].launch # launchRun'[p].launch
  <2>1. CASE p = r
    BY <1>2, <1>3, <1>6, <1>9, <2>1
  <2>2. CASE q = r
    BY <1>2, <1>3, <1>6, <1>9, <2>2
  <2>3. CASE p # r /\ q # r
    BY <1>2, <1>9, <2>3 DEF RunnersApart
  <2> QED BY <2>1, <2>2, <2>3
<1>10. \A q \in Runners : launchRun'[q].launch \in Launches
          => launchIssued'[launchRun'[q].launch] # NoLaunch
  <2> SUFFICES ASSUME NEW q \in Runners, launchRun'[q].launch \in Launches
               PROVE  launchIssued[launchRun'[q].launch] # NoLaunch
    OBVIOUS
  <2>1. CASE q = r
    BY <1>1, <1>2, <1>6, <1>7, <2>1, LaunchAssumption
  <2>2. CASE q # r
    BY <1>2, <2>2 DEF RunnersApart
  <2> QED BY <2>1, <2>2
<1>11. RunnersApart'
  BY <1>8, <1>9, <1>10 DEF RunnersApart
<1> QED BY <1>2, <1>3, <1>7, <1>11

(* A launch whose journal is empty reserves at the head of its marker, so   *)
(* that no other launch has been reserved.                                  *)
LEMMA Alone ==
    ASSUME LaunchTyped, OneReserved, NEW l \in Launches, launchIssued[l] # NoLaunch,
           Recorded(l) = <<>> => launchIssued[l].head = Len(launchChain)
    PROVE  \A m \in Launches \ {l} : Recorded(m) = <<>>
<1>1. Len(launchChain) \in Nat
  BY DEF LaunchTyped
<1>2. CASE Recorded(l) # <<>>
  BY <1>2 DEF OneReserved
<1>3. CASE Recorded(l) = <<>>
  <2> SUFFICES ASSUME NEW m \in Launches \ {l}, Recorded(m) # <<>>
               PROVE  FALSE
    OBVIOUS
  <2>1. launchIssued[l].head < Len(launchChain)
    BY DEF OneReserved
  <2> QED BY <1>1, <1>3, <2>1
<1> QED BY <1>2, <1>3

LEMMA PublishOneReserved ==
    ASSUME LaunchTyped, OneReserved, NEW l \in Launches, NEW e \in LaunchEvents,
           NEW n \in 0 .. 3, Written(l, e, n), launchIssued[l] # NoLaunch,
           launchIssued' = launchIssued,
           n > 0 /\ Recorded(l) = <<>>
              => e = "reserved" /\ launchIssued[l].head = Len(launchChain)
    PROVE  OneReserved'
<1> DEFINE L == Len(launchChain)
           ev == [launch |-> l, event |-> e]
<1>t. /\ launchRecorded \in [Launches -> Seq(LaunchEvents)]
      /\ launchChain \in Seq([launch : Launches \cup {NoLaunch}, event : LaunchEvents \cup {"other"}])
  BY DEF LaunchTyped
<1>l. launchRecorded[l] \in Seq(LaunchEvents) /\ L \in Nat
  BY <1>t
<1>w. /\ \A m \in Launches \ {l} :
            /\ launchObjects'[m] = launchObjects[m]
            /\ launchRecorded'[m] = launchRecorded[m]
      /\ n < 1 => launchObjects' = launchObjects
      /\ n >= 1 => launchObjects'[l] = launchObjects[l]
                      \cup {<<Len(launchRecorded[l]) + 1, e>>}
      /\ n < 3 => launchChain' = launchChain /\ launchRecorded' = launchRecorded
      /\ n = 3 => /\ launchChain' = Append(launchChain, ev)
                  /\ launchRecorded'[l] = Append(launchRecorded[l], e)
  BY WrittenParts
<1>a. /\ Append(launchRecorded[l], e) # <<>>
      /\ launchRecorded[l] # <<>> <=> Len(launchRecorded[l]) # 0
  BY <1>l, JournalParts
<1>c. /\ Len(Append(launchChain, ev)) = L + 1 /\ Append(launchChain, ev)[L + 1] = ev
      /\ \A i \in 1 .. L : Append(launchChain, ev)[i] = launchChain[i]
      /\ DOMAIN launchChain = 1 .. L /\ DOMAIN Append(launchChain, ev) = 1 .. L + 1
  BY <1>t
<1>n. n \in Nat /\ (n < 3 \/ n = 3) /\ (n < 1 \/ n >= 1) /\ (n >= 1 => n > 0) /\ (n < 3 => n # 3)
  OBVIOUS
<1> HIDE DEF ev
<1>h. \A k \in Launches : launchIssued[k] # NoLaunch =>
         launchIssued[k].head \in Nat /\ launchIssued[k].head <= L
  BY DEF OneReserved, LaunchTyped, Markers
<1>0. n = 3 => \A m \in Launches \ {l} : launchRecorded[m] = <<>>
  BY <1>n, Alone DEF Recorded
<1>1. ASSUME NEW k \in Launches, launchIssued[k] = NoLaunch
      PROVE  launchObjects'[k] = {} /\ launchRecorded'[k] = <<>>
  <2>1. k \in Launches \ {l}
    BY <1>1
  <2> QED BY <1>1, <1>w, <2>1 DEF OneReserved, Recorded
<1>2. ASSUME NEW k \in Launches, launchRecorded'[k] = <<>>
      PROVE  launchObjects'[k] \subseteq {<<1, "reserved">>}
  <2>1. CASE k # l
    BY <1>2, <1>w, <2>1 DEF OneReserved, Recorded
  <2>2. CASE k = l
    <3>1. n < 3 /\ launchRecorded[l] = <<>>
      BY <1>2, <1>w, <1>a, <1>n, <2>2
    <3>2. launchObjects[l] \subseteq {<<1, "reserved">>}
      BY <3>1 DEF OneReserved, Recorded
    <3>3. CASE n < 1
      BY <1>w, <2>2, <3>2, <3>3
    <3>4. CASE n >= 1
      <4>1. e = "reserved" /\ Len(launchRecorded[l]) + 1 = 1
        BY <1>n, <1>a, <3>1, <3>4 DEF Recorded
      <4> QED BY <1>w, <2>2, <3>2, <3>4, <4>1
    <3> QED BY <1>n, <3>3, <3>4
  <2> QED BY <2>1, <2>2
<1>3. Len(launchChain') \in Nat /\ L <= Len(launchChain') /\ (n = 3 => Len(launchChain') = L + 1)
  BY <1>w, <1>c, <1>n, <1>l
<1>4. \A k \in Launches : launchIssued[k] # NoLaunch => launchIssued[k].head <= Len(launchChain')
  BY <1>h, <1>3, <1>l
<1>5. ASSUME NEW k \in Launches, launchRecorded'[k] # <<>>
      PROVE  /\ \E i \in DOMAIN launchChain' : launchChain'[i].event = "reserved"
             /\ \A m \in Launches \ {k} :
                   /\ launchRecorded'[m] = <<>>
                   /\ launchIssued[m] # NoLaunch => launchIssued[m].head < Len(launchChain')
  <2>1. CASE n < 3
    BY <1>5, <1>w, <2>1 DEF OneReserved, Recorded
  <2>2. CASE n = 3 /\ launchRecorded[k] # <<>>
    <3>1. k = l
      BY <1>0, <2>2
    <3>2. PICK i \in 1 .. L : launchChain[i].event = "reserved"
      BY <1>c, <2>2 DEF OneReserved, Recorded
    <3>3. i \in DOMAIN launchChain' /\ launchChain'[i].event = "reserved"
      BY <1>w, <1>c, <1>l, <2>2, <3>2
    <3>4. ASSUME NEW m \in Launches \ {k}
          PROVE  /\ launchRecorded'[m] = <<>>
                 /\ launchIssued[m] # NoLaunch => launchIssued[m].head < Len(launchChain')
      <4>1. launchRecorded'[m] = <<>>
        BY <1>0, <1>w, <2>2, <3>1
      <4>2. launchIssued[m] # NoLaunch => launchIssued[m].head < Len(launchChain')
        BY <1>h, <1>3, <1>l, <2>2
      <4> QED BY <4>1, <4>2
    <3> QED BY <3>3, <3>4
  <2>3. CASE n = 3 /\ launchRecorded[k] = <<>>
    <3>1. k = l
      BY <1>5, <1>w, <2>3
    <3>2. e = "reserved"
      BY <1>n, <2>3, <3>1 DEF Recorded
    <3>3. L + 1 \in DOMAIN launchChain' /\ launchChain'[L + 1].event = "reserved"
      BY <1>w, <1>c, <1>l, <2>3, <3>2 DEF ev
    <3>4. ASSUME NEW m \in Launches \ {k}
          PROVE  /\ launchRecorded'[m] = <<>>
                 /\ launchIssued[m] # NoLaunch => launchIssued[m].head < Len(launchChain')
      <4>1. launchRecorded'[m] = <<>>
        BY <1>0, <1>w, <2>3, <3>1
      <4>2. launchIssued[m] # NoLaunch => launchIssued[m].head < Len(launchChain')
        BY <1>h, <1>3, <1>l, <2>3
      <4> QED BY <4>1, <4>2
    <3> QED BY <3>3, <3>4
  <2> QED BY <1>n, <2>1, <2>2, <2>3
<1> QED BY <1>1, <1>2, <1>4, <1>5 DEF OneReserved, Recorded


(* What a publication leaves true, given where it leaves its runner.        *)
LEMMA PublishKeeps ==
    ASSUME LaunchInv, NEW r \in Runners, NEW l \in Launches, launchRun[r].launch = l,
           NEW e \in LaunchEvents, NEW n \in 0 .. 3, Written(l, e, n),
           NEW x \in Positions, x = RunnerAway \/ (x.launch = l /\ x.at # "away"),
           launchRun' = [launchRun EXCEPT ![r] = x],
           launchTorn' \in {launchTorn, launchTorn \cup {l}},
           launchIssued' = launchIssued, launchChief' = launchChief,
           launchDid' = launchDid, launchTurn' = launchTurn,
           n > 0 => Truth(l, e),
           n = 3 => Shaped(Append(Recorded(l), e)),
           n > 0 /\ Recorded(l) = <<>>
              => e = "reserved" /\ launchIssued[l].head = Len(launchChain),
           Placed(r)'
    PROVE  LaunchInv'
<1>i. /\ LaunchTyped /\ RunnersApart /\ OneReserved /\ ObjectsTrue /\ DoneOnRecord
      /\ \A q \in Runners : Placed(q)
  BY DEF LaunchInv
<1>t. launchRecorded \in [Launches -> Seq(LaunchEvents)]
  BY <1>i DEF LaunchTyped
<1>l. launchRecorded[l] \in Seq(LaunchEvents)
  BY <1>t
<1>w. /\ \A m \in Launches \ {l} :
            /\ launchObjects'[m] = launchObjects[m]
            /\ launchRecorded'[m] = launchRecorded[m]
      /\ n < 1 => launchObjects' = launchObjects
      /\ n >= 1 => launchObjects'[l] = launchObjects[l]
                      \cup {<<Len(launchRecorded[l]) + 1, e>>}
      /\ n < 3 => launchChain' = launchChain /\ launchRecorded' = launchRecorded
      /\ n = 3 => launchRecorded'[l] = Append(launchRecorded[l], e)
      /\ launchObjects' \in [Launches -> SUBSET (Nat \X LaunchEvents)]
      /\ launchRecorded' \in [Launches -> Seq(LaunchEvents)]
      /\ launchBound' \in SUBSET Bindings
      /\ launchChain' \in Seq([launch : Launches \cup {NoLaunch},
                               event : LaunchEvents \cup {"other"}])
      /\ \A m \in Launches : IsFiniteSet(launchObjects'[m])
  <2>1. LaunchTyped
    BY DEF LaunchInv
  <2>2. /\ \A m \in Launches \ {l} :
               /\ launchObjects'[m] = launchObjects[m]
               /\ launchRecorded'[m] = launchRecorded[m]
        /\ n < 1 => launchObjects' = launchObjects
        /\ n >= 1 => launchObjects'[l] = launchObjects[l]
                        \cup {<<Len(launchRecorded[l]) + 1, e>>}
    BY <2>1, WrittenParts
  <2>3. /\ n < 3 => launchChain' = launchChain /\ launchRecorded' = launchRecorded
        /\ n = 3 => launchRecorded'[l] = Append(launchRecorded[l], e)
    BY <2>1, WrittenParts
  <2>4. /\ launchObjects' \in [Launches -> SUBSET (Nat \X LaunchEvents)]
        /\ launchRecorded' \in [Launches -> Seq(LaunchEvents)]
        /\ launchBound' \in SUBSET Bindings
    BY <2>1, WrittenParts
  <2>5. /\ launchChain' \in Seq([launch : Launches \cup {NoLaunch},
                                 event : LaunchEvents \cup {"other"}])
        /\ \A m \in Launches : IsFiniteSet(launchObjects'[m])
    BY <2>1, WrittenParts
  <2> QED BY <2>2, <2>3, <2>4, <2>5
<1>n. n \in Nat /\ (n < 3 \/ n = 3) /\ (n < 1 \/ n >= 1) /\ (n >= 1 => n > 0) /\ (n < 3 => n # 3)
      /\ (n = 3 => n >= 1)
  OBVIOUS
<1>m. /\ launchRun' \in [Runners -> Positions]
      /\ \A q \in Runners \ {r} : launchRun'[q] = launchRun[q] /\ launchRun[q].launch # l
      /\ RunnersApart' /\ launchIssued[l] # NoLaunch
  BY ZenonT(40), <1>i, MoveKeepsApart
<1>1. LaunchTyped'
  <2>1. /\ launchIssued \in [Launches -> Markers \cup {NoLaunch}]
        /\ launchChief \in [epoch : Nat, live : BOOLEAN]
        /\ launchDid \in [Launches -> [Boundaries -> Nat]]
        /\ launchTurn \in [Launches -> {"none", "running", "rejected", "rerouted",
                                        "completed", "failed", "interrupted"}]
        /\ launchTorn \in SUBSET Launches
    BY <1>i DEF LaunchTyped
  <2>2. launchTorn' \in SUBSET Launches
    BY <2>1
  <2> QED BY <1>w, <1>m, <2>1, <2>2 DEF LaunchTyped
<1>2. OneReserved'
  BY <1>i, <1>m, PublishOneReserved
<1>3. ObjectsTrue'
  <2> SUFFICES ASSUME NEW k \in Launches
               PROVE  /\ ObjectsOf(launchRecorded'[k]) \subseteq launchObjects'[k]
                      /\ \A o \in launchObjects'[k] : Truth(k, o[2])'
                      /\ Shaped(launchRecorded'[k])
    BY DEF ObjectsTrue, Recorded
  <2>1. /\ ObjectsOf(launchRecorded[k]) \subseteq launchObjects[k]
        /\ \A o \in launchObjects[k] : Truth(k, o[2])
        /\ Shaped(launchRecorded[k])
    BY <1>i DEF ObjectsTrue, Recorded
  <2>2. \A y : Truth(k, y) => Truth(k, y)'
    BY DEF Truth
  <2>3. CASE k # l
    <3>1. launchObjects'[k] = launchObjects[k] /\ launchRecorded'[k] = launchRecorded[k]
      BY <1>w, <2>3
    <3> QED BY <2>1, <2>2, <3>1
  <2>4. CASE k = l /\ n < 1
    <3>1. launchObjects'[k] = launchObjects[k] /\ launchRecorded'[k] = launchRecorded[k]
      BY <1>w, <1>n, <2>4
    <3> QED BY <2>1, <2>2, <3>1
  <2>5. CASE k = l /\ n >= 1
    <3> DEFINE p == <<Len(launchRecorded[l]) + 1, e>>
    <3>1. launchObjects'[k] = launchObjects[k] \cup {p}
      BY <1>w, <2>5
    <3>2. p[2] = e
      OBVIOUS
    <3> HIDE DEF p
    <3>3. Truth(k, p[2])
      BY <1>n, <2>5, <3>2
    <3>4. \A o \in launchObjects'[k] : Truth(k, o[2])'
      BY <2>1, <2>2, <3>1, <3>3
    <3>5. CASE n < 3
      <4>1. launchRecorded'[k] = launchRecorded[k]
        BY <1>w, <3>5
      <4> QED BY <2>1, <3>1, <3>4, <4>1
    <3>6. CASE n = 3
      <4>1. launchRecorded'[k] = Append(launchRecorded[l], e)
        BY <1>w, <2>5, <3>6
      <4>2. ObjectsOf(Append(launchRecorded[l], e)) = ObjectsOf(launchRecorded[l]) \cup {p}
        BY <1>l, ObjectsGrow DEF p
      <4>3. Shaped(Append(launchRecorded[l], e))
        BY <3>6 DEF Recorded
      <4> QED BY <2>1, <2>5, <3>1, <3>4, <4>1, <4>2, <4>3
    <3> QED BY <1>n, <3>5, <3>6
  <2> QED BY <1>n, <2>3, <2>4, <2>5
<1>4. DoneOnRecord'
  <2> SUFFICES ASSUME NEW k \in Launches
               PROVE  /\ \A i \in Boundaries : launchDid[k][i] > 0 =>
                            /\ launchDid[k][i] = 1
                            /\ Len(launchRecorded'[k]) >= 2 * i
                            /\ launchRecorded'[k][2 * i] = LaunchSteps[2 * i]
                      /\ launchTurn[k] # "none" => Len(launchRecorded'[k]) >= 8
    BY DEF DoneOnRecord, Recorded
  <2>1. /\ \A i \in Boundaries : launchDid[k][i] > 0 =>
              /\ launchDid[k][i] = 1
              /\ Len(launchRecorded[k]) >= 2 * i
              /\ launchRecorded[k][2 * i] = LaunchSteps[2 * i]
        /\ launchTurn[k] # "none" => Len(launchRecorded[k]) >= 8
    BY <1>i DEF DoneOnRecord, Recorded
  <2>2. CASE n < 3 \/ k # l
    <3>1. launchRecorded'[k] = launchRecorded[k]
      BY <1>w, <2>2
    <3> QED BY <2>1, <3>1
  <2>3. CASE n = 3 /\ k = l
    <3>1. launchRecorded'[k] = Append(launchRecorded[k], e)
      BY <1>w, <2>3
    <3>2. /\ Len(launchRecorded[k]) \in Nat
          /\ Len(launchRecorded'[k]) = Len(launchRecorded[k]) + 1
          /\ \A i \in 1 .. Len(launchRecorded[k]) :
                launchRecorded'[k][i] = launchRecorded[k][i]
      BY <1>l, <2>3, <3>1, JournalParts
    <3>3. \A i \in Boundaries : 2 * i \in Nat /\ 2 * i >= 1
      BY DEF Boundaries
    <3>4. \A i \in Boundaries : Len(launchRecorded[k]) >= 2 * i =>
             2 * i \in 1 .. Len(launchRecorded[k]) /\ Len(launchRecorded'[k]) >= 2 * i
      BY <3>2, <3>3
    <3>5. Len(launchRecorded[k]) >= 8 => Len(launchRecorded'[k]) >= 8
      BY <3>2
    <3> QED BY <2>1, <3>2, <3>4, <3>5
  <2> QED BY <1>n, <2>2, <2>3
<1>5. \A q \in Runners : Placed(q)'
  <2> SUFFICES ASSUME NEW q \in Runners PROVE Placed(q)'
    OBVIOUS
  <2>1. CASE q = r
    BY <2>1
  <2>2. CASE q # r
    <3>1. launchRun'[q] = launchRun[q] /\ launchRun[q].launch # l /\ Placed(q)
      BY <1>i, <1>m, <2>2
    <3>2. \A m \in Launches \ {l} :
              /\ launchRecorded'[m] = launchRecorded[m] /\ launchObjects'[m] = launchObjects[m]
              /\ launchDid'[m] = launchDid[m] /\ launchTurn'[m] = launchTurn[m]
      BY <1>w
    <3> QED BY <1>i, <3>1, <3>2, OthersPlaced
  <2> QED BY <2>1, <2>2
<1> QED BY <1>1, <1>2, <1>3, <1>4, <1>5, <1>m DEF LaunchInv


-----------------------------------------------------------------------------
(* Pending bindings *)

LEMMA PendingSame ==
    ASSUME launchChain' = launchChain, launchBound' = launchBound
    PROVE  PendingBindings' = PendingBindings /\ (Overtaken' <=> Overtaken)
BY DEF PendingBindings, Overtaken

LEMMA PendingMore ==
    ASSUME launchChain' = launchChain, NEW b0, launchBound' = launchBound \cup {b0},
           b0.head = Len(launchChain), Len(launchChain) \in Nat
    PROVE  /\ PendingBindings' = PendingBindings \cup {b0}
           /\ ~Overtaken' => ~Overtaken
<1>1. ~(b0.head < Len(launchChain))
  BY DEF PendingBindings
<1>2. PendingBindings' = PendingBindings \cup {b0}
  BY <1>1 DEF PendingBindings
<1>3. ~Overtaken' => ~Overtaken
  BY <1>2 DEF Overtaken
<1> QED BY <1>2, <1>3

(* Whatever is appended, what is still pending afterwards is overtaken.     *)
LEMMA PendingPassed ==
    ASSUME LaunchTyped, BoundBefore, NEW c, launchChain' = Append(launchChain, c),
           c \in [launch : Launches \cup {NoLaunch}, event : LaunchEvents \cup {"other"}],
           launchBound \subseteq launchBound', launchBound' \in SUBSET Bindings,
           \A b \in launchBound' : b.head <= Len(launchChain)
    PROVE  /\ ~Overtaken' => PendingBindings' = {}
           /\ ~Overtaken' => ~Overtaken
           /\ BoundBefore'
<1> DEFINE L == Len(launchChain)
<1>1. launchChain \in Seq([launch : Launches \cup {NoLaunch}, event : LaunchEvents \cup {"other"}])
      /\ L \in Nat
  BY DEF LaunchTyped
<1>2. Len(launchChain') = L + 1 /\ \A i \in 1 .. L : launchChain'[i] = launchChain[i]
  BY <1>1
<1>3. \A b \in launchBound' : b.head \in Nat /\ b.head <= L
  BY DEF Bindings
<1>4. \A b \in launchBound' : b.head # L + 1 /\ b.head <= L + 1
  BY <1>1, <1>3
<1>5. ~Overtaken' => PendingBindings' = {}
  BY <1>2, <1>4 DEF Overtaken, PendingBindings
<1>6. ASSUME Overtaken PROVE Overtaken'
  <2>1. PICK b \in PendingBindings : b.head # L
    BY <1>6 DEF Overtaken
  <2>2. b \in launchBound /\ b \in launchBound'
    BY <2>1 DEF PendingBindings
  <2>3. b.head \in Nat /\ b.head < L
    BY <1>1, <1>3, <2>1, <2>2
  <2>4. launchChain[b.head + 1] # [launch |-> b.launch, event |-> b.event]
    BY <2>1, <2>3 DEF PendingBindings
  <2>5. b.head + 1 \in 1 .. L
    BY <1>1, <2>3
  <2>6. launchChain'[b.head + 1] = launchChain[b.head + 1]
    BY <1>2, <2>5
  <2>7. b \in PendingBindings'
    BY <2>2, <2>4, <2>6 DEF PendingBindings
  <2> QED BY <1>2, <1>4, <2>2, <2>7 DEF Overtaken
<1>7. BoundBefore'
  BY <1>2, <1>4 DEF BoundBefore
<1> QED BY <1>5, <1>6, <1>7

-----------------------------------------------------------------------------
(* What a publication leaves to recover *)

LEMMA UnrecordedParts ==
    ASSUME LaunchTyped, NEW l \in Launches, NEW e \in LaunchEvents, NEW n \in 0 .. 3,
           Written(l, e, n)
    PROVE  /\ \A m \in Launches \ {l} : Unrecorded(m)' = Unrecorded(m)
           /\ n < 1 => Unrecorded(l)' = Unrecorded(l)
           /\ n \in 1 .. 2 => Unrecorded(l)' = Unrecorded(l)
                                 \cup {<<Len(launchRecorded[l]) + 1, e>>}
           /\ n = 3 => Unrecorded(l)' = Unrecorded(l)
                                 \ {<<Len(launchRecorded[l]) + 1, e>>}
<1> DEFINE p == <<Len(launchRecorded[l]) + 1, e>>
<1>1. /\ \A m \in Launches \ {l} :
            /\ launchObjects'[m] = launchObjects[m]
            /\ launchRecorded'[m] = launchRecorded[m]
      /\ n < 1 => launchObjects' = launchObjects
      /\ n >= 1 => launchObjects'[l] = launchObjects[l] \cup {p}
  BY WrittenParts
<1>2. /\ n < 3 => launchRecorded' = launchRecorded
      /\ n = 3 => launchRecorded'[l] = Append(launchRecorded[l], e)
  <2>1. /\ n < 3 => launchChain' = launchChain /\ launchRecorded' = launchRecorded
        /\ n = 3 => /\ launchChain' = Append(launchChain, [launch |-> l, event |-> e])
                    /\ launchRecorded'[l] = Append(launchRecorded[l], e)
    BY WrittenParts
  <2> QED BY <2>1
<1>3. launchRecorded[l] \in Seq(LaunchEvents)
  BY DEF LaunchTyped
<1>4. /\ ObjectsOf(Append(launchRecorded[l], e)) = ObjectsOf(launchRecorded[l]) \cup {p}
      /\ p \notin ObjectsOf(launchRecorded[l])
  BY <1>3, ObjectsGrow
<1> HIDE DEF p
<1>5. (n < 1 => n < 3) /\ (n \in 1 .. 2 => n >= 1 /\ n < 3) /\ (n = 3 => n >= 1)
  OBVIOUS
<1>6. \A m \in Launches \ {l} : Unrecorded(m)' = Unrecorded(m)
  BY <1>1 DEF Unrecorded, Recorded
<1>7. n < 1 => Unrecorded(l)' = Unrecorded(l)
  BY <1>1, <1>2, <1>5 DEF Unrecorded, Recorded
<1>8. n \in 1 .. 2 => Unrecorded(l)' = Unrecorded(l) \cup {p}
  <2> SUFFICES ASSUME n \in 1 .. 2 PROVE Unrecorded(l)' = Unrecorded(l) \cup {p}
    OBVIOUS
  <2>1. launchObjects'[l] = launchObjects[l] \cup {p} /\ launchRecorded'[l] = launchRecorded[l]
    BY <1>1, <1>2, <1>5
  <2> QED BY <1>4, <2>1 DEF Unrecorded, Recorded
<1>9. n = 3 => Unrecorded(l)' = Unrecorded(l) \ {p}
  <2> SUFFICES ASSUME n = 3 PROVE Unrecorded(l)' = Unrecorded(l) \ {p}
    OBVIOUS
  <2>1. launchObjects'[l] = launchObjects[l] \cup {p}
        /\ launchRecorded'[l] = Append(launchRecorded[l], e)
    BY <1>1, <1>2, <1>5
  <2> QED BY <1>4, <2>1 DEF Unrecorded, Recorded
<1> QED BY <1>6, <1>7, <1>8, <1>9 DEF p

LEMMA PublishRecovers ==
    ASSUME LaunchTyped, RunnersApart, OneReserved, RecoveryInv,
           NEW r \in Runners, NEW l \in Launches, launchRun[r].launch = l,
           NEW e \in LaunchEvents, NEW n \in 0 .. 3, Written(l, e, n),
           NEW x \in Positions, x = RunnerAway \/ (x.launch = l /\ x.at # "away"),
           launchRun' = [launchRun EXCEPT ![r] = x],
           launchTorn' \in {launchTorn, launchTorn \cup {l}},
           launchIssued' = launchIssued,
           n > 0 /\ Recorded(l) = <<>>
              => e = "reserved" /\ launchIssued[l].head = Len(launchChain),
           n > 0 => NextObject(l, <<Len(Recorded(l)) + 1, e>>),
           n > 0 /\ Undisturbed
              => \A o \in Unrecorded(l) : o = <<Len(Recorded(l)) + 1, e>>,
           n >= 2 => BindingsSound /\ \A b \in PendingBindings :
                                         b.launch = l /\ b.place = Len(Recorded(l)) + 1,
           \/ x.at \in {"away", "load"} \/ n = 3 \/ (n \in 1 .. 2 /\ l \in launchTorn')
           \/ n = 0 /\ launchRun[r].at \notin {"away", "load"}
    PROVE  RecoveryInv'
<1> DEFINE place == Len(launchRecorded[l]) + 1
           p == <<place, e>>
           bound == [head |-> Len(launchChain), place |-> place, launch |-> l, event |-> e]
           ev == [launch |-> l, event |-> e]
<1>t. /\ launchRecorded \in [Launches -> Seq(LaunchEvents)]
      /\ launchChain \in Seq([launch : Launches \cup {NoLaunch}, event : LaunchEvents \cup {"other"}])
      /\ launchBound \in SUBSET Bindings
      /\ launchObjects \in [Launches -> SUBSET (Nat \X LaunchEvents)]
  BY DEF LaunchTyped
<1>l. launchRecorded[l] \in Seq(LaunchEvents) /\ Len(launchRecorded[l]) \in Nat
      /\ Len(launchChain) \in Nat
  BY <1>t
<1>i. /\ BoundToObjects /\ BoundBefore
      /\ Undisturbed => OneUnrecorded /\ PendingFirst /\ NothingLeft
  BY DEF RecoveryInv
<1>w1. /\ \A m \in Launches \ {l} :
            /\ launchObjects'[m] = launchObjects[m]
            /\ launchRecorded'[m] = launchRecorded[m]
       /\ n < 1 => launchObjects' = launchObjects
       /\ n >= 1 => launchObjects'[l] = launchObjects[l] \cup {p}
  BY WrittenParts
<1>w2. /\ n < 2 => launchBound' = launchBound
       /\ n >= 2 => launchBound' = launchBound \cup {bound}
  BY WrittenParts
<1>w3. /\ n < 3 => launchChain' = launchChain /\ launchRecorded' = launchRecorded
       /\ n = 3 => launchChain' = Append(launchChain, ev)
  BY WrittenParts
<1>w4. launchBound' \in SUBSET Bindings
  BY WrittenParts
<1>u. /\ \A m \in Launches \ {l} : Unrecorded(m)' = Unrecorded(m)
      /\ n < 1 => Unrecorded(l)' = Unrecorded(l)
      /\ n \in 1 .. 2 => Unrecorded(l)' = Unrecorded(l) \cup {p}
      /\ n = 3 => Unrecorded(l)' = Unrecorded(l) \ {p}
  BY UnrecordedParts
<1>m. /\ launchRun' \in [Runners -> Positions] /\ launchRun'[r] = x
      /\ \A q \in Runners \ {r} : launchRun'[q] = launchRun[q] /\ launchRun[q].launch # l
      /\ RunnersApart' /\ launchIssued[l] # NoLaunch
  BY ZenonT(40), MoveKeepsApart
<1>n. /\ n \in Nat /\ (n = 0 \/ n = 1 \/ n = 2 \/ n = 3)
      /\ (n < 1 \/ n >= 1) /\ (n < 2 \/ n >= 2) /\ (n >= 2 => n >= 1) /\ (n >= 1 => n > 0)
  OBVIOUS
<1>e. ev \in [launch : Launches \cup {NoLaunch}, event : LaunchEvents \cup {"other"}]
  OBVIOUS
<1>h1. bound.head = Len(launchChain) /\ bound.place = place /\ bound.launch = l /\ bound.event = e
  OBVIOUS
<1>h2. p[1] = place /\ p[2] = e /\ p = <<place, e>>
  OBVIOUS
<1>a. n > 0 => \A m \in Launches \ {l} : launchRecorded[m] = <<>>
  BY <1>m, Alone DEF Recorded
<1>r. Recorded(l) = launchRecorded[l] /\ \A m : Recorded(m) = launchRecorded[m]
  BY DEF Recorded
<1>p. n > 0 => NextObject(l, p)
  BY <1>r
<1>q. n > 0 /\ Undisturbed => \A o \in Unrecorded(l) : o = p
  BY <1>r
<1>s. n >= 2 => /\ ~Overtaken
                /\ \A b \in PendingBindings : b.launch = l /\ b.place = place
  BY <1>r DEF BindingsSound
<1>bb. bound \in Bindings
  BY <1>l DEF Bindings
<1> HIDE DEF place, p, bound, ev
<1>1. BoundToObjects'
  <2> SUFFICES ASSUME NEW b \in launchBound'
               PROVE  <<b.place, b.event>> \in launchObjects'[b.launch]
    BY DEF BoundToObjects
  <2>0. ASSUME NEW m \in Launches, NEW o \in launchObjects[m] PROVE o \in launchObjects'[m]
    BY <2>0, <1>w1, <1>n
  <2>1. CASE b \in launchBound
    <3>1. b.launch \in Launches
      BY <1>t, <2>1 DEF Bindings
    <3> QED BY <1>i, <2>0, <2>1, <3>1 DEF BoundToObjects
  <2>2. CASE b \notin launchBound
    <3>1. n >= 2 /\ b = bound
      BY <1>w2, <1>n, <2>2
    <3>2. p \in launchObjects'[l]
      BY <1>w1, <1>n, <3>1
    <3> QED BY <1>h1, <1>h2, <3>1, <3>2
  <2> QED BY <2>1, <2>2
<1>2. \A b \in launchBound' : b.head <= Len(launchChain)
  BY <1>i, <1>w2, <1>h1, <1>n, <1>l DEF BoundBefore
<1>3. /\ BoundBefore'
      /\ ~Overtaken' => ~Overtaken
      /\ n = 3 => (~Overtaken' => PendingBindings' = {})
      /\ n < 2 => PendingBindings' = PendingBindings
      /\ n = 2 => PendingBindings' = PendingBindings \cup {bound}
  <2>1. CASE n < 2
    <3>1. launchChain' = launchChain /\ launchBound' = launchBound
      BY <1>w2, <1>w3, <2>1
    <3>2. PendingBindings' = PendingBindings /\ (Overtaken' <=> Overtaken)
      BY <3>1, PendingSame
    <3>3. BoundBefore'
      BY <1>2, <3>1 DEF BoundBefore
    <3> QED BY <2>1, <3>2, <3>3
  <2>2. CASE n = 2
    <3>1. launchChain' = launchChain /\ launchBound' = launchBound \cup {bound}
      BY <1>w2, <1>w3, <2>2
    <3>2. PendingBindings' = PendingBindings \cup {bound} /\ (~Overtaken' => ~Overtaken)
      BY <1>l, <1>h1, <3>1, PendingMore
    <3>3. BoundBefore'
      BY <1>2, <3>1 DEF BoundBefore
    <3> QED BY <2>2, <3>2, <3>3
  <2>3. CASE n = 3
    <3>1. launchChain' = Append(launchChain, ev) /\ launchBound \subseteq launchBound'
      BY <1>w2, <1>w3, <2>3
    <3>2. (~Overtaken' => PendingBindings' = {}) /\ (~Overtaken' => ~Overtaken) /\ BoundBefore'
      BY <1>i, <1>e, <1>w4, <1>2, <3>1, PendingPassed
    <3> QED BY <2>3, <3>2
  <2> QED BY <1>n, <2>1, <2>2, <2>3
<1>4. ASSUME Undisturbed' PROVE Undisturbed
  <2>1. launchTorn = {}
    BY <1>4 DEF Undisturbed
  <2> QED BY <1>3, <1>4, <2>1 DEF Undisturbed
<1>5. ASSUME Undisturbed' PROVE OneUnrecorded'
  <2> SUFFICES ASSUME NEW m \in Launches
               PROVE  /\ \A o \in Unrecorded(m)' : NextObject(m, o)'
                      /\ \A o, oo \in Unrecorded(m)' : o = oo
    BY DEF OneUnrecorded
  <2>1. /\ \A o \in Unrecorded(m) : NextObject(m, o)
        /\ \A o, oo \in Unrecorded(m) : o = oo
    BY <1>4, <1>5, <1>i DEF OneUnrecorded
  <2>2. launchRecorded'[m] = launchRecorded[m] => \A o : NextObject(m, o) => NextObject(m, o)'
    BY DEF NextObject, Recorded
  <2>3. CASE m # l \/ n < 1
    <3>1. Unrecorded(m)' = Unrecorded(m) /\ launchRecorded'[m] = launchRecorded[m]
      BY <1>u, <1>w1, <1>w3, <1>n, <2>3
    <3> QED BY <2>1, <2>2, <3>1
  <2>4. CASE m = l /\ n \in 1 .. 2
    <3>1. Unrecorded(m)' = Unrecorded(m) \cup {p} /\ launchRecorded'[m] = launchRecorded[m]
      BY <1>u, <1>w3, <1>n, <2>4
    <3>2. n > 0
      BY <2>4
    <3>3. NextObject(m, p) /\ \A o \in Unrecorded(m) : o = p
      BY <1>p, <1>q, <1>4, <1>5, <2>4, <3>2
    <3> QED BY <2>1, <2>2, <3>1, <3>3
  <2>5. CASE m = l /\ n = 3
    <3>1. n > 0
      BY <2>5
    <3>2. Unrecorded(m)' = {}
      BY <1>u, <1>q, <1>4, <1>5, <2>5, <3>1
    <3> QED BY <3>2
  <2> QED BY <1>n, <2>3, <2>4, <2>5
<1>6. ASSUME Undisturbed' PROVE PendingFirst'
  <2>0. PendingFirst /\ OneUnrecorded
    BY <1>4, <1>6, <1>i
  <2>1. CASE n < 2
    <3>1. PendingBindings' = PendingBindings /\ launchRecorded' = launchRecorded
      BY <1>3, <1>w3, <1>n, <2>1
    <3> QED BY <2>0, <3>1 DEF PendingFirst, Recorded
  <2>2. CASE n = 3
    <3>1. PendingBindings' = {}
      BY <1>3, <1>6, <2>2 DEF Undisturbed
    <3> QED BY <3>1 DEF PendingFirst
  <2>3. CASE n = 2
    <3>0. n > 0 /\ n >= 2 /\ n < 3
      BY <2>3
    <3>1. PendingBindings' = PendingBindings \cup {bound} /\ launchRecorded' = launchRecorded
      BY <1>3, <1>w3, <2>3, <3>0
    <3>2. ASSUME NEW b \in PendingBindings PROVE b = bound
      <4>1. b \in launchBound /\ b \in Bindings
        BY <1>t DEF PendingBindings
      <4>2. b.launch = l /\ b.place = place /\ b.head = Len(launchChain)
        BY <1>s, <3>0 DEF Overtaken
      <4>3. <<place, b.event>> \in launchObjects[l]
        BY <1>i, <4>1, <4>2 DEF BoundToObjects
      <4>4. <<place, b.event>> \notin ObjectsOf(launchRecorded[l])
        BY <1>l, ObjectsGrow DEF place
      <4>5. <<place, b.event>> \in Unrecorded(l)
        BY <4>3, <4>4 DEF Unrecorded, Recorded
      <4>6. <<place, b.event>> = p
        BY <1>q, <1>4, <1>6, <3>0, <4>5
      <4>7. b.event = e
        BY <4>6 DEF p
      <4> QED BY <4>1, <4>2, <4>7 DEF bound, Bindings
    <3>3. \A b \in PendingBindings' : b = bound
      BY <3>1, <3>2
    <3>4. \A m \in Launches : launchRecorded[m] # <<>> => l = m
      BY <1>a, <3>0
    <3>5. bound.place = Len(launchRecorded'[bound.launch]) + 1
      BY <1>h1, <3>1 DEF place
    <3> QED BY <1>h1, <3>1, <3>3, <3>4, <3>5 DEF PendingFirst, Recorded
  <2> QED BY <1>n, <2>1, <2>2, <2>3
<1>7. ASSUME Undisturbed' PROVE NothingLeft'
  <2> SUFFICES ASSUME NEW q \in Runners, launchRun'[q].at \notin {"away", "load"},
                      NEW m, m = launchRun'[q].launch
               PROVE  Unrecorded(m)' = {}
    BY DEF NothingLeft, Unrecorded, Recorded
  <2>0. NothingLeft
    BY <1>4, <1>7, <1>i
  <2>1. CASE q # r
    <3>1. launchRun'[q] = launchRun[q] /\ launchRun[q].launch # l
      BY <1>m, <2>1
    <3>2. launchRun[q].launch \in Launches \ {l}
      BY <3>1 DEF LaunchTyped, Positions, RunnersApart
    <3>3. Unrecorded(launchRun[q].launch) = {}
      BY <2>0, <3>1 DEF NothingLeft
    <3>4. \A k \in Launches \ {l} : Unrecorded(k) = {} => Unrecorded(k)' = {}
      BY <1>u
    <3> QED BY <3>1, <3>2, <3>3, <3>4
  <2>2. CASE q = r
    <3>1. x.at \notin {"away", "load"} /\ x.launch = l
      BY <1>m, <2>2 DEF RunnerAway
    <3>2. CASE n = 3
      <4>1. n > 0
        BY <3>2
      <4>2. Unrecorded(l)' = {}
        BY <1>u, <1>q, <1>4, <1>7, <3>2, <4>1
      <4> QED BY <1>m, <2>2, <3>1, <4>2
    <3>3. CASE l \in launchTorn'
      BY <1>7, <3>3 DEF Undisturbed
    <3>4. CASE n = 0 /\ launchRun[r].at \notin {"away", "load"}
      <4>1. n < 1
        BY <3>4
      <4>2. Unrecorded(l) = {}
        BY <2>0, <3>4 DEF NothingLeft
      <4>3. Unrecorded(l)' = {}
        BY <1>u, <4>1, <4>2
      <4> QED BY <1>m, <2>2, <3>1, <4>3
    <3> QED BY <3>1, <3>2, <3>3, <3>4
  <2> QED BY <2>1, <2>2
<1> QED BY <1>1, <1>3, <1>5, <1>6, <1>7 DEF RecoveryInv


-----------------------------------------------------------------------------
(* The whole invariant, step by step *)

TransportInv == LaunchInv /\ RecoveryInv

TurnStates == {"none", "running", "rejected", "rerouted", "completed", "failed", "interrupted"}

(* A step that writes nothing to the task.                                  *)
LEMMA QuietKeeps ==
    ASSUME TransportInv, NEW r \in Runners, NEW l \in Launches, launchRun[r].launch = l,
           NEW x \in Positions, x = RunnerAway \/ (x.launch = l /\ x.at # "away"),
           launchRun' = [launchRun EXCEPT ![r] = x],
           launchChain' = launchChain, launchRecorded' = launchRecorded,
           launchObjects' = launchObjects, launchBound' = launchBound,
           launchIssued' = launchIssued, launchChief' = launchChief, launchTorn' = launchTorn,
           launchDid' \in [Launches -> [Boundaries -> Nat]],
           launchTurn' \in [Launches -> TurnStates],
           \A m \in Launches \ {l} : launchDid'[m] = launchDid[m] /\ launchTurn'[m] = launchTurn[m],
           \A o \in launchObjects[l] : Truth(l, o[2])',
           \A i \in Boundaries : launchDid'[l][i] > 0 =>
              /\ launchDid'[l][i] = 1
              /\ Len(launchRecorded[l]) >= 2 * i /\ launchRecorded[l][2 * i] = LaunchSteps[2 * i],
           launchTurn'[l] # "none" => Len(launchRecorded[l]) >= 8,
           \/ x.at \in {"away", "load"}
           \/ Fits(x, launchRecorded[l], launchObjects[l], launchDid'[l], launchTurn'[l]),
           \/ x.at \in {"away", "load"} \/ launchRun[r].at \notin {"away", "load"}
           \/ Unrecorded(l) = {}
    PROVE  TransportInv'
<1>i. /\ LaunchTyped /\ RunnersApart /\ OneReserved /\ ObjectsTrue /\ DoneOnRecord
      /\ \A q \in Runners : Placed(q)
  BY DEF TransportInv, LaunchInv
<1>v. /\ BoundToObjects /\ BoundBefore
      /\ Undisturbed => OneUnrecorded /\ PendingFirst /\ NothingLeft
  BY DEF TransportInv, RecoveryInv
<1>m. /\ launchRun' \in [Runners -> Positions] /\ launchRun'[r] = x
      /\ \A q \in Runners \ {r} : launchRun'[q] = launchRun[q] /\ launchRun[q].launch # l
      /\ RunnersApart' /\ launchIssued[l] # NoLaunch
  <2>1. LaunchTyped /\ RunnersApart
    BY <1>i
  <2> QED BY <2>1, MoveKeepsApart
<1>1. LaunchTyped'
  <2>1. LaunchTyped
    BY <1>i
  <2> QED BY <1>m, <2>1 DEF LaunchTyped, TurnStates
<1>2. OneReserved'
  BY <1>i DEF OneReserved, Recorded
<1>3. ObjectsTrue'
  <2> SUFFICES ASSUME NEW k \in Launches
               PROVE  /\ ObjectsOf(launchRecorded[k]) \subseteq launchObjects[k]
                      /\ \A o \in launchObjects[k] : Truth(k, o[2])'
                      /\ Shaped(launchRecorded[k])
    BY DEF ObjectsTrue, Recorded
  <2>1. /\ ObjectsOf(launchRecorded[k]) \subseteq launchObjects[k]
        /\ \A o \in launchObjects[k] : Truth(k, o[2])
        /\ Shaped(launchRecorded[k])
    BY <1>i DEF ObjectsTrue, Recorded
  <2>2. CASE k = l
    BY <2>1, <2>2
  <2>3. CASE k # l
    <3>1. launchTurn'[k] = launchTurn[k]
      BY <2>3
    <3>2. \A y : Truth(k, y) => Truth(k, y)'
      BY <3>1 DEF Truth
    <3> QED BY <2>1, <3>2
  <2> QED BY <2>2, <2>3
<1>4. DoneOnRecord'
  <2> SUFFICES ASSUME NEW k \in Launches
               PROVE  /\ \A i \in Boundaries : launchDid'[k][i] > 0 =>
                            /\ launchDid'[k][i] = 1
                            /\ Len(launchRecorded[k]) >= 2 * i
                            /\ launchRecorded[k][2 * i] = LaunchSteps[2 * i]
                      /\ launchTurn'[k] # "none" => Len(launchRecorded[k]) >= 8
    BY DEF DoneOnRecord, Recorded
  <2>1. CASE k = l
    BY <2>1
  <2>2. CASE k # l
    <3>1. launchDid'[k] = launchDid[k] /\ launchTurn'[k] = launchTurn[k]
      BY <2>2
    <3>2. DoneOnRecord
      BY <1>i
    <3> QED BY <3>1, <3>2 DEF DoneOnRecord, Recorded
  <2> QED BY <2>1, <2>2
<1>5. \A q \in Runners : Placed(q)'
  <2> SUFFICES ASSUME NEW q \in Runners PROVE Placed(q)'
    OBVIOUS
  <2>1. CASE q = r
    <3>1. CASE x.at \in {"away", "load"}
      BY <1>m, <2>1, <3>1 DEF Placed
    <3>2. CASE x.at \notin {"away", "load"}
      <4>1. x.launch = l
        BY <3>2 DEF RunnerAway
      <4>2. Fits(x, launchRecorded[l], launchObjects[l], launchDid'[l], launchTurn'[l])
        BY <3>2
      <4> QED BY <1>m, <2>1, <4>1, <4>2 DEF Placed, Recorded
    <3> QED BY <3>1, <3>2
  <2>2. CASE q # r
    <3>1. launchRun'[q] = launchRun[q] /\ launchRun[q].launch # l /\ Placed(q)
      BY <1>i, <1>m, <2>2
    <3>2. \A m \in Launches \ {l} :
              /\ launchRecorded'[m] = launchRecorded[m] /\ launchObjects'[m] = launchObjects[m]
              /\ launchDid'[m] = launchDid[m] /\ launchTurn'[m] = launchTurn[m]
      OBVIOUS
    <3>3. LaunchTyped /\ RunnersApart
      BY <1>i
    <3> QED BY <3>1, <3>2, <3>3, OthersPlaced
  <2> QED BY <2>1, <2>2
<1>6. LaunchInv'
  BY <1>1, <1>2, <1>3, <1>4, <1>5, <1>m DEF LaunchInv
<1>7. PendingBindings' = PendingBindings /\ (Overtaken' <=> Overtaken)
  BY PendingSame
<1>8. \A k : Unrecorded(k)' = Unrecorded(k)
  BY DEF Unrecorded, Recorded
<1>9. BoundToObjects' /\ BoundBefore'
  BY <1>v DEF BoundToObjects, BoundBefore
<1>10. ASSUME Undisturbed' PROVE OneUnrecorded' /\ PendingFirst' /\ NothingLeft'
  <2>1. Undisturbed
    BY <1>7, <1>10 DEF Undisturbed
  <2>2. OneUnrecorded /\ PendingFirst /\ NothingLeft
    BY <1>v, <2>1
  <2>3. OneUnrecorded'
    BY <2>2, <1>8 DEF OneUnrecorded, NextObject, Recorded
  <2>4. PendingFirst'
    BY <2>2, <1>7 DEF PendingFirst, Recorded
  <2>5. NothingLeft'
    <3> SUFFICES ASSUME NEW q \in Runners, launchRun'[q].at \notin {"away", "load"},
                        NEW m, m = launchRun'[q].launch
                 PROVE  Unrecorded(m)' = {}
      BY DEF NothingLeft, Unrecorded, Recorded
    <3>1. CASE q # r
      BY <1>m, <1>8, <2>2, <3>1 DEF NothingLeft
    <3>2. CASE q = r
      <4>1. m = l /\ (launchRun[r].at \notin {"away", "load"} \/ Unrecorded(l) = {})
        BY <1>m, <3>2 DEF RunnerAway
      <4>2. Unrecorded(l) = {}
        BY <2>2, <4>1 DEF NothingLeft
      <4> QED BY <1>8, <4>1, <4>2
    <3> QED BY <3>1, <3>2
  <2> QED BY <2>3, <2>4, <2>5
<1>11. RecoveryInv'
  BY <1>9, <1>10 DEF RecoveryInv
<1> QED BY <1>6, <1>11 DEF TransportInv

(* A move that changes only where the runner is.                            *)
LEMMA MoveKeeps ==
    ASSUME TransportInv, NEW r \in Runners, NEW l \in Launches, launchRun[r].launch = l,
           NEW x \in Positions, x = RunnerAway \/ (x.launch = l /\ x.at # "away"),
           Becomes(r, x), NothingWritten, Outside,
           \/ x.at \in {"away", "load"}
           \/ Fits(x, launchRecorded[l], launchObjects[l], launchDid[l], launchTurn[l]),
           \/ x.at \in {"away", "load"} \/ launchRun[r].at \notin {"away", "load"}
           \/ Unrecorded(l) = {}
    PROVE  TransportInv'
<1>1. /\ launchRun' = [launchRun EXCEPT ![r] = x]
      /\ launchChain' = launchChain /\ launchRecorded' = launchRecorded
      /\ launchObjects' = launchObjects /\ launchBound' = launchBound
      /\ launchIssued' = launchIssued /\ launchChief' = launchChief /\ launchTorn' = launchTorn
      /\ launchDid' = launchDid /\ launchTurn' = launchTurn
  BY DEF Becomes, NothingWritten, Outside, TaskChain
<1>2. /\ launchDid' \in [Launches -> [Boundaries -> Nat]]
      /\ launchTurn' \in [Launches -> TurnStates]
  BY <1>1 DEF TransportInv, LaunchInv, LaunchTyped, TurnStates
<1>3. \A o \in launchObjects[l] : Truth(l, o[2])'
  BY <1>1 DEF TransportInv, LaunchInv, ObjectsTrue, Truth
<1>4. /\ \A i \in Boundaries : launchDid'[l][i] > 0 =>
              /\ launchDid'[l][i] = 1
              /\ Len(launchRecorded[l]) >= 2 * i /\ launchRecorded[l][2 * i] = LaunchSteps[2 * i]
      /\ launchTurn'[l] # "none" => Len(launchRecorded[l]) >= 8
  BY <1>1 DEF TransportInv, LaunchInv, DoneOnRecord, Recorded
<1>5. \A m \in Launches \ {l} : launchDid'[m] = launchDid[m] /\ launchTurn'[m] = launchTurn[m]
  BY <1>1
<1>6. \/ x.at \in {"away", "load"}
      \/ Fits(x, launchRecorded[l], launchObjects[l], launchDid'[l], launchTurn'[l])
  BY <1>1
<1> QED BY <1>1, <1>2, <1>3, <1>4, <1>5, <1>6, QuietKeeps


(* A position of a runner that is at work, or none.                         *)
Held(x, rec, objs, did, turn) == x.at \in {"away", "load"} \/ Fits(x, rec, objs, did, turn)

LEMMA PublishStep ==
    ASSUME TransportInv, NEW r \in Runners, NEW l \in Launches, launchRun[r].launch = l,
           NEW j \in Seq(LaunchEvents), NEW e \in LaunchEvents,
           NEW good \in Positions, good = RunnerAway \/ (good.launch = l /\ good.at # "away"),
           NEW bad \in Positions, bad = RunnerAway \/ (bad.launch = l /\ bad.at = "fault"),
           Publishes(r, j, e, good, bad),
           launchRecorded[l] = j =>
              /\ Truth(l, e) /\ Shaped(Append(j, e))
              /\ j = <<>> => e = "reserved" /\ launchIssued[l].head = Len(launchChain)
              /\ NextObject(l, <<Len(j) + 1, e>>)
              /\ Undisturbed => \A o \in Unrecorded(l) : o = <<Len(j) + 1, e>>
              /\ Held(good, Append(j, e), launchObjects[l] \cup {<<Len(j) + 1, e>>},
                      launchDid[l], launchTurn[l])
              /\ Held(bad, j, launchObjects[l] \cup {<<Len(j) + 1, e>>},
                      launchDid[l], launchTurn[l])
              /\ Held(bad, Append(j, e), launchObjects[l] \cup {<<Len(j) + 1, e>>},
                      launchDid[l], launchTurn[l]),
           Held(bad, launchRecorded[l], launchObjects[l], launchDid[l], launchTurn[l]),
           bad = RunnerAway \/ launchRun[r].at \notin {"away", "load"}
    PROVE  TransportInv'
<1> DEFINE p == <<Len(j) + 1, e>>
<1>i. LaunchInv /\ RecoveryInv
  BY DEF TransportInv
<1>j. LaunchTyped /\ RunnersApart /\ OneReserved
  BY <1>i DEF LaunchInv
<1>aw. RunnerAway.at = "away" /\ RunnerAway.launch = NoLaunch
  BY DEF RunnerAway
<1>ra. RunnerAway \in Positions
  BY DEF RunnerAway, Positions, Stages, Causes
<1>0. bad = RunnerAway \/ bad.at = "fault"
  OBVIOUS
<1>1. PICK n \in 0 .. 3, x \in {good, bad, RunnerAway} :
             /\ Written(l, e, n)
             /\ launchRun' = [launchRun EXCEPT ![r] = x]
             /\ launchTorn' \in {launchTorn, launchTorn \cup {l}}
             /\ (x = good /\ n = 3) \/ x = RunnerAway \/ (x = bad /\ (n \in 1 .. 2 => l \in launchTorn'))
             /\ n > 0 => Recorded(l) = j
             /\ n >= 2 => BindingsSound /\ \A b \in PendingBindings :
                                              b.launch = l /\ b.place = Len(j) + 1
             /\ launchIssued' = launchIssued
             /\ launchChief' = launchChief
             /\ launchExpired' = launchExpired
             /\ launchDid' = launchDid
             /\ launchTurn' = launchTurn
  BY <1>j, <1>0, PublishParts
<1>n. /\ n \in Nat /\ (n < 1 \/ n \in 1 .. 2 \/ n = 3) /\ (n \in 1 .. 2 => n > 0 /\ n >= 1 /\ n < 3)
      /\ (n = 3 => n > 0 /\ n >= 1) /\ (n < 1 => n < 3 /\ n = 0) /\ (n >= 2 => n > 0)
  OBVIOUS
<1>w. Written(l, e, n)
  BY <1>1
<1>r. Recorded(l) = launchRecorded[l]
  BY DEF Recorded
<1>2. n > 0 => /\ launchRecorded[l] = j
               /\ Truth(l, e) /\ Shaped(Append(j, e))
               /\ j = <<>> => e = "reserved" /\ launchIssued[l].head = Len(launchChain)
               /\ NextObject(l, p)
               /\ Undisturbed => \A o \in Unrecorded(l) : o = p
  BY <1>1, <1>r
<1>3. x \in Positions /\ (x = RunnerAway \/ (x.launch = l /\ x.at # "away"))
  BY <1>1, <1>ra
<1>4. /\ n < 1 => launchObjects'[l] = launchObjects[l] /\ launchRecorded'[l] = launchRecorded[l]
      /\ n \in 1 .. 2 => launchObjects'[l] = launchObjects[l] \cup {p}
                         /\ launchRecorded'[l] = j
      /\ n = 3 => launchObjects'[l] = launchObjects[l] \cup {p}
                  /\ launchRecorded'[l] = Append(j, e)
  <2>1. /\ n < 1 => launchObjects' = launchObjects
        /\ n >= 1 => launchObjects'[l] = launchObjects[l]
                        \cup {<<Len(launchRecorded[l]) + 1, e>>}
    BY <1>j, <1>w, WrittenParts
  <2>2. /\ n < 3 => launchChain' = launchChain /\ launchRecorded' = launchRecorded
        /\ n = 3 => /\ launchChain' = Append(launchChain, [launch |-> l, event |-> e])
                    /\ launchRecorded'[l] = Append(launchRecorded[l], e)
    BY <1>j, <1>w, WrittenParts
  <2>3. CASE n < 1
    BY <2>1, <2>2, <2>3, <1>n
  <2>4. CASE n \in 1 .. 2
    BY <2>1, <2>2, <2>4, <1>n, <1>2
  <2>5. CASE n = 3
    BY <2>1, <2>2, <2>5, <1>n, <1>2
  <2> QED BY <1>n, <2>3, <2>4, <2>5
<1>h. /\ launchRecorded[l] = j => Held(good, Append(j, e), launchObjects[l] \cup {p},
                                        launchDid[l], launchTurn[l])
      /\ launchRecorded[l] = j => Held(bad, j, launchObjects[l] \cup {p},
                                        launchDid[l], launchTurn[l])
      /\ launchRecorded[l] = j => Held(bad, Append(j, e), launchObjects[l] \cup {p},
                                        launchDid[l], launchTurn[l])
      /\ Held(bad, launchRecorded[l], launchObjects[l], launchDid[l], launchTurn[l])
  OBVIOUS
<1> HIDE DEF p
<1>5. Held(x, launchRecorded'[l], launchObjects'[l], launchDid[l], launchTurn[l])
  <2>1. CASE x = RunnerAway
    BY <1>aw, <2>1 DEF Held
  <2>2. CASE x = good /\ n = 3
    BY <1>h, <1>2, <1>4, <1>n, <2>2
  <2>3. CASE x = bad
    <3>1. CASE n < 1
      BY <1>h, <1>4, <2>3, <3>1
    <3>2. CASE n \in 1 .. 2
      BY <1>h, <1>2, <1>4, <1>n, <2>3, <3>2
    <3>3. CASE n = 3
      BY <1>h, <1>2, <1>4, <1>n, <2>3, <3>3
    <3> QED BY <1>n, <3>1, <3>2, <3>3
  <2> QED BY <1>1, <2>1, <2>2, <2>3
<1>6. launchRun'[r] = x
  BY <1>1, <1>j DEF LaunchTyped
<1>7. Placed(r)'
  <2>1. CASE x.at \in {"away", "load"}
    BY <1>6, <2>1 DEF Placed
  <2>2. CASE x.at \notin {"away", "load"}
    <3>1. x.launch = l
      BY <1>3, <1>aw, <2>2
    <3>2. Fits(x, launchRecorded'[l], launchObjects'[l], launchDid'[l], launchTurn'[l])
      BY <1>1, <1>5, <2>2 DEF Held
    <3> QED BY <1>6, <3>1, <3>2 DEF Placed, Recorded
  <2> QED BY <2>1, <2>2
<1>8. LaunchInv'
  <2>1. /\ n > 0 => Truth(l, e)
        /\ n = 3 => Shaped(Append(Recorded(l), e))
        /\ n > 0 /\ Recorded(l) = <<>>
              => e = "reserved" /\ launchIssued[l].head = Len(launchChain)
    BY <1>2, <1>n, <1>r
  <2>2. /\ launchRun' = [launchRun EXCEPT ![r] = x]
        /\ launchTorn' \in {launchTorn, launchTorn \cup {l}}
        /\ launchIssued' = launchIssued /\ launchChief' = launchChief
        /\ launchDid' = launchDid /\ launchTurn' = launchTurn
    BY <1>1
  <2> QED BY <1>i, <1>w, <1>3, <1>7, <2>1, <2>2, PublishKeeps
<1>9. RecoveryInv'
  <2>1. /\ n > 0 /\ Recorded(l) = <<>>
              => e = "reserved" /\ launchIssued[l].head = Len(launchChain)
        /\ n > 0 => NextObject(l, <<Len(Recorded(l)) + 1, e>>)
        /\ n > 0 /\ Undisturbed
              => \A o \in Unrecorded(l) : o = <<Len(Recorded(l)) + 1, e>>
    BY <1>2, <1>r DEF p
  <2>2. n >= 2 => BindingsSound /\ \A b \in PendingBindings :
                                         b.launch = l /\ b.place = Len(Recorded(l)) + 1
    BY <1>1, <1>n
  <2>3. /\ launchRun' = [launchRun EXCEPT ![r] = x]
        /\ launchTorn' \in {launchTorn, launchTorn \cup {l}}
        /\ launchIssued' = launchIssued
    BY <1>1
  <2>4. \/ x.at \in {"away", "load"} \/ n = 3 \/ (n \in 1 .. 2 /\ l \in launchTorn')
        \/ n = 0 /\ launchRun[r].at \notin {"away", "load"}
    BY <1>1, <1>n, <1>aw
  <2> QED BY ZenonT(40), <1>i, <1>j, <1>w, <1>3, <2>1, <2>2, <2>3, <2>4, PublishRecovers
<1> QED BY <1>8, <1>9 DEF TransportInv

(* A runner told of an error keeps its place, however far it got.           *)
LEMMA FaultFits ==
    ASSUME NEW j \in Seq(LaunchEvents), j # <<>>, Stepping(j), Len(j) < 9,
           NEW e, e = LaunchSteps[Len(j) + 1],
           NEW objs, Unfinal(objs), NEW did, NEW turn,
           NEW x, x.at = "fault", x.journal = j, CauseFits(j, x.cause, turn)
    PROVE  /\ Held(x, j, objs, did, turn)
           /\ Held(x, j, objs \cup {<<Len(j) + 1, e>>}, did, turn)
           /\ Held(x, Append(j, e), objs \cup {<<Len(j) + 1, e>>}, did, turn)
<1>1. e \in LaunchEvents /\ Stepping(Append(j, e))
  BY SteppingGrows
<1>2. Append(j, e) # <<>> /\ Len(Append(j, e)) = Len(j) + 1 /\ Len(j) \in Nat
  BY <1>1, JournalParts
<1>3. Append(j, e) # j
  BY <1>2
<1>4. ~Final(e)
  <2>1. Len(j) + 1 \in 1 .. 9
    BY <1>2
  <2> QED BY <2>1, StepFacts
<1>5. Unfinal(objs \cup {<<Len(j) + 1, e>>})
  BY <1>4 DEF Unfinal
<1> QED BY <1>1, <1>2, <1>3, <1>5 DEF Held, Fits


-----------------------------------------------------------------------------
(* A runner at work *)

(* Places in a journal: before a pending event and after one.               *)
LEMMA OddPlaces ==
    ASSUME NEW n, n \in {1, 3, 5, 7}
    PROVE  /\ n \in Nat /\ n < 9 /\ n # 8 /\ n + 1 \in {2, 4, 6, 8}
           /\ n + 1 <= 4 => n \in {1, 3}
           /\ (n + 1) \div 2 \in 1 .. 4 /\ ~(n >= 2 * ((n + 1) \div 2))
<1>1. CASE n = 1
  BY <1>1
<1>2. CASE n = 3
  BY <1>2
<1>3. CASE n = 5
  BY <1>3
<1>4. CASE n = 7
  BY <1>4
<1> QED BY <1>1, <1>2, <1>3, <1>4

LEMMA EvenPlaces ==
    ASSUME NEW n, n \in {2, 4, 6, 8}
    PROVE  /\ n \in Nat /\ n < 9 /\ n # 9
           /\ n # 8 => n + 1 \in {1, 3, 5, 7}
           /\ n = 8 => n + 1 = 9
           /\ n \div 2 \in 1 .. 4 /\ 2 * (n \div 2) = n /\ n >= 2 * (n \div 2)
           /\ n \div 2 = 4 <=> n = 8
           /\ n \div 2 >= 3 <=> n \in {6, 8}
           /\ n >= 8 <=> n = 8
<1>1. CASE n = 2
  BY <1>1
<1>2. CASE n = 4
  BY <1>2
<1>3. CASE n = 6
  BY <1>3
<1>4. CASE n = 8
  BY <1>4
<1> QED BY <1>1, <1>2, <1>3, <1>4

LEMMA LowPlaces ==
    ASSUME NEW n \in 1 .. 9, n < 9
    PROVE  n + 1 \in 1 .. 9 /\ n \in 1 .. 8 /\ (n + 1 = 9 <=> n = 8)
OBVIOUS

LEMMA StageFacts ==
    /\ \A at \in {"load", "step", "effect", "observe", "turn", "ended", "fault", "receipt"} :
          at \in Stages \ {"away"}
    /\ \A c \in {"none", "error", "callback", "rejected", "rerouted",
                  "completed", "failed", "interrupted"} : c \in Causes
BY DEF Stages, Causes

LEMMA WorkFacts ==
    ASSUME TransportInv, NEW r \in Runners, launchRun[r].at \notin {"away", "load"},
           NEW l, l = launchRun[r].launch
    PROVE  /\ l \in Launches /\ launchRun[r].journal \in Seq(LaunchEvents)
           /\ launchRun[r].cause \in Causes
           /\ launchRecorded[l] \in Seq(LaunchEvents)
           /\ Fits(launchRun[r], launchRecorded[l], launchObjects[l], launchDid[l], launchTurn[l])
           /\ Undisturbed => Unrecorded(l) = {}
           /\ ObjectsOf(launchRecorded[l]) \subseteq launchObjects[l]
           /\ \A o \in launchObjects[l] : Truth(l, o[2])
           /\ \A i \in Boundaries : launchDid[l][i] > 0 => Len(launchRecorded[l]) >= 2 * i
           /\ launchTurn[l] # "none" => Len(launchRecorded[l]) >= 8
           /\ launchTurn[l] \in TurnStates
<1>1. LaunchTyped /\ RunnersApart /\ ObjectsTrue /\ DoneOnRecord /\ Placed(r)
  BY DEF TransportInv, LaunchInv
<1>2. launchRun[r] \in Positions
  BY <1>1 DEF LaunchTyped
<1>3. l \in Launches /\ launchRun[r].journal \in Seq(LaunchEvents) /\ launchRun[r].cause \in Causes
  BY <1>1, <1>2 DEF Positions, RunnersApart
<1>4. launchRecorded[l] \in Seq(LaunchEvents) /\ launchTurn[l] \in TurnStates
  BY <1>1, <1>3 DEF LaunchTyped, TurnStates
<1>5. Fits(launchRun[r], launchRecorded[l], launchObjects[l], launchDid[l], launchTurn[l])
  BY <1>1 DEF Placed, Recorded
<1>6. Undisturbed => Unrecorded(l) = {}
  BY DEF TransportInv, RecoveryInv, NothingLeft
<1>7. /\ ObjectsOf(launchRecorded[l]) \subseteq launchObjects[l]
      /\ \A o \in launchObjects[l] : Truth(l, o[2])
  BY <1>1, <1>3 DEF ObjectsTrue, Recorded
<1>8. /\ \A i \in Boundaries : launchDid[l][i] > 0 => Len(launchRecorded[l]) >= 2 * i
      /\ launchTurn[l] # "none" => Len(launchRecorded[l]) >= 8
  BY <1>1, <1>3 DEF DoneOnRecord, Recorded
<1> QED BY <1>3, <1>4, <1>5, <1>6, <1>7, <1>8

LEMMA GoingTyped ==
    ASSUME NEW r \in Runners, NEW l \in Launches, launchRun[r].launch = l,
           NEW at \in Stages \ {"away"}, NEW j \in Seq(LaunchEvents), NEW c \in Causes
    PROVE  /\ Going(r, at, j, c) \in Positions
           /\ Going(r, at, j, c).at = at /\ Going(r, at, j, c).launch = l
           /\ Going(r, at, j, c).journal = j /\ Going(r, at, j, c).cause = c
BY DEF Going, Positions

LEMMA AwayTyped ==
    /\ RunnerAway \in Positions /\ RunnerAway.at = "away"
    /\ \A rec, objs, did, turn : Held(RunnerAway, rec, objs, did, turn)
BY DEF RunnerAway, Positions, Stages, Causes, Held

(* The next step of a journal that goes on.                                 *)
LEMMA StepFollows ==
    ASSUME NEW j \in Seq(LaunchEvents), Stepping(j), j # <<>>, Len(j) < 9,
           NEW e, e = LaunchSteps[Len(j) + 1]
    PROVE  /\ e \in LaunchEvents /\ ~Final(e) /\ MayFollow(j, e)
           /\ Append(j, e) \in Seq(LaunchEvents) /\ Append(j, e) # <<>>
           /\ Stepping(Append(j, e)) /\ Shaped(Append(j, e))
           /\ Len(Append(j, e)) = Len(j) + 1 /\ Len(j) \in 1 .. 8
           /\ e = "turn_started" <=> Len(j) = 8
<1>1. e \in LaunchEvents /\ Stepping(Append(j, e))
  BY SteppingGrows
<1>2. Len(j) \in 1 .. 9 /\ ~Final(Last(j))
  BY SteppingLast
<1>3. Len(j) + 1 \in 1 .. 9 /\ Len(j) \in 1 .. 8 /\ (Len(j) + 1 = 9 <=> Len(j) = 8)
  BY <1>2, LowPlaces
<1>4. ~Final(e) /\ (e = "turn_started" <=> Len(j) = 8)
  BY <1>3, StepFacts
<1>5. /\ Append(j, e) \in Seq(LaunchEvents) /\ Append(j, e) # <<>>
      /\ Len(Append(j, e)) = Len(j) + 1
  BY <1>1, JournalParts
<1>6. MayFollow(j, e)
  BY <1>2, StepFacts DEF MayFollow, Final
<1> QED BY <1>1, <1>3, <1>4, <1>5, <1>6 DEF Shaped

(* An object of the journal that says that the turn started.                *)
LEMMA StartedObject ==
    ASSUME NEW j \in Seq(LaunchEvents), Stepping(j), Len(j) = 9
    PROVE  <<9, "turn_started">> \in ObjectsOf(j)
<1>1. DOMAIN j = 1 .. 9
  BY JournalParts, EventsFacts
<1>2. 9 \in 1 .. 9 /\ 9 \in 1 .. Len(j)
  OBVIOUS
<1>3. j[9] = LaunchSteps[9]
  BY <1>2 DEF Stepping
<1>4. j[9] = "turn_started"
  BY <1>2, <1>3, StepFacts
<1> QED BY <1>1, <1>2, <1>4 DEF ObjectsOf

-----------------------------------------------------------------------------
(* The steps of a runner *)

LEMMA AttemptKeeps ==
    ASSUME TransportInv, NEW r \in Runners, Attempt(r)
    PROVE  TransportInv'
<1> DEFINE l == launchRun[r].launch
           j == launchRun[r].journal
           e == LaunchSteps[Len(j) + 1]
           child == Len(j) + 1 <= 4
           c == IF child THEN "callback" ELSE "error"
           failed == Going(r, "fault", j, c)
           good == Going(r, "effect", Append(j, e), "none")
<1>1. launchRun[r].at = "step"
  BY DEF Attempt
<1>2. /\ l \in Launches /\ j \in Seq(LaunchEvents) /\ launchRecorded[l] \in Seq(LaunchEvents)
      /\ Fits(launchRun[r], launchRecorded[l], launchObjects[l], launchDid[l], launchTurn[l])
      /\ Undisturbed => Unrecorded(l) = {}
      /\ \A i \in Boundaries : launchDid[l][i] > 0 => Len(launchRecorded[l]) >= 2 * i
  BY <1>1, WorkFacts
<1>3. /\ launchRecorded[l] = j /\ j # <<>> /\ Stepping(j) /\ Unfinal(launchObjects[l])
      /\ Len(j) \in {1, 3, 5, 7} /\ Unstarted(launchObjects[l])
  BY <1>1, <1>2 DEF Fits
<1>4. /\ Len(j) \in Nat /\ Len(j) < 9 /\ Len(j) # 8 /\ Len(j) + 1 \in {2, 4, 6, 8}
      /\ Len(j) + 1 <= 4 => Len(j) \in {1, 3}
      /\ (Len(j) + 1) \div 2 \in 1 .. 4 /\ ~(Len(j) >= 2 * ((Len(j) + 1) \div 2))
  BY <1>3, OddPlaces
<1>5. /\ e \in LaunchEvents /\ ~Final(e) /\ MayFollow(j, e)
      /\ Append(j, e) \in Seq(LaunchEvents) /\ Append(j, e) # <<>>
      /\ Stepping(Append(j, e)) /\ Shaped(Append(j, e))
      /\ Len(Append(j, e)) = Len(j) + 1 /\ e # "turn_started"
  BY <1>2, <1>3, <1>4, StepFollows
<1>6. c \in Causes /\ (c = "callback" => Len(j) \in {1, 3}) /\ c \in {"error", "callback"}
  <2>1. c = "callback" => child
    OBVIOUS
  <2>2. c \in {"error", "callback"}
    OBVIOUS
  <2>3. c = "callback" => Len(j) \in {1, 3}
    BY <1>4, <2>1
  <2> HIDE DEF c
  <2> QED BY <2>2, <2>3 DEF Causes
<1>7. \A turn : CauseFits(j, c, turn)
  BY <1>6 DEF CauseFits
<1>8. l = launchRun[r].launch /\ j = launchRun[r].journal /\ e = LaunchSteps[Len(j) + 1]
  OBVIOUS
<1>9. IF child /\ ~MayStart(r)
      THEN Becomes(r, failed) /\ NothingWritten /\ Outside /\ UNCHANGED launchSpent
      ELSE Publishes(r, j, e, good, failed)
  BY DEF Attempt
<1>10. /\ failed \in Positions /\ failed.at = "fault" /\ failed.launch = l
       /\ failed.journal = j /\ failed.cause = c
  <2> HIDE DEF l, j, e, child, c
  <2> QED BY <1>2, <1>6, <1>8, GoingTyped, StageFacts
<1>11. /\ good \in Positions /\ good.at = "effect" /\ good.launch = l
       /\ good.journal = Append(j, e)
  <2> HIDE DEF l, j, e, child, c
  <2>1. Append(j, e) \in Seq(LaunchEvents)
    BY <1>5
  <2>2. \A k \in Seq(LaunchEvents) :
           /\ Going(r, "effect", k, "none") \in Positions
           /\ Going(r, "effect", k, "none").at = "effect" /\ Going(r, "effect", k, "none").launch = l
           /\ Going(r, "effect", k, "none").journal = k
    BY <1>2, <1>8, GoingTyped, StageFacts
  <2> QED BY <2>1, <2>2
<1> HIDE DEF l, j, e, child, c, failed, good
<1>12. /\ Held(failed, j, launchObjects[l], launchDid[l], launchTurn[l])
       /\ Held(failed, j, launchObjects[l] \cup {<<Len(j) + 1, e>>}, launchDid[l], launchTurn[l])
       /\ Held(failed, Append(j, e), launchObjects[l] \cup {<<Len(j) + 1, e>>},
               launchDid[l], launchTurn[l])
  BY <1>2, <1>3, <1>4, <1>7, <1>8, <1>10, FaultFits
<1>13. CASE Becomes(r, failed) /\ NothingWritten /\ Outside
  <2>1. \/ failed.at \in {"away", "load"}
        \/ Fits(failed, launchRecorded[l], launchObjects[l], launchDid[l], launchTurn[l])
    BY <1>3, <1>12 DEF Held
  <2>2. launchRun[r].launch = l /\ failed.at # "away" /\ launchRun[r].at \notin {"away", "load"}
    BY <1>1, <1>8, <1>10
  <2> QED BY <1>2, <1>10, <1>13, <2>1, <2>2, MoveKeeps
<1>14. CASE Publishes(r, j, e, good, failed)
  <2>1. Held(good, Append(j, e), launchObjects[l] \cup {<<Len(j) + 1, e>>},
             launchDid[l], launchTurn[l])
    <3>1. Unfinal(launchObjects[l] \cup {<<Len(j) + 1, e>>})
          /\ Unstarted(launchObjects[l] \cup {<<Len(j) + 1, e>>})
      BY <1>3, <1>5 DEF Unfinal, Unstarted
    <3>2. Len(Append(j, e)) \in {2, 4, 6, 8}
      BY <1>4, <1>5
    <3>3. /\ Len(Append(j, e)) \div 2 \in Boundaries
          /\ ~(Len(j) >= 2 * (Len(Append(j, e)) \div 2))
      BY <1>4, <1>5 DEF Boundaries
    <3>4. launchDid[l][Len(Append(j, e)) \div 2] \in Nat
      BY <1>2, <3>3 DEF TransportInv, LaunchInv, LaunchTyped
    <3>5. launchDid[l][Len(Append(j, e)) \div 2] = 0
      BY <1>2, <1>3, <3>3, <3>4
    <3> QED BY <1>5, <1>11, <3>1, <3>2, <3>5 DEF Held, Fits
  <2>2. Truth(l, e)
    BY <1>5 DEF Truth, Final, Verdicts
  <2>3. NextObject(l, <<Len(j) + 1, e>>)
    BY <1>3, <1>5 DEF NextObject, Recorded
  <2>4. launchRun[r].launch = l /\ good.at # "away" /\ launchRun[r].at \notin {"away", "load"}
    BY <1>1, <1>8, <1>11
  <2>5. Held(failed, launchRecorded[l], launchObjects[l], launchDid[l], launchTurn[l])
    BY <1>3, <1>12
  <2> QED BY <1>2, <1>3, <1>5, <1>10, <1>11, <1>12, <1>14, <2>1, <2>2, <2>3, <2>4, <2>5,
             PublishStep
<1> QED BY <1>9, <1>13, <1>14

LEMMA ObserveKeeps ==
    ASSUME TransportInv, NEW r \in Runners, Observe(r)
    PROVE  TransportInv'
<1> DEFINE l == launchRun[r].launch
           j == launchRun[r].journal
           e == LaunchSteps[Len(j) + 1]
           failed == Going(r, "fault", j, "error")
           at == IF e = "turn_started" THEN "turn" ELSE "step"
           good == Going(r, at, Append(j, e), "none")
<1>1. launchRun[r].at = "observe"
  BY DEF Observe
<1>2. /\ l \in Launches /\ j \in Seq(LaunchEvents) /\ launchRecorded[l] \in Seq(LaunchEvents)
      /\ Fits(launchRun[r], launchRecorded[l], launchObjects[l], launchDid[l], launchTurn[l])
      /\ Undisturbed => Unrecorded(l) = {}
  BY <1>1, WorkFacts
<1>3. /\ launchRecorded[l] = j /\ j # <<>> /\ Stepping(j) /\ Unfinal(launchObjects[l])
      /\ Len(j) \in {2, 4, 6, 8} /\ Unstarted(launchObjects[l])
      /\ Len(j) = 8 => launchTurn[l] = "running"
  BY <1>1, <1>2 DEF Fits
<1>4. /\ Len(j) \in Nat /\ Len(j) < 9 /\ (Len(j) # 8 => Len(j) + 1 \in {1, 3, 5, 7})
      /\ Len(j) = 8 => Len(j) + 1 = 9
  BY <1>3, EvenPlaces
<1>5. /\ e \in LaunchEvents /\ ~Final(e) /\ MayFollow(j, e)
      /\ Append(j, e) \in Seq(LaunchEvents) /\ Append(j, e) # <<>>
      /\ Stepping(Append(j, e)) /\ Shaped(Append(j, e))
      /\ Len(Append(j, e)) = Len(j) + 1 /\ (e = "turn_started" <=> Len(j) = 8)
  BY <1>2, <1>3, <1>4, StepFollows
<1>7. \A turn : CauseFits(j, "error", turn)
  BY DEF CauseFits
<1>8. l = launchRun[r].launch /\ j = launchRun[r].journal /\ e = LaunchSteps[Len(j) + 1]
  OBVIOUS
<1>9. Publishes(r, j, e, good, failed)
  BY DEF Observe
<1>10. /\ failed \in Positions /\ failed.at = "fault" /\ failed.launch = l
       /\ failed.journal = j /\ failed.cause = "error"
  <2> HIDE DEF l, j, e, at
  <2> QED BY <1>2, <1>8, GoingTyped, StageFacts
<1>a. at \in {"turn", "step"} /\ (at = "turn" <=> Len(j) = 8)
  BY <1>5
<1>11. /\ good \in Positions /\ good.at = at /\ good.launch = l
       /\ good.journal = Append(j, e)
  <2> HIDE DEF l, j, e, at
  <2>1. Append(j, e) \in Seq(LaunchEvents) /\ at \in Stages \ {"away"}
    BY <1>5, <1>a, StageFacts
  <2>2. \A k \in Seq(LaunchEvents) :
           /\ Going(r, at, k, "none") \in Positions
           /\ Going(r, at, k, "none").at = at /\ Going(r, at, k, "none").launch = l
           /\ Going(r, at, k, "none").journal = k
    BY <1>2, <1>8, <2>1, GoingTyped, StageFacts
  <2> QED BY <2>1, <2>2
<1> HIDE DEF l, j, e, failed, good, at
<1>12. /\ Held(failed, j, launchObjects[l], launchDid[l], launchTurn[l])
       /\ Held(failed, j, launchObjects[l] \cup {<<Len(j) + 1, e>>}, launchDid[l], launchTurn[l])
       /\ Held(failed, Append(j, e), launchObjects[l] \cup {<<Len(j) + 1, e>>},
               launchDid[l], launchTurn[l])
  <2>1. Len(j) < 9 /\ CauseFits(j, failed.cause, launchTurn[l])
    BY <1>4, <1>7, <1>10
  <2>2. j \in Seq(LaunchEvents) /\ j # <<>> /\ Stepping(j) /\ Unfinal(launchObjects[l])
    BY <1>2, <1>3
  <2> QED BY <1>8, <1>10, <2>1, <2>2, FaultFits
<1>13. Held(good, Append(j, e), launchObjects[l] \cup {<<Len(j) + 1, e>>},
            launchDid[l], launchTurn[l])
  <2>1. Unfinal(launchObjects[l] \cup {<<Len(j) + 1, e>>})
    BY <1>3, <1>5 DEF Unfinal
  <2>2. CASE at = "turn"
    <3>1. Len(Append(j, e)) = 9
      BY <1>4, <1>5, <1>a, <2>2
    <3> QED BY <1>5, <1>11, <2>1, <2>2, <3>1 DEF Held, Fits
  <2>3. CASE at = "step"
    <3>1. Len(Append(j, e)) \in {1, 3, 5, 7} /\ e # "turn_started"
      BY <1>4, <1>5, <1>a, <2>3
    <3>2. Unstarted(launchObjects[l] \cup {<<Len(j) + 1, e>>})
      BY <1>3, <3>1 DEF Unstarted
    <3> QED BY <1>5, <1>11, <2>1, <2>3, <3>1, <3>2 DEF Held, Fits
  <2> QED BY <1>a, <2>2, <2>3
<1>14. Truth(l, e)
  BY <1>3, <1>5 DEF Truth, Final, Verdicts
<1>15. NextObject(l, <<Len(j) + 1, e>>)
  BY <1>3, <1>5 DEF NextObject, Recorded
<1>16. launchRun[r].launch = l /\ good.at # "away" /\ launchRun[r].at \notin {"away", "load"}
  BY <1>1, <1>8, <1>11, <1>a
<1>17. Held(failed, launchRecorded[l], launchObjects[l], launchDid[l], launchTurn[l])
  BY <1>3, <1>12
<1> QED BY <1>2, <1>3, <1>5, <1>9, <1>10, <1>11, <1>12, <1>13, <1>14, <1>15, <1>16, <1>17,
           PublishStep


(* A step outside the task leaves what the objects say true, as long as     *)
(* none of them is final or says that the turn started.                     *)
LEMMA EffectKeeps ==
    ASSUME TransportInv, NEW r \in Runners, Effect(r)
    PROVE  TransportInv'
<1>l. PICK l : l = launchRun[r].launch
  OBVIOUS
<1> DEFINE j == launchRun[r].journal
           i == Len(j) \div 2
<1>1. launchRun[r].at = "effect"
  BY DEF Effect
<1>2. /\ l \in Launches /\ j \in Seq(LaunchEvents) /\ launchRecorded[l] \in Seq(LaunchEvents)
      /\ Fits(launchRun[r], launchRecorded[l], launchObjects[l], launchDid[l], launchTurn[l])
      /\ launchTurn[l] # "none" => Len(launchRecorded[l]) >= 8
      /\ \A k \in Boundaries : launchDid[l][k] > 0 => Len(launchRecorded[l]) >= 2 * k
  BY <1>1, <1>l, WorkFacts
<1>3. /\ launchRecorded[l] = j /\ j # <<>> /\ Stepping(j) /\ Unfinal(launchObjects[l])
      /\ Len(j) \in {2, 4, 6, 8} /\ Unstarted(launchObjects[l]) /\ launchDid[l][i] = 0
  BY <1>1, <1>2 DEF Fits
<1>4. /\ Len(j) \in Nat /\ Len(j) < 9 /\ i \in 1 .. 4 /\ 2 * i = Len(j) /\ Len(j) >= 2 * i
      /\ (i = 4 <=> Len(j) = 8) /\ (i >= 3 <=> Len(j) \in {6, 8})
      /\ (Len(j) >= 8 <=> Len(j) = 8)
  BY <1>3, EvenPlaces
<1>5. PICK at \in {"observe", "fault"}, cause \in {"none", "error", "rejected", "rerouted"},
           s \in {"same", "running", "rejected", "rerouted"} :
        /\ Becomes(r, Going(r, at, j, cause)) /\ NothingWritten
        /\ IF s = "same" THEN launchDid' = launchDid /\ launchTurn' = launchTurn
           ELSE /\ launchDid' = [launchDid EXCEPT ![l] = [launchDid[l] EXCEPT ![i] = launchDid[l][i] + 1]]
                /\ launchTurn' = IF i = 4 THEN [launchTurn EXCEPT ![l] = s] ELSE launchTurn
        /\ at = "observe" => s = "running"
        /\ at = "fault" => cause \in {"error", "rejected", "rerouted"}
        /\ cause \in {"rejected", "rerouted"} => i >= 3 /\ s = cause
  <2>1. NothingWritten
    BY <1>l DEF Effect
  <2>d. launchDid' = [launchDid EXCEPT ![l][i] = @ + 1]
          => launchDid' = [launchDid EXCEPT ![l] = [launchDid[l] EXCEPT ![i] = launchDid[l][i] + 1]]
    OBVIOUS
  <2>2. \/ /\ launchDid' = [launchDid EXCEPT ![l][i] = @ + 1]
           /\ launchTurn' = IF i = 4 THEN [launchTurn EXCEPT ![l] = "running"] ELSE launchTurn
           /\ \/ Becomes(r, Going(r, "observe", j, "none"))
              \/ Becomes(r, Going(r, "fault", j, "error"))
        \/ /\ i >= 3 /\ launchDid' = [launchDid EXCEPT ![l][i] = @ + 1]
           /\ launchTurn' = IF i = 4 THEN [launchTurn EXCEPT ![l] = "rejected"] ELSE launchTurn
           /\ Becomes(r, Going(r, "fault", j, "rejected"))
        \/ /\ i >= 3 /\ launchDid' = [launchDid EXCEPT ![l][i] = @ + 1]
           /\ launchTurn' = IF i = 4 THEN [launchTurn EXCEPT ![l] = "rerouted"] ELSE launchTurn
           /\ Becomes(r, Going(r, "fault", j, "rerouted"))
        \/ /\ launchDid' = launchDid /\ launchTurn' = launchTurn
           /\ Becomes(r, Going(r, "fault", j, "error"))
    BY <1>l DEF Effect
  <2> HIDE DEF j, i
  <2> QED BY <2>1, <2>2, <2>d
<1> HIDE DEF j, i
<1> DEFINE x == Going(r, at, j, cause)
<1>6. /\ x \in Positions /\ x.at = at /\ x.launch = l /\ x.journal = j /\ x.cause = cause
  BY <1>2, <1>l, GoingTyped, StageFacts
<1>7. launchDid \in [Launches -> [Boundaries -> Nat]] /\ launchTurn \in [Launches -> TurnStates]
      /\ i \in Boundaries
  BY <1>4 DEF TransportInv, LaunchInv, LaunchTyped, TurnStates, Boundaries
<1>9. s # "same" => s \in TurnStates
  BY DEF TurnStates
<1>10. /\ launchDid' \in [Launches -> [Boundaries -> Nat]]
       /\ \A m \in Launches \ {l} : launchDid'[m] = launchDid[m]
       /\ \A k \in Boundaries : k # i => launchDid'[l][k] = launchDid[l][k]
       /\ launchDid'[l][i] \in {0, 1}
  <2>1. CASE s = "same"
    BY <1>2, <1>3, <1>5, <1>7, <2>1
  <2>2. CASE s # "same"
    <3>1. launchDid' = [launchDid EXCEPT ![l] = [launchDid[l] EXCEPT ![i] = launchDid[l][i] + 1]]
      BY <1>5, <2>2
    <3>2. launchDid[l] \in [Boundaries -> Nat] /\ launchDid[l][i] + 1 = 1
      BY <1>2, <1>3, <1>7
    <3>3. [launchDid[l] EXCEPT ![i] = launchDid[l][i] + 1] \in [Boundaries -> Nat]
      <4>1. launchDid[l][i] + 1 \in Nat
        BY <3>2
      <4> QED BY <3>2, <4>1
    <3> QED BY <1>2, <1>7, <3>1, <3>2, <3>3
  <2> QED BY <2>1, <2>2
<1>11. /\ launchTurn' \in [Launches -> TurnStates]
       /\ \A m \in Launches \ {l} : launchTurn'[m] = launchTurn[m]
       /\ (s = "same" \/ i # 4) => launchTurn'[l] = launchTurn[l]
       /\ (s # "same" /\ i = 4) => launchTurn'[l] = s
  <2>1. CASE s = "same"
    BY <1>5, <1>7, <2>1
  <2>2. CASE s # "same"
    BY <1>2, <1>5, <1>7, <1>9, <2>2
  <2> QED BY <2>1, <2>2
<1>12. i # 4 => launchTurn'[l] = "none" /\ launchTurn[l] = "none"
  BY <1>2, <1>3, <1>4, <1>11
<1>13. \A o \in launchObjects[l] : Truth(l, o[2])'
  BY <1>3 DEF Unfinal, Unstarted, Truth, Final, Verdicts
<1>14. \A k \in Boundaries : launchDid'[l][k] > 0 =>
              /\ launchDid'[l][k] = 1
              /\ Len(launchRecorded[l]) >= 2 * k /\ launchRecorded[l][2 * k] = LaunchSteps[2 * k]
  <2> SUFFICES ASSUME NEW k \in Boundaries, launchDid'[l][k] > 0
               PROVE  /\ launchDid'[l][k] = 1
                      /\ Len(launchRecorded[l]) >= 2 * k /\ launchRecorded[l][2 * k] = LaunchSteps[2 * k]
    OBVIOUS
  <2>1. CASE k = i
    <3>1. launchDid'[l][k] = 1
      BY <1>10, <2>1
    <3>2. Len(j) \in 1 .. Len(j)
      BY <1>3, <1>4
    <3>3. j[Len(j)] = LaunchSteps[Len(j)]
      BY <1>3, <3>2 DEF Stepping
    <3> QED BY <1>3, <1>4, <2>1, <3>1, <3>3
  <2>2. CASE k # i
    <3>1. launchDid'[l][k] = launchDid[l][k]
      BY <1>10, <2>2
    <3> QED BY <1>2, <3>1 DEF TransportInv, LaunchInv, DoneOnRecord, Recorded
  <2> QED BY <2>1, <2>2
<1>15. launchTurn'[l] # "none" => Len(launchRecorded[l]) >= 8
  BY <1>3, <1>4, <1>12
<1>16. Fits(x, launchRecorded[l], launchObjects[l], launchDid'[l], launchTurn'[l])
  <2>1. CASE at = "observe"
    <3>1. Len(j) = 8 => launchTurn'[l] = "running"
      BY <1>4, <1>5, <1>11, <2>1
    <3> HIDE DEF x
    <3> QED BY <1>3, <1>6, <2>1, <3>1 DEF Fits
  <2>2. CASE at = "fault"
    <3>1. CauseFits(j, cause, launchTurn'[l])
      <4>1. cause \in {"error", "rejected", "rerouted"}
        BY <1>5, <2>2
      <4>2. cause \in {"rejected", "rerouted"} => Len(j) \in {6, 8} /\ s = cause
        BY <1>4, <1>5
      <4>3. cause \in {"rejected", "rerouted"} => launchTurn'[l] \in {"none", cause}
        BY <1>5, <1>11, <1>12
      <4> QED BY <4>1, <4>2, <4>3 DEF CauseFits
    <3> HIDE DEF x
    <3> QED BY <1>3, <1>6, <2>2, <3>1 DEF Fits
  <2> QED BY <2>1, <2>2
<1>17. /\ launchRun' = [launchRun EXCEPT ![r] = x]
       /\ launchChain' = launchChain /\ launchRecorded' = launchRecorded
       /\ launchObjects' = launchObjects /\ launchBound' = launchBound
       /\ launchIssued' = launchIssued /\ launchChief' = launchChief /\ launchTorn' = launchTorn
  BY <1>5 DEF Becomes, NothingWritten, TaskChain
<1>18. launchRun[r].at \notin {"away", "load"} /\ launchRun[r].launch = l /\ x.at # "away"
  BY <1>1, <1>6, <1>l
<1>19. \A m \in Launches \ {l} : launchDid'[m] = launchDid[m] /\ launchTurn'[m] = launchTurn[m]
  BY <1>10, <1>11
<1>20. launchDid' \in [Launches -> [Boundaries -> Nat]] /\ launchTurn' \in [Launches -> TurnStates]
  BY <1>10, <1>11
<1> HIDE DEF x
<1>21. /\ l \in Launches /\ launchRun[r].launch = l /\ x \in Positions
       /\ x = RunnerAway \/ (x.launch = l /\ x.at # "away")
       /\ \/ x.at \in {"away", "load"}
          \/ Fits(x, launchRecorded[l], launchObjects[l], launchDid'[l], launchTurn'[l])
       /\ \/ x.at \in {"away", "load"} \/ launchRun[r].at \notin {"away", "load"}
          \/ Unrecorded(l) = {}
  BY <1>2, <1>6, <1>16, <1>18
<1> QED BY <1>13, <1>14, <1>15, <1>17, <1>19, <1>20, <1>21, QuietKeeps

LEMMA TurnEndsKeeps ==
    ASSUME TransportInv, NEW r \in Runners, TurnEnds(r)
    PROVE  TransportInv'
<1>l. PICK l : l = launchRun[r].launch
  OBVIOUS
<1> DEFINE j == launchRun[r].journal
<1>1. launchRun[r].at = "turn"
  BY DEF TurnEnds
<1>2. /\ l \in Launches /\ j \in Seq(LaunchEvents) /\ launchRecorded[l] \in Seq(LaunchEvents)
      /\ Fits(launchRun[r], launchRecorded[l], launchObjects[l], launchDid[l], launchTurn[l])
      /\ ObjectsOf(launchRecorded[l]) \subseteq launchObjects[l]
      /\ \A o \in launchObjects[l] : Truth(l, o[2])
  BY <1>1, <1>l, WorkFacts
<1>3. /\ launchRecorded[l] = j /\ j # <<>> /\ Stepping(j) /\ Unfinal(launchObjects[l])
      /\ Len(j) = 9
  BY <1>1, <1>2 DEF Fits
<1>4. launchTurn[l] \notin {"none", "rejected"}
  <2>1. <<9, "turn_started">> \in launchObjects[l]
    BY <1>2, <1>3, StartedObject
  <2>2. Truth(l, <<9, "turn_started">>[2])
    BY <1>2, <2>1
  <2>3. <<9, "turn_started">>[2] = "turn_started"
    OBVIOUS
  <2> QED BY <2>2, <2>3 DEF Truth
<1>5. PICK at \in {"ended", "fault"}, cause \in {"error", "rerouted", "completed", "failed", "interrupted"},
           s \in {"same", "rerouted", "completed", "failed", "interrupted"} :
        /\ Becomes(r, Going(r, at, j, cause)) /\ NothingWritten /\ launchDid' = launchDid
        /\ launchTurn' = IF s = "same" THEN launchTurn ELSE [launchTurn EXCEPT ![l] = s]
        /\ at = "ended" => cause \in {"completed", "failed", "interrupted"} /\ s = cause
        /\ at = "fault" => cause = "error" \/ (cause = "rerouted" /\ s = "rerouted")
  <2>1. NothingWritten /\ launchDid' = launchDid
    BY <1>l DEF TurnEnds
  <2>2. \/ \E o \in {"completed", "failed", "interrupted"} :
              /\ launchTurn' = [launchTurn EXCEPT ![l] = o]
              /\ \/ Becomes(r, Going(r, "ended", j, o))
                 \/ Becomes(r, Going(r, "fault", j, "error"))
        \/ /\ launchTurn' = [launchTurn EXCEPT ![l] = "rerouted"]
           /\ Becomes(r, Going(r, "fault", j, "rerouted"))
        \/ launchTurn' = launchTurn /\ Becomes(r, Going(r, "fault", j, "error"))
    BY <1>l DEF TurnEnds
  <2> HIDE DEF j
  <2> QED BY <2>1, <2>2
<1> HIDE DEF j
<1> DEFINE x == Going(r, at, j, cause)
<1>6. /\ x \in Positions /\ x.at = at /\ x.launch = l /\ x.journal = j /\ x.cause = cause
  BY <1>2, <1>l, GoingTyped, StageFacts
<1>7. launchDid \in [Launches -> [Boundaries -> Nat]] /\ launchTurn \in [Launches -> TurnStates]
  BY DEF TransportInv, LaunchInv, LaunchTyped, TurnStates
<1>9. s # "same" => s \in TurnStates /\ s \notin {"none", "rejected"}
  BY DEF TurnStates
<1>10. /\ launchTurn' \in [Launches -> TurnStates]
       /\ \A m \in Launches \ {l} : launchTurn'[m] = launchTurn[m]
       /\ s = "same" => launchTurn'[l] = launchTurn[l]
       /\ s # "same" => launchTurn'[l] = s
       /\ launchTurn'[l] \notin {"none", "rejected"}
  <2>1. CASE s = "same"
    <3>1. launchTurn' = launchTurn
      BY <1>5, <2>1
    <3> QED BY <1>4, <1>7, <2>1, <3>1
  <2>2. CASE s # "same"
    <3>1. launchTurn' = [launchTurn EXCEPT ![l] = s]
      BY <1>5, <2>2
    <3> QED BY <1>2, <1>7, <1>9, <2>2, <3>1
  <2> QED BY <2>1, <2>2
<1>13. \A o \in launchObjects[l] : Truth(l, o[2])'
  <2> SUFFICES ASSUME NEW o \in launchObjects[l] PROVE Truth(l, o[2])'
    OBVIOUS
  <2>1. ~Final(o[2])
    BY <1>3 DEF Unfinal
  <2>2. o[2] # "failed" /\ o[2] # "completed" /\ o[2] # "interrupted"
    BY <2>1 DEF Final, Verdicts
  <2>3. launchTurn'[l] \notin {"none", "rejected"}
    BY <1>10
  <2> QED BY <2>2, <2>3 DEF Truth
<1>14. \A k \in Boundaries : launchDid'[l][k] > 0 =>
              /\ launchDid'[l][k] = 1
              /\ Len(launchRecorded[l]) >= 2 * k /\ launchRecorded[l][2 * k] = LaunchSteps[2 * k]
  BY <1>2, <1>5 DEF TransportInv, LaunchInv, DoneOnRecord, Recorded
<1>15. launchTurn'[l] # "none" => Len(launchRecorded[l]) >= 8
  BY <1>3
<1>16. Fits(x, launchRecorded[l], launchObjects[l], launchDid'[l], launchTurn'[l])
  <2>1. CASE at = "ended"
    <3>1. cause \in {"completed", "failed", "interrupted"} /\ launchTurn'[l] = cause
      BY <1>5, <1>10, <2>1
    <3> HIDE DEF x
    <3> QED BY <1>3, <1>6, <2>1, <3>1 DEF Fits
  <2>2. CASE at = "fault"
    <3>1. CauseFits(j, cause, launchTurn'[l])
      BY <1>3, <1>5, <1>10, <2>2 DEF CauseFits
    <3> HIDE DEF x
    <3> QED BY <1>3, <1>6, <2>2, <3>1 DEF Fits
  <2> QED BY <2>1, <2>2
<1>17. /\ launchRun' = [launchRun EXCEPT ![r] = x]
       /\ launchChain' = launchChain /\ launchRecorded' = launchRecorded
       /\ launchObjects' = launchObjects /\ launchBound' = launchBound
       /\ launchIssued' = launchIssued /\ launchChief' = launchChief /\ launchTorn' = launchTorn
  BY <1>5 DEF Becomes, NothingWritten, TaskChain
<1>18. launchRun[r].at \notin {"away", "load"} /\ launchRun[r].launch = l /\ x.at # "away"
  BY <1>1, <1>6, <1>l
<1>19. \A m \in Launches \ {l} : launchDid'[m] = launchDid[m] /\ launchTurn'[m] = launchTurn[m]
  BY <1>5, <1>10
<1>20. launchDid' \in [Launches -> [Boundaries -> Nat]] /\ launchTurn' \in [Launches -> TurnStates]
  BY <1>5, <1>7, <1>10
<1> HIDE DEF x
<1>21. /\ l \in Launches /\ launchRun[r].launch = l /\ x \in Positions
       /\ x = RunnerAway \/ (x.launch = l /\ x.at # "away")
       /\ \/ x.at \in {"away", "load"}
          \/ Fits(x, launchRecorded[l], launchObjects[l], launchDid'[l], launchTurn'[l])
       /\ \/ x.at \in {"away", "load"} \/ launchRun[r].at \notin {"away", "load"}
          \/ Unrecorded(l) = {}
  BY <1>2, <1>6, <1>16, <1>18
<1> QED BY <1>13, <1>14, <1>15, <1>17, <1>19, <1>20, <1>21, QuietKeeps


LEMMA RecordEndKeeps ==
    ASSUME TransportInv, NEW r \in Runners, RecordEnd(r)
    PROVE  TransportInv'
<1> DEFINE l == launchRun[r].launch
           j == launchRun[r].journal
           e == launchRun[r].cause
           good == Going(r, "receipt", Append(j, e), "none")
<1>1. launchRun[r].at = "ended" /\ Publishes(r, j, e, good, RunnerAway)
  BY DEF RecordEnd
<1>2. /\ l \in Launches /\ j \in Seq(LaunchEvents) /\ launchRecorded[l] \in Seq(LaunchEvents)
      /\ Fits(launchRun[r], launchRecorded[l], launchObjects[l], launchDid[l], launchTurn[l])
      /\ Undisturbed => Unrecorded(l) = {}
  BY <1>1, WorkFacts
<1>3. /\ launchRecorded[l] = j /\ j # <<>> /\ Stepping(j) /\ Len(j) = 9
      /\ e \in {"completed", "failed", "interrupted"} /\ launchTurn[l] = e
  BY <1>1, <1>2 DEF Fits
<1>4. /\ e \in Verdicts /\ e \in LaunchEvents /\ Final(e) /\ e # "reserved"
  BY <1>3 DEF Verdicts, LaunchEvents, Final
<1>5. /\ Append(j, e) \in Seq(LaunchEvents) /\ Append(j, e) # <<>> /\ Last(Append(j, e)) = e
  BY <1>2, <1>4, JournalParts
<1>6. MayFollow(j, e)
  <2>1. Last(j) = LaunchSteps[9] /\ ~Final(Last(j))
    BY <1>2, <1>3, SteppingLast
  <2>2. 9 \in 1 .. 9 /\ 9 # 2
    OBVIOUS
  <2>3. Last(j) = "turn_started" /\ Last(j) # "version_probe_pending"
    BY <2>1, <2>2, StepFacts
  <2> QED BY <1>3, <2>1, <2>3 DEF MayFollow, Final
<1>8. l = launchRun[r].launch /\ j = launchRun[r].journal
  OBVIOUS
<1>7. /\ good \in Positions /\ good.at = "receipt" /\ good.launch = l
      /\ good.journal = Append(j, e)
  <2> HIDE DEF l, j, e
  <2>1. \A k \in Seq(LaunchEvents) :
           /\ Going(r, "receipt", k, "none") \in Positions
           /\ Going(r, "receipt", k, "none").at = "receipt" /\ Going(r, "receipt", k, "none").launch = l
           /\ Going(r, "receipt", k, "none").journal = k
    <3> SUFFICES ASSUME NEW k \in Seq(LaunchEvents)
                 PROVE  /\ Going(r, "receipt", k, "none") \in Positions
                        /\ Going(r, "receipt", k, "none").at = "receipt"
                        /\ Going(r, "receipt", k, "none").launch = l
                        /\ Going(r, "receipt", k, "none").journal = k
      OBVIOUS
    <3>1. "receipt" \in Stages \ {"away"} /\ "none" \in Causes /\ launchRun[r].launch = l
      BY <1>8, StageFacts
    <3> QED BY <1>2, <3>1, GoingTyped
  <2> QED BY <1>5, <2>1
<1> HIDE DEF l, j, e, good
<1>9. Held(good, Append(j, e), launchObjects[l] \cup {<<Len(j) + 1, e>>},
           launchDid[l], launchTurn[l])
  BY <1>4, <1>5, <1>7 DEF Held, Fits
<1>10. /\ Truth(l, e) /\ Shaped(Append(j, e)) /\ NextObject(l, <<Len(j) + 1, e>>)
  <2>1. Truth(l, e)
    BY <1>3 DEF Truth
  <2>2. Shaped(Append(j, e))
    BY <1>4, <1>5 DEF Shaped
  <2>3. NextObject(l, <<Len(j) + 1, e>>)
    BY <1>3, <1>6 DEF NextObject, Recorded
  <2> QED BY <2>1, <2>2, <2>3
<1>11. launchRun[r].launch = l /\ good.at # "away" /\ launchRun[r].at \notin {"away", "load"}
  BY <1>1, <1>7, <1>8
<1> QED BY <1>1, <1>2, <1>3, <1>4, <1>7, <1>9, <1>10, <1>11, AwayTyped, PublishStep

(* What makes e publishable on a journal, of a runner that goes away when it *)
(* is told of an error.                                                      *)
Publishable(l, j, e, good) ==
    launchRecorded[l] = j =>
        /\ Truth(l, e) /\ Shaped(Append(j, e))
        /\ j = <<>> => e = "reserved" /\ launchIssued[l].head = Len(launchChain)
        /\ NextObject(l, <<Len(j) + 1, e>>)
        /\ Undisturbed => \A o \in Unrecorded(l) : o = <<Len(j) + 1, e>>
        /\ Held(good, Append(j, e), launchObjects[l] \cup {<<Len(j) + 1, e>>},
                launchDid[l], launchTurn[l])

LEMMA PublishOrLeave ==
    ASSUME TransportInv, NEW r \in Runners, NEW l \in Launches, launchRun[r].launch = l,
           NEW j \in Seq(LaunchEvents), NEW e \in LaunchEvents,
           NEW good \in Positions, good = RunnerAway \/ (good.launch = l /\ good.at # "away"),
           Publishes(r, j, e, good, RunnerAway), Publishable(l, j, e, good)
    PROVE  TransportInv'
<1>1. /\ RunnerAway \in Positions
      /\ \A rec, objs, did, turn : Held(RunnerAway, rec, objs, did, turn)
  BY AwayTyped
<1>2. launchRecorded[l] = j =>
        /\ Truth(l, e) /\ Shaped(Append(j, e))
        /\ j = <<>> => e = "reserved" /\ launchIssued[l].head = Len(launchChain)
        /\ NextObject(l, <<Len(j) + 1, e>>)
        /\ Undisturbed => \A o \in Unrecorded(l) : o = <<Len(j) + 1, e>>
        /\ Held(good, Append(j, e), launchObjects[l] \cup {<<Len(j) + 1, e>>},
                launchDid[l], launchTurn[l])
        /\ Held(RunnerAway, j, launchObjects[l] \cup {<<Len(j) + 1, e>>},
                launchDid[l], launchTurn[l])
        /\ Held(RunnerAway, Append(j, e), launchObjects[l] \cup {<<Len(j) + 1, e>>},
                launchDid[l], launchTurn[l])
  BY <1>1 DEF Publishable
<1>3. Held(RunnerAway, launchRecorded[l], launchObjects[l], launchDid[l], launchTurn[l])
  BY <1>1
<1> QED BY <1>1, <1>2, <1>3, PublishStep

LEMMA PublishReceiptKeeps ==
    ASSUME TransportInv, NEW r \in Runners, PublishReceipt(r)
    PROVE  TransportInv'
<1> DEFINE l == launchRun[r].launch
           j == launchRun[r].journal
           e == "receipt"
<1>1. launchRun[r].at = "receipt" /\ Publishes(r, j, e, RunnerAway, RunnerAway)
  BY DEF PublishReceipt
<1>2. /\ l \in Launches /\ j \in Seq(LaunchEvents) /\ launchRecorded[l] \in Seq(LaunchEvents)
      /\ Fits(launchRun[r], launchRecorded[l], launchObjects[l], launchDid[l], launchTurn[l])
      /\ Undisturbed => Unrecorded(l) = {}
  BY <1>1, WorkFacts
<1>3. /\ launchRecorded[l] = j /\ j # <<>> /\ Last(j) \in Verdicts
  BY <1>1, <1>2 DEF Fits
<1>4. e \in LaunchEvents /\ Final(e)
  BY EventsFacts
<1>5. /\ Append(j, e) # <<>> /\ Last(Append(j, e)) = e
  BY <1>2, <1>4, JournalParts
<1>6. MayFollow(j, e)
  BY <1>3 DEF MayFollow
<1>8. l = launchRun[r].launch /\ j = launchRun[r].journal
  OBVIOUS
<1>t. Truth(l, e)
  BY DEF Truth
<1> HIDE DEF l, j, e
<1>10. /\ Shaped(Append(j, e)) /\ NextObject(l, <<Len(j) + 1, e>>)
  BY <1>3, <1>4, <1>5, <1>6 DEF NextObject, Recorded, Shaped
<1> QED BY <1>1, <1>2, <1>3, <1>4, <1>8, <1>t, <1>10, AwayTyped, PublishStep

(* The verdict on a fault is one that may follow, and is true.              *)
LEMMA VerdictFits ==
    ASSUME NEW l \in Launches, NEW j \in Seq(LaunchEvents), j # <<>>, Stepping(j),
           NEW c, CauseFits(j, c, launchTurn[l]),
           launchTurn[l] # "none" => Len(j) >= 8,
           Len(j) = 9 => launchTurn[l] \notin {"none", "rejected"}
    PROVE  /\ VerdictOn(j, c) \in Verdicts
           /\ MayFollow(j, VerdictOn(j, c)) /\ Truth(l, VerdictOn(j, c))
<1>1. Len(j) \in 1 .. 9 /\ Last(j) = LaunchSteps[Len(j)] /\ ~Final(Last(j))
  BY SteppingLast
<1>2. Last(j) \notin Verdicts \cup {"receipt"}
  BY <1>1 DEF Final
<1>3. /\ Last(j) = "turn_started" <=> Len(j) = 9
      /\ Last(j) = "version_probe_pending" <=> Len(j) = 2
      /\ Last(j) \in StartsPending <=> Len(j) \in {2, 4, 6, 8}
  BY <1>1, StepFacts
<1>4. c \in {"error", "callback", "rejected", "rerouted"}
  BY DEF CauseFits
<1>5. CASE c = "callback"
  <2>1. VerdictOn(j, c) = "failed"
    BY <1>5 DEF VerdictOn
  <2>2. Len(j) \in {1, 3}
    BY <1>5 DEF CauseFits
  <2>3. \A n \in 1 .. 9 : n \in {1, 3} => n # 2 /\ ~(n >= 8)
    OBVIOUS
  <2>4. Len(j) # 2 /\ ~(Len(j) >= 8)
    BY <1>1, <2>2, <2>3
  <2> QED BY <1>2, <1>3, <2>1, <2>4 DEF MayFollow, Truth, Verdicts
<1>6. CASE c = "rerouted"
  <2>1. VerdictOn(j, c) = "failed"
    BY <1>6 DEF VerdictOn
  <2>2. Len(j) \in {6, 8, 9} /\ launchTurn[l] \in {"none", "rerouted"}
    BY <1>6 DEF CauseFits
  <2>3. \A n \in 1 .. 9 : n \in {6, 8, 9} => n # 2
    OBVIOUS
  <2>4. Len(j) # 2
    BY <1>1, <2>2, <2>3
  <2> QED BY <1>2, <1>3, <2>1, <2>2, <2>4 DEF MayFollow, Truth, Verdicts
<1>7. CASE c = "rejected"
  <2>2. Len(j) \in {6, 8} /\ launchTurn[l] \in {"none", "rejected"}
    BY <1>7 DEF CauseFits
  <2>3. \A n \in 1 .. 9 : n \in {6, 8} => n # 2 /\ n # 9
    OBVIOUS
  <2>4. Len(j) # 2 /\ Len(j) # 9
    BY <1>1, <2>2, <2>3
  <2>1. VerdictOn(j, c) = "failed"
    BY <1>3, <1>7, <2>4 DEF VerdictOn
  <2> QED BY <1>2, <1>3, <2>1, <2>2, <2>4 DEF MayFollow, Truth, Verdicts
<1>8. CASE c = "error" /\ Len(j) \in {2, 4, 6, 8}
  <2>1. VerdictOn(j, c) = "launch_unknown"
    BY <1>3, <1>8 DEF VerdictOn
  <2> QED BY <1>2, <1>3, <1>8, <2>1 DEF MayFollow, Truth, Verdicts
<1>9. CASE c = "error" /\ Len(j) = 9
  <2>1. VerdictOn(j, c) = "runtime_unknown"
    <3>1. Len(j) \notin {2, 4, 6, 8}
      BY <1>9
    <3> QED BY <1>3, <1>9, <3>1 DEF VerdictOn
  <2> QED BY <1>2, <1>3, <1>9, <2>1 DEF MayFollow, Truth, Verdicts
<1>10. CASE c = "error" /\ Len(j) \notin {2, 4, 6, 8} /\ Len(j) # 9
  <2>1. VerdictOn(j, c) = "failed"
    BY <1>3, <1>10 DEF VerdictOn
  <2>2. \A n \in 1 .. 9 : n # 9 /\ n \notin {2, 4, 6, 8} => ~(n >= 8) /\ n # 2
    OBVIOUS
  <2>3. ~(Len(j) >= 8) /\ Len(j) # 2
    BY <1>1, <1>10, <2>2
  <2> QED BY <1>2, <1>3, <2>1, <2>3 DEF MayFollow, Truth, Verdicts
<1> QED BY <1>4, <1>5, <1>6, <1>7, <1>8, <1>9, <1>10

LEMMA TerminalizeKeeps ==
    ASSUME TransportInv, NEW r \in Runners, Terminalize(r)
    PROVE  TransportInv'
<1> DEFINE l == launchRun[r].launch
           j == launchRun[r].journal
           e == VerdictOn(j, launchRun[r].cause)
           good == Going(r, "receipt", Append(j, e), "none")
<1>1. launchRun[r].at = "fault" /\ Publishes(r, j, e, good, RunnerAway)
  BY DEF Terminalize
<1>2. /\ l \in Launches /\ j \in Seq(LaunchEvents) /\ launchRecorded[l] \in Seq(LaunchEvents)
      /\ Fits(launchRun[r], launchRecorded[l], launchObjects[l], launchDid[l], launchTurn[l])
      /\ Undisturbed => Unrecorded(l) = {}
      /\ ObjectsOf(launchRecorded[l]) \subseteq launchObjects[l]
      /\ \A o \in launchObjects[l] : Truth(l, o[2])
      /\ launchTurn[l] # "none" => Len(launchRecorded[l]) >= 8
  BY <1>1, WorkFacts
<1>3. /\ launchRecorded[l] # <<>> /\ Stepping(launchRecorded[l])
      /\ launchRecorded[l] = j => CauseFits(j, launchRun[r].cause, launchTurn[l])
  BY <1>1, <1>2 DEF Fits
<1>e. e \in {"failed", "launch_unknown", "runtime_unknown"}
  BY DEF VerdictOn
<1>4. /\ e \in Verdicts /\ e \in LaunchEvents /\ Final(e)
  BY <1>e, EventsFacts DEF Verdicts, Final
<1>5. /\ Append(j, e) \in Seq(LaunchEvents) /\ Append(j, e) # <<>> /\ Last(Append(j, e)) = e
  BY <1>2, <1>4, JournalParts
<1>6. launchRecorded[l] = j => MayFollow(j, e) /\ Truth(l, e)
  <2> SUFFICES ASSUME launchRecorded[l] = j PROVE MayFollow(j, e) /\ Truth(l, e)
    OBVIOUS
  <2>1. ASSUME Len(j) = 9 PROVE launchTurn[l] \notin {"none", "rejected"}
    <3>1. <<9, "turn_started">> \in launchObjects[l]
      BY <1>2, <1>3, <2>1, StartedObject
    <3>2. Truth(l, <<9, "turn_started">>[2])
      BY <1>2, <3>1
    <3>3. <<9, "turn_started">>[2] = "turn_started"
      OBVIOUS
    <3> QED BY <3>2, <3>3 DEF Truth
  <2>2. /\ j # <<>> /\ Stepping(j) /\ CauseFits(j, launchRun[r].cause, launchTurn[l])
        /\ launchTurn[l] # "none" => Len(j) >= 8
    BY <1>2, <1>3
  <2> QED BY <1>2, <2>1, <2>2, VerdictFits
<1>8. l = launchRun[r].launch /\ j = launchRun[r].journal
  OBVIOUS
<1>7. /\ good \in Positions /\ good.at = "receipt" /\ good.launch = l
      /\ good.journal = Append(j, e)
  <2> HIDE DEF l, j, e
  <2>1. \A k \in Seq(LaunchEvents) :
           /\ Going(r, "receipt", k, "none") \in Positions
           /\ Going(r, "receipt", k, "none").at = "receipt" /\ Going(r, "receipt", k, "none").launch = l
           /\ Going(r, "receipt", k, "none").journal = k
    <3> SUFFICES ASSUME NEW k \in Seq(LaunchEvents)
                 PROVE  /\ Going(r, "receipt", k, "none") \in Positions
                        /\ Going(r, "receipt", k, "none").at = "receipt"
                        /\ Going(r, "receipt", k, "none").launch = l
                        /\ Going(r, "receipt", k, "none").journal = k
      OBVIOUS
    <3>1. "receipt" \in Stages \ {"away"} /\ "none" \in Causes /\ launchRun[r].launch = l
      BY <1>8, StageFacts
    <3> QED BY <1>2, <3>1, GoingTyped
  <2> QED BY <1>5, <2>1
<1> HIDE DEF l, j, e, good
<1>9. Held(good, Append(j, e), launchObjects[l] \cup {<<Len(j) + 1, e>>},
           launchDid[l], launchTurn[l])
  BY <1>4, <1>5, <1>7 DEF Held, Fits
<1>10. Shaped(Append(j, e))
  BY <1>4, <1>5 DEF Shaped
<1>11. launchRecorded[l] = j => NextObject(l, <<Len(j) + 1, e>>)
  BY <1>3, <1>6 DEF NextObject, Recorded
<1>12. launchRun[r].launch = l /\ good.at # "away" /\ launchRun[r].at \notin {"away", "load"}
  BY <1>1, <1>7, <1>8
<1>13. launchRecorded[l] = j => j # <<>>
  BY <1>3
<1>14. Publishable(l, j, e, good)
  BY <1>2, <1>6, <1>9, <1>10, <1>11, <1>13 DEF Publishable
<1> QED BY <1>1, <1>2, <1>4, <1>7, <1>12, <1>14, PublishOrLeave

LEMMA DisagreesKeeps ==
    ASSUME TransportInv, NEW r \in Runners, Disagrees(r)
    PROVE  TransportInv'
<1> DEFINE l == launchRun[r].launch
           j == launchRun[r].journal
           x == Going(r, "fault", j, "error")
<1>1. /\ launchRun[r].at = "step" /\ Becomes(r, x) /\ NothingWritten /\ Outside
  BY DEF Disagrees
<1>2. /\ l \in Launches /\ j \in Seq(LaunchEvents)
      /\ Fits(launchRun[r], launchRecorded[l], launchObjects[l], launchDid[l], launchTurn[l])
  BY <1>1, WorkFacts
<1>3. launchRecorded[l] = j /\ j # <<>> /\ Stepping(j) /\ Unfinal(launchObjects[l])
  BY <1>1, <1>2 DEF Fits
<1>4. l = launchRun[r].launch
  OBVIOUS
<1>5. x \in Positions /\ x.at = "fault" /\ x.launch = l /\ x.journal = j /\ x.cause = "error"
  BY <1>2, GoingTyped, StageFacts
<1> HIDE DEF l, j, x
<1>6. Fits(x, launchRecorded[l], launchObjects[l], launchDid[l], launchTurn[l])
  BY <1>3, <1>5 DEF Fits, CauseFits
<1>7. launchRun[r].at \notin {"away", "load"} /\ x.at # "away"
  BY <1>1, <1>5
<1> QED BY <1>1, <1>2, <1>4, <1>5, <1>6, <1>7, MoveKeeps

LEMMA RunnerKilledKeeps ==
    ASSUME TransportInv, NEW r \in Runners, RunnerKilled(r)
    PROVE  TransportInv'
<1>1. /\ launchRun[r].at \notin {"away", "load"} /\ Becomes(r, RunnerAway)
      /\ NothingWritten /\ Outside
  BY DEF RunnerKilled, Killed
<1>2. launchRun[r].launch \in Launches
  BY <1>1, WorkFacts
<1> QED BY <1>1, <1>2, AwayTyped, MoveKeeps


-----------------------------------------------------------------------------
(* Loading a launch *)

LEMMA AtMostOne ==
    ASSUME NEW S, IsFiniteSet(S)
    PROVE  Cardinality(S) <= 1 <=> \A a, b \in S : a = b
<1>1. Cardinality(S) \in Nat
  BY FS_CardinalityType
<1>2. ASSUME Cardinality(S) <= 1 PROVE \A a, b \in S : a = b
  <2>1. Cardinality(S) = 0 \/ Cardinality(S) = 1
    BY <1>1, <1>2
  <2>2. CASE Cardinality(S) = 0
    <3>1. S = {}
      BY <2>2, FS_EmptySet
    <3> QED BY <3>1
  <2>3. CASE Cardinality(S) = 1
    <3>1. \E x : S = {x}
      BY <2>3, FS_Singleton
    <3> QED BY <3>1
  <2> QED BY <2>1, <2>2, <2>3
<1>3. ASSUME \A a, b \in S : a = b PROVE Cardinality(S) <= 1
  <2>1. CASE S = {}
    <3>1. Cardinality(S) = 0
      BY <2>1, FS_EmptySet
    <3> QED BY <3>1
  <2>2. CASE S # {}
    <3>1. \E x : S = {x}
      BY <1>3, <2>2
    <3>2. Cardinality(S) = 1
      BY <3>1, FS_Singleton
    <3> QED BY <3>2
  <2> QED BY <2>1, <2>2
<1> QED BY <1>2, <1>3

(* What a launch is taken up for, when its objects are its journal.         *)
LEMMA TakenUpHeld ==
    ASSUME NEW r \in Runners, NEW l \in Launches, launchRun[r].launch = l,
           NEW j \in Seq(LaunchEvents), j # <<>>, Shaped(j),
           NEW x, x = TakenUp(r, j)
    PROVE  /\ x \in Positions
           /\ x = RunnerAway \/ (x.launch = l /\ x.at # "away")
           /\ \A objs, did, turn : objs \subseteq ObjectsOf(j) => Held(x, j, objs, did, turn)
<1>1. CASE Last(j) = "receipt"
  <2>1. x = RunnerAway
    BY <1>1 DEF TakenUp
  <2> QED BY <2>1, AwayTyped
<1>2. CASE Last(j) \in Verdicts
  <2>1. x = Going(r, "receipt", j, "none")
    <3>1. Last(j) # "receipt"
      BY <1>2, EventsFacts
    <3> QED BY <1>2, <3>1 DEF TakenUp
  <2>2. /\ x \in Positions /\ x.at = "receipt" /\ x.launch = l /\ x.journal = j
    BY <2>1, GoingTyped, StageFacts
  <2> QED BY <1>2, <2>2 DEF Held, Fits
<1>3. CASE ~Final(Last(j))
  <2>1. Stepping(j) /\ Last(j) # "receipt" /\ Last(j) \notin Verdicts
    BY <1>3 DEF Shaped, Final
  <2>2. Len(j) \in 1 .. 9 /\ Last(j) = LaunchSteps[Len(j)]
    BY <2>1, SteppingLast
  <2>3. \A objs : objs \subseteq ObjectsOf(j)
           => Unfinal(objs) /\ (Len(j) < 9 => Unstarted(objs))
    BY <2>1, SteppingObjects DEF Unfinal, Unstarted
  <2>4. CASE Last(j) = "reserved"
    <3>1. x = Going(r, "step", j, "none")
      BY <2>1, <2>4 DEF TakenUp
    <3>2. /\ x \in Positions /\ x.at = "step" /\ x.launch = l /\ x.journal = j
      BY <3>1, GoingTyped, StageFacts
    <3>3. Len(j) = 1
      BY <2>2, <2>4, StepFacts
    <3>4. Len(j) < 9 /\ Len(j) \in {1, 3, 5, 7}
      BY <3>3
    <3> QED BY <2>1, <2>3, <3>2, <3>4 DEF Held, Fits
  <2>5. CASE Last(j) # "reserved"
    <3>1. x = Going(r, "fault", j, "error")
      BY <2>1, <2>5 DEF TakenUp
    <3>2. /\ x \in Positions /\ x.at = "fault" /\ x.launch = l /\ x.journal = j
          /\ x.cause = "error"
      BY <3>1, GoingTyped, StageFacts
    <3>3. \A turn : CauseFits(j, "error", turn)
      BY DEF CauseFits
    <3> QED BY <2>1, <2>3, <3>2, <3>3 DEF Held, Fits
  <2> QED BY <2>4, <2>5
<1> QED BY <1>1, <1>2, <1>3 DEF Final

LEMMA LoadKeeps ==
    ASSUME TransportInv, NEW r \in Runners, LoadLaunch(r)
    PROVE  TransportInv'
<1>l. PICK l : l = launchRun[r].launch
  OBVIOUS
<1>j. PICK j : j = launchRecorded[l]
  OBVIOUS
<1>1. launchRun[r].at = "load"
  BY DEF LoadLaunch
<1>i. LaunchTyped /\ RunnersApart /\ OneReserved /\ ObjectsTrue
  BY DEF TransportInv, LaunchInv
<1>2. l \in Launches
  <2>1. launchRun[r] \in Positions
    BY <1>i DEF LaunchTyped
  <2> QED BY <1>1, <1>i, <1>l, <2>1 DEF Positions, RunnersApart
<1>3. /\ j \in Seq(LaunchEvents) /\ launchObjects[l] \in SUBSET (Nat \X LaunchEvents)
      /\ IsFiniteSet(launchObjects[l])
  BY <1>i, <1>j, <1>2 DEF LaunchTyped
<1>4. /\ ObjectsOf(j) \subseteq launchObjects[l]
      /\ \A o \in launchObjects[l] : Truth(l, o[2])
      /\ Shaped(j)
      /\ j = <<>> => launchObjects[l] \subseteq {<<1, "reserved">>}
  BY <1>i, <1>j, <1>2 DEF ObjectsTrue, OneReserved, Recorded
<1>5. Recorded(l) = j /\ Unrecorded(l) = launchObjects[l] \ ObjectsOf(j)
  BY <1>j DEF Recorded, Unrecorded
<1>u. IsFiniteSet(Unrecorded(l))
  BY <1>3, <1>5, FS_Subset
<1>6. ASSUME NEW e \in LaunchEvents,
             Publishes(r, j, e, TakenUp(r, Append(j, e)), RunnerAway),
             Truth(l, e), Shaped(Append(j, e)),
             j = <<>> => e = "reserved" /\ launchIssued[l].head = Len(launchChain),
             NextObject(l, <<Len(j) + 1, e>>),
             \A o \in Unrecorded(l) : o = <<Len(j) + 1, e>>
      PROVE  TransportInv'
  <2>1. /\ Append(j, e) \in Seq(LaunchEvents) /\ Append(j, e) # <<>>
        /\ ObjectsOf(Append(j, e)) = ObjectsOf(j) \cup {<<Len(j) + 1, e>>}
    BY <1>3, JournalParts, ObjectsGrow
  <2>2. launchObjects[l] \cup {<<Len(j) + 1, e>>} \subseteq ObjectsOf(Append(j, e))
    BY <1>5, <1>6, <2>1
  <2>x. PICK x : x = TakenUp(r, Append(j, e))
    OBVIOUS
  <2>3. /\ x \in Positions
        /\ x = RunnerAway \/ (x.launch = l /\ x.at # "away")
        /\ Held(x, Append(j, e), launchObjects[l] \cup {<<Len(j) + 1, e>>},
                launchDid[l], launchTurn[l])
    <3>k. PICK k : k = Append(j, e)
      OBVIOUS
    <3>1. /\ launchRun[r].launch = l /\ Shaped(k) /\ k \in Seq(LaunchEvents) /\ k # <<>>
          /\ x = TakenUp(r, k)
      BY <1>l, <1>6, <2>1, <2>x, <3>k
    <3>2. /\ x \in Positions
          /\ x = RunnerAway \/ (x.launch = l /\ x.at # "away")
          /\ \A objs, did, turn : objs \subseteq ObjectsOf(k) => Held(x, k, objs, did, turn)
      BY <1>2, <3>1, TakenUpHeld
    <3>3. launchObjects[l] \cup {<<Len(j) + 1, e>>} \subseteq ObjectsOf(k)
      BY <2>2, <3>k
    <3>4. Held(x, k, launchObjects[l] \cup {<<Len(j) + 1, e>>}, launchDid[l], launchTurn[l])
      BY <3>2, <3>3
    <3> QED BY <3>k, <3>2, <3>4
  <2>4. Publishes(r, j, e, x, RunnerAway) /\ launchRun[r].launch = l
    BY <1>6, <1>l, <2>x
  <2>5. Publishable(l, j, e, x)
    BY <1>6, <2>3 DEF Publishable
  <2> QED BY <1>2, <1>3, <1>6, <2>3, <2>4, <2>5, PublishOrLeave
<1>7. CASE j = <<>> /\ Reservable(l)
           /\ Publishes(r, j, "reserved", TakenUp(r, Append(j, "reserved")), RunnerAway)
  <2>1. "reserved" \in LaunchEvents /\ ~Final("reserved")
    BY EventsFacts
  <2>2. launchIssued[l].head = Len(launchChain)
    BY <1>7 DEF Reservable
  <2>3. Len(j) + 1 = 1
    BY <1>7
  <2>4. Shaped(Append(j, "reserved"))
    BY <1>3, <1>4, <1>7, <2>1, ShapedGrows
  <2>5. \A o \in Unrecorded(l) : o = <<Len(j) + 1, "reserved">>
    BY <1>4, <1>5, <1>7, <2>3
  <2>6. NextObject(l, <<Len(j) + 1, "reserved">>)
    BY <1>5, <1>7 DEF NextObject
  <2>7. Truth(l, "reserved")
    BY DEF Truth
  <2> QED BY <1>6, <1>7, <2>1, <2>2, <2>4, <2>5, <2>6, <2>7
<1>8. ASSUME Loadable(l), NEW o \in Unrecorded(l),
             Publishes(r, j, o[2], TakenUp(r, Append(j, o[2])), RunnerAway)
      PROVE  TransportInv'
  <2>1. j # <<>> /\ Cardinality(Unrecorded(l)) <= 1
        /\ o[1] = Len(j) + 1 /\ MayFollow(j, o[2])
    BY <1>5, <1>8 DEF Loadable
  <2>2. \A a, b \in Unrecorded(l) : a = b
    BY <1>u, <2>1, AtMostOne
  <2>3. o \in launchObjects[l] /\ o \in Nat \X LaunchEvents
    BY <1>3, <1>5
  <2>4. o[2] \in LaunchEvents /\ o = <<Len(j) + 1, o[2]>>
    BY <2>1, <2>3
  <2>5. Truth(l, o[2])
    BY <1>4, <2>3
  <2>6. Shaped(Append(j, o[2]))
    BY <1>3, <1>4, <2>1, <2>4, ShapedGrows
  <2>7. NextObject(l, <<Len(j) + 1, o[2]>>)
    BY <1>5, <2>1 DEF NextObject
  <2>8. \A p \in Unrecorded(l) : p = <<Len(j) + 1, o[2]>>
    BY <2>2, <2>4
  <2> QED BY <1>6, <1>8, <2>1, <2>4, <2>5, <2>6, <2>7, <2>8
<1>9. CASE /\ Loadable(l) /\ Unrecorded(l) = {} /\ Becomes(r, TakenUp(r, j))
           /\ NothingWritten /\ Outside
  <2>1. j # <<>> /\ launchObjects[l] \subseteq ObjectsOf(j)
    BY <1>5, <1>9 DEF Loadable
  <2>x. PICK x : x = TakenUp(r, j)
    OBVIOUS
  <2>3. /\ x \in Positions
        /\ x = RunnerAway \/ (x.launch = l /\ x.at # "away")
        /\ Held(x, j, launchObjects[l], launchDid[l], launchTurn[l])
    <3>1. launchRun[r].launch = l /\ Shaped(j) /\ j \in Seq(LaunchEvents)
      BY <1>l, <1>3, <1>4
    <3>2. /\ x \in Positions
          /\ x = RunnerAway \/ (x.launch = l /\ x.at # "away")
          /\ \A objs, did, turn : objs \subseteq ObjectsOf(j) => Held(x, j, objs, did, turn)
      BY <1>2, <2>1, <2>x, <3>1, TakenUpHeld
    <3> QED BY <2>1, <3>2
  <2>4. /\ Becomes(r, x) /\ launchRun[r].launch = l /\ Unrecorded(l) = {}
        /\ NothingWritten /\ Outside
    BY <1>9, <1>l, <2>x
  <2>5. \/ x.at \in {"away", "load"}
        \/ Fits(x, launchRecorded[l], launchObjects[l], launchDid[l], launchTurn[l])
    BY <1>j, <2>3 DEF Held
  <2> QED BY <1>2, <2>3, <2>4, <2>5, MoveKeeps
<1>10. CASE Becomes(r, RunnerAway) /\ NothingWritten /\ Outside
  BY <1>2, <1>l, <1>10, AwayTyped, MoveKeeps
<1>11. \/ j = <<>> /\ Reservable(l)
          /\ Publishes(r, j, "reserved", TakenUp(r, Append(j, "reserved")), RunnerAway)
       \/ Loadable(l) /\ \E o \in Unrecorded(l) :
             Publishes(r, j, o[2], TakenUp(r, Append(j, o[2])), RunnerAway)
       \/ /\ Loadable(l) /\ Unrecorded(l) = {} /\ Becomes(r, TakenUp(r, j))
          /\ NothingWritten /\ Outside
       \/ Becomes(r, RunnerAway) /\ NothingWritten /\ Outside
  BY <1>l, <1>j DEF LoadLaunch, Recorded
<1> QED BY <1>7, <1>8, <1>9, <1>10, <1>11


-----------------------------------------------------------------------------
(* The steps that leave the launches' objects and events alone              *)

LEMMA AsideKeeps ==
    ASSUME TransportInv,
           launchChain' = launchChain, launchRecorded' = launchRecorded,
           launchObjects' = launchObjects, launchBound' = launchBound,
           launchIssued' = launchIssued, launchDid' = launchDid, launchTurn' = launchTurn,
           launchTorn' = launchTorn, launchChief' \in [epoch : Nat, live : BOOLEAN],
           launchRun' \in [Runners -> Positions], RunnersApart',
           \A q \in Runners : launchRun'[q] = launchRun[q] \/ launchRun'[q].at \in {"away", "load"}
    PROVE  TransportInv'
<1>i. /\ LaunchTyped /\ RunnersApart /\ OneReserved /\ ObjectsTrue /\ DoneOnRecord
      /\ \A q \in Runners : Placed(q)
  BY DEF TransportInv, LaunchInv
<1>v. /\ BoundToObjects /\ BoundBefore
      /\ Undisturbed => OneUnrecorded /\ PendingFirst /\ NothingLeft
  BY DEF TransportInv, RecoveryInv
<1>1. LaunchTyped'
  <2>1. LaunchTyped
    BY <1>i
  <2> QED BY <2>1 DEF LaunchTyped
<1>2. OneReserved' /\ ObjectsTrue' /\ DoneOnRecord'
  BY <1>i DEF OneReserved, ObjectsTrue, DoneOnRecord, Truth, Recorded
<1>3. ASSUME NEW q \in Runners PROVE Placed(q)'
  <2>1. CASE launchRun'[q].at \in {"away", "load"}
    BY <2>1 DEF Placed
  <2>2. CASE launchRun'[q] = launchRun[q]
    <3>1. Placed(q)
      BY <1>i
    <3> QED BY <2>2, <3>1 DEF Placed, Recorded
  <2> QED BY <2>1, <2>2
<1>4. LaunchInv'
  BY <1>1, <1>2, <1>3 DEF LaunchInv
<1>5. PendingBindings' = PendingBindings /\ (Overtaken' <=> Overtaken)
  BY PendingSame
<1>6. BoundToObjects' /\ BoundBefore'
  BY <1>v DEF BoundToObjects, BoundBefore
<1>7. ASSUME Undisturbed' PROVE OneUnrecorded' /\ PendingFirst' /\ NothingLeft'
  <2>1. Undisturbed
    BY <1>5, <1>7 DEF Undisturbed
  <2>2. OneUnrecorded /\ PendingFirst /\ NothingLeft
    BY <1>v, <2>1
  <2>3. OneUnrecorded'
    BY <2>2 DEF OneUnrecorded, NextObject, Unrecorded, Recorded
  <2>4. PendingFirst'
    BY <2>2, <1>5 DEF PendingFirst, Recorded
  <2>5. NothingLeft'
    BY <2>2 DEF NothingLeft, Unrecorded, Recorded
  <2> QED BY <2>3, <2>4, <2>5
<1> QED BY <1>4, <1>6, <1>7 DEF RecoveryInv, TransportInv

LEMMA EnterKeeps ==
    ASSUME TransportInv, NEW r \in Runners, NEW l \in Launches, EnterLaunch(r, l)
    PROVE  TransportInv'
<1> DEFINE x == [at |-> "load", launch |-> l, journal |-> <<>>, cause |-> "none"]
<1>i. LaunchTyped /\ RunnersApart
  BY DEF TransportInv, LaunchInv
<1>1. /\ launchRun[r] = RunnerAway /\ launchIssued[l] # NoLaunch
      /\ \A q \in Runners : launchRun[q].launch # l
      /\ launchRun' = [launchRun EXCEPT ![r] = x]
      /\ launchChain' = launchChain /\ launchRecorded' = launchRecorded
      /\ launchObjects' = launchObjects /\ launchBound' = launchBound
      /\ launchIssued' = launchIssued /\ launchChief' = launchChief
      /\ launchDid' = launchDid /\ launchTurn' = launchTurn /\ launchTorn' = launchTorn
  BY DEF EnterLaunch, Becomes, NothingWritten, Outside, TaskChain
<1>2. x \in Positions /\ x.at = "load" /\ x.launch = l
  <2>1. <<>> \in Seq(LaunchEvents)
    OBVIOUS
  <2>2. "load" \in Stages /\ "none" \in Causes
    BY StageFacts
  <2> QED BY <2>1, <2>2 DEF Positions
<1> HIDE DEF x
<1>3. /\ launchRun' \in [Runners -> Positions] /\ launchRun'[r] = x
      /\ \A q \in Runners \ {r} : launchRun'[q] = launchRun[q]
  BY <1>i, <1>1, <1>2 DEF LaunchTyped
<1>4. l # NoLaunch
  BY LaunchAssumption
<1>5. RunnersApart'
  <2>1. \A q \in Runners : (launchRun'[q].at = "away") <=> (launchRun'[q].launch = NoLaunch)
    BY <1>i, <1>2, <1>3, <1>4 DEF RunnersApart
  <2>2. ASSUME NEW p \in Runners, NEW q \in Runners, p # q, launchRun'[p].launch # NoLaunch
        PROVE  launchRun'[q].launch # launchRun'[p].launch
    <3>1. CASE p = r \/ q = r
      BY <1>1, <1>2, <1>3, <2>2, <3>1
    <3>2. CASE p # r /\ q # r
      BY <1>i, <1>3, <2>2, <3>2 DEF RunnersApart
    <3> QED BY <3>1, <3>2
  <2>3. \A q \in Runners : launchRun'[q].launch \in Launches
           => launchIssued'[launchRun'[q].launch] # NoLaunch
    BY <1>i, <1>1, <1>2, <1>3 DEF RunnersApart
  <2> QED BY <2>1, <2>2, <2>3 DEF RunnersApart
<1>6. launchChief' \in [epoch : Nat, live : BOOLEAN]
  BY <1>i, <1>1 DEF LaunchTyped
<1>7. \A q \in Runners : launchRun'[q] = launchRun[q] \/ launchRun'[q].at \in {"away", "load"}
  BY <1>2, <1>3
<1> QED BY <1>1, <1>3, <1>5, <1>6, <1>7, AsideKeeps

LEMMA ChiefKeeps ==
    ASSUME TransportInv,
           ChiefReleases \/ ChiefAcquires \/ LaunchExpires \/ UNCHANGED launchVars
    PROVE  TransportInv'
<1>i. LaunchTyped /\ RunnersApart
  BY DEF TransportInv, LaunchInv
<1>1. /\ launchChain' = launchChain /\ launchRecorded' = launchRecorded
      /\ launchObjects' = launchObjects /\ launchBound' = launchBound
      /\ launchIssued' = launchIssued /\ launchRun' = launchRun
      /\ launchDid' = launchDid /\ launchTurn' = launchTurn /\ launchTorn' = launchTorn
  BY DEF ChiefReleases, ChiefAcquires, LaunchExpires, launchVars, TaskChain
<1>2. launchChief \in [epoch : Nat, live : BOOLEAN]
  BY <1>i DEF LaunchTyped
<1>3. launchChief' \in [epoch : Nat, live : BOOLEAN]
  <2>1. CASE ChiefReleases
    BY <1>2, <2>1 DEF ChiefReleases
  <2>2. CASE ChiefAcquires
    BY <1>2, <2>2 DEF ChiefAcquires
  <2>3. CASE LaunchExpires \/ UNCHANGED launchVars
    BY <1>2, <2>3 DEF LaunchExpires, launchVars
  <2> QED BY <2>1, <2>2, <2>3
<1>4. launchRun' \in [Runners -> Positions] /\ RunnersApart'
  BY <1>i, <1>1 DEF LaunchTyped, RunnersApart
<1>5. \A q \in Runners : launchRun'[q] = launchRun[q] \/ launchRun'[q].at \in {"away", "load"}
  BY <1>1
<1> QED BY <1>1, <1>3, <1>4, <1>5, AsideKeeps

LEMMA OtherEventKeeps ==
    ASSUME TransportInv, OtherEvent
    PROVE  TransportInv'
<1> DEFINE ev == [launch |-> NoLaunch, event |-> "other"]
<1>i. /\ LaunchTyped /\ RunnersApart /\ OneReserved /\ ObjectsTrue /\ DoneOnRecord
      /\ \A q \in Runners : Placed(q)
  BY DEF TransportInv, LaunchInv
<1>v. /\ BoundToObjects /\ BoundBefore
      /\ Undisturbed => OneUnrecorded /\ PendingFirst /\ NothingLeft
  BY DEF TransportInv, RecoveryInv
<1>1. /\ launchChain' = Append(launchChain, ev) /\ launchRecorded' = launchRecorded
      /\ launchObjects' = launchObjects /\ launchBound' = launchBound
      /\ launchIssued' = launchIssued /\ launchRun' = launchRun /\ launchChief' = launchChief
      /\ launchDid' = launchDid /\ launchTurn' = launchTurn /\ launchTorn' = launchTorn
  BY DEF OtherEvent
<1>2. ev \in [launch : Launches \cup {NoLaunch}, event : LaunchEvents \cup {"other"}]
  OBVIOUS
<1> HIDE DEF ev
<1>3. /\ launchChain \in Seq([launch : Launches \cup {NoLaunch}, event : LaunchEvents \cup {"other"}])
      /\ launchIssued \in [Launches -> Markers \cup {NoLaunch}] /\ launchBound \in SUBSET Bindings
  BY <1>i DEF LaunchTyped
<1>4. /\ launchChain' \in Seq([launch : Launches \cup {NoLaunch}, event : LaunchEvents \cup {"other"}])
      /\ Len(launchChain) \in Nat /\ Len(launchChain') = Len(launchChain) + 1
      /\ \A i \in DOMAIN launchChain : i \in DOMAIN launchChain' /\ launchChain'[i] = launchChain[i]
  <2>1. /\ Append(launchChain, ev) \in
             Seq([launch : Launches \cup {NoLaunch}, event : LaunchEvents \cup {"other"}])
        /\ Len(launchChain) \in Nat /\ Len(Append(launchChain, ev)) = Len(launchChain) + 1
        /\ DOMAIN launchChain = 1 .. Len(launchChain)
        /\ DOMAIN Append(launchChain, ev) = 1 .. Len(launchChain) + 1
        /\ \A i \in 1 .. Len(launchChain) : Append(launchChain, ev)[i] = launchChain[i]
    BY <1>2, <1>3
  <2> QED BY <1>1, <2>1
<1>5. LaunchTyped'
  <2>1. LaunchTyped
    BY <1>i
  <2> QED BY <1>1, <1>4, <2>1 DEF LaunchTyped
<1>6. RunnersApart' /\ ObjectsTrue' /\ DoneOnRecord'
  BY <1>i, <1>1 DEF RunnersApart, ObjectsTrue, DoneOnRecord, Truth, Recorded
<1>7. \A q \in Runners : Placed(q)'
  BY <1>i, <1>1 DEF Placed, Recorded
<1>8. OneReserved'
  <2>1. \A k \in Launches : launchIssued[k] # NoLaunch => launchIssued[k].head \in Nat
    BY <1>3 DEF Markers
  <2>2. \A n \in Nat : /\ n <= Len(launchChain) => n <= Len(launchChain')
                       /\ n < Len(launchChain) => n < Len(launchChain')
    BY <1>4
  <2> SUFFICES ASSUME NEW k \in Launches
               PROVE  /\ launchIssued[k] = NoLaunch => launchObjects[k] = {} /\ launchRecorded[k] = <<>>
                      /\ launchRecorded[k] = <<>> => launchObjects[k] \subseteq {<<1, "reserved">>}
                      /\ launchIssued[k] # NoLaunch => launchIssued[k].head <= Len(launchChain')
                      /\ launchRecorded[k] # <<>> =>
                            /\ \E i \in DOMAIN launchChain' : launchChain'[i].event = "reserved"
                            /\ \A m \in Launches \ {k} :
                                  /\ launchRecorded[m] = <<>>
                                  /\ launchIssued[m] # NoLaunch
                                        => launchIssued[m].head < Len(launchChain')
    BY <1>1 DEF OneReserved, Recorded
  <2>3. /\ launchIssued[k] = NoLaunch => launchObjects[k] = {} /\ launchRecorded[k] = <<>>
        /\ launchRecorded[k] = <<>> => launchObjects[k] \subseteq {<<1, "reserved">>}
        /\ launchIssued[k] # NoLaunch => launchIssued[k].head <= Len(launchChain)
    BY <1>i DEF OneReserved, Recorded
  <2>4. launchRecorded[k] # <<>> =>
           /\ \E i \in DOMAIN launchChain : launchChain[i].event = "reserved"
           /\ \A m \in Launches \ {k} :
                 /\ launchRecorded[m] = <<>>
                 /\ launchIssued[m] # NoLaunch => launchIssued[m].head < Len(launchChain)
    BY <1>i DEF OneReserved, Recorded
  <2>5. launchRecorded[k] # <<>>
           => \E i \in DOMAIN launchChain' : launchChain'[i].event = "reserved"
    BY <1>4, <2>4
  <2>6. launchRecorded[k] # <<>> => \A m \in Launches \ {k} :
           launchRecorded[m] = <<>>
           /\ (launchIssued[m] # NoLaunch => launchIssued[m].head < Len(launchChain'))
    BY <2>1, <2>2, <2>4
  <2> QED BY <2>1, <2>2, <2>3, <2>5, <2>6
<1>9. LaunchInv'
  BY <1>5, <1>6, <1>7, <1>8 DEF LaunchInv
<1>10. \A b \in launchBound' : b.head <= Len(launchChain)
  BY <1>v, <1>1 DEF BoundBefore
<1>11. /\ ~Overtaken' => PendingBindings' = {}
       /\ ~Overtaken' => ~Overtaken
       /\ BoundBefore'
  <2>1. launchBound \subseteq launchBound' /\ launchBound' \in SUBSET Bindings
    BY <1>1, <1>3
  <2>2. launchChain' = Append(launchChain, ev) /\ LaunchTyped /\ BoundBefore
    BY <1>1, <1>i, <1>v
  <2> QED BY <1>2, <1>10, <2>1, <2>2, PendingPassed
<1>12. BoundToObjects'
  BY <1>v, <1>1 DEF BoundToObjects
<1>13. ASSUME Undisturbed' PROVE OneUnrecorded' /\ PendingFirst' /\ NothingLeft'
  <2>1. Undisturbed /\ PendingBindings' = {}
    BY <1>1, <1>11, <1>13 DEF Undisturbed
  <2>2. OneUnrecorded /\ NothingLeft
    BY <1>v, <2>1
  <2>3. OneUnrecorded'
    BY <2>2, <1>1 DEF OneUnrecorded, NextObject, Unrecorded, Recorded
  <2>4. PendingFirst'
    BY <2>1 DEF PendingFirst
  <2>5. NothingLeft'
    BY <2>2, <1>1 DEF NothingLeft, Unrecorded, Recorded
  <2> QED BY <2>3, <2>4, <2>5
<1> QED BY <1>9, <1>11, <1>12, <1>13 DEF RecoveryInv, TransportInv

LEMMA IssueKeeps ==
    ASSUME TransportInv, NEW l \in Launches, IssueLaunch(l)
    PROVE  TransportInv'
<1> DEFINE p == <<1, "reserved">>
           mark == [head |-> Len(launchChain), epoch |-> launchChief.epoch]
<1>i. /\ LaunchTyped /\ RunnersApart /\ OneReserved /\ ObjectsTrue /\ DoneOnRecord
      /\ \A q \in Runners : Placed(q)
  BY DEF TransportInv, LaunchInv
<1>v. /\ BoundToObjects /\ BoundBefore
      /\ Undisturbed => OneUnrecorded /\ PendingFirst /\ NothingLeft
  BY DEF TransportInv, RecoveryInv
<1>1. /\ launchChain' = launchChain /\ launchRecorded' = launchRecorded
      /\ launchBound' = launchBound /\ launchRun' = launchRun /\ launchChief' = launchChief
      /\ launchDid' = launchDid /\ launchTurn' = launchTurn /\ launchTorn' = launchTorn
      /\ launchObjects' = [launchObjects EXCEPT ![l] = {p}]
      /\ launchIssued' = [launchIssued EXCEPT ![l] = mark]
      /\ launchIssued[l] = NoLaunch
      /\ \A i \in DOMAIN launchChain : launchChain[i].event # "reserved"
  BY DEF IssueLaunch, TaskChain
<1>t. /\ launchObjects \in [Launches -> SUBSET (Nat \X LaunchEvents)]
      /\ launchIssued \in [Launches -> Markers \cup {NoLaunch}]
      /\ launchChain \in Seq([launch : Launches \cup {NoLaunch}, event : LaunchEvents \cup {"other"}])
      /\ launchChief \in [epoch : Nat, live : BOOLEAN]
      /\ launchBound \in SUBSET Bindings
  BY <1>i DEF LaunchTyped
<1>2. mark \in Markers /\ mark.head = Len(launchChain) /\ mark # NoLaunch /\ Len(launchChain) \in Nat
  BY <1>t, LaunchAssumption DEF Markers
<1>3. p \in Nat \X LaunchEvents /\ p[1] = 1 /\ p[2] = "reserved"
  BY EventsFacts
<1> HIDE DEF p, mark
<1>4. /\ launchObjects' \in [Launches -> SUBSET (Nat \X LaunchEvents)] /\ launchObjects'[l] = {p}
      /\ \A m \in Launches \ {l} : launchObjects'[m] = launchObjects[m]
  BY <1>1, <1>t, <1>3
<1>5. /\ launchIssued' \in [Launches -> Markers \cup {NoLaunch}] /\ launchIssued'[l] = mark
      /\ \A m \in Launches \ {l} : launchIssued'[m] = launchIssued[m]
  BY <1>1, <1>t, <1>2
<1>6. \A k \in Launches : launchRecorded[k] = <<>>
  BY <1>1, <1>i DEF OneReserved, Recorded
<1>7. launchObjects[l] = {} /\ \A q \in Runners : launchRun[q].launch # l
  BY <1>1, <1>i DEF OneReserved, RunnersApart
<1>8. LaunchTyped'
  <2>1. LaunchTyped
    BY <1>i
  <2>2. \A m \in Launches : IsFiniteSet(launchObjects'[m])
    <3>1. IsFiniteSet({p})
      BY FS_Singleton
    <3>2. \A m \in Launches : IsFiniteSet(launchObjects[m])
      BY <2>1 DEF LaunchTyped
    <3> QED BY <1>4, <3>1, <3>2
  <2> QED BY <1>1, <1>4, <1>5, <2>1, <2>2 DEF LaunchTyped
<1>9. RunnersApart'
  <2>1. \A q \in Runners : launchRun[q].launch \in Launches
           => launchIssued'[launchRun[q].launch] # NoLaunch
    BY <1>i, <1>5, <1>7 DEF RunnersApart
  <2> QED BY <1>i, <1>1, <2>1 DEF RunnersApart
<1>10. OneReserved'
  <2>1. \A k \in Launches : launchIssued'[k] = NoLaunch => launchObjects'[k] = {}
    BY <1>i, <1>2, <1>4, <1>5 DEF OneReserved
  <2>2. \A k \in Launches : launchObjects'[k] \subseteq {<<1, "reserved">>}
    BY <1>i, <1>4, <1>6 DEF OneReserved, Recorded, p
  <2>3. \A k \in Launches : launchIssued'[k] # NoLaunch => launchIssued'[k].head <= Len(launchChain)
    BY <1>i, <1>2, <1>5 DEF OneReserved
  <2> QED BY <1>1, <1>6, <2>1, <2>2, <2>3 DEF OneReserved, Recorded
<1>11. ObjectsTrue'
  <2> SUFFICES ASSUME NEW k \in Launches
               PROVE  /\ ObjectsOf(launchRecorded[k]) \subseteq launchObjects'[k]
                      /\ \A o \in launchObjects'[k] : Truth(k, o[2])'
                      /\ Shaped(launchRecorded[k])
    BY <1>1 DEF ObjectsTrue, Recorded
  <2>1. /\ ObjectsOf(launchRecorded[k]) \subseteq launchObjects[k]
        /\ \A o \in launchObjects[k] : Truth(k, o[2])
        /\ Shaped(launchRecorded[k])
    BY <1>i DEF ObjectsTrue, Recorded
  <2>2. \A y : Truth(k, y) => Truth(k, y)'
    BY <1>1 DEF Truth
  <2>3. CASE k # l
    BY <1>4, <2>1, <2>2, <2>3
  <2>4. CASE k = l
    <3>1. ObjectsOf(launchRecorded[k]) = {}
      BY <1>7, <2>1, <2>4
    <3>2. Truth(k, p[2])'
      BY <1>3 DEF Truth
    <3> QED BY <1>4, <2>1, <2>4, <3>1, <3>2
  <2> QED BY <2>3, <2>4
<1>12. DoneOnRecord'
  BY <1>i, <1>1 DEF DoneOnRecord, Recorded
<1>13. ASSUME NEW q \in Runners PROVE Placed(q)'
  <2>1. \A m \in Launches \ {l} :
              /\ launchRecorded'[m] = launchRecorded[m] /\ launchObjects'[m] = launchObjects[m]
              /\ launchDid'[m] = launchDid[m] /\ launchTurn'[m] = launchTurn[m]
    BY <1>1, <1>4
  <2>2. launchRun'[q] = launchRun[q] /\ launchRun[q].launch # l /\ Placed(q)
    BY <1>i, <1>1, <1>7
  <2>3. LaunchTyped /\ RunnersApart
    BY <1>i
  <2> QED BY <2>1, <2>2, <2>3, OthersPlaced
<1>14. LaunchInv'
  BY <1>8, <1>9, <1>10, <1>11, <1>12, <1>13 DEF LaunchInv
<1>15. PendingBindings' = PendingBindings /\ (Overtaken' <=> Overtaken)
  BY <1>1, PendingSame
<1>16. BoundToObjects' /\ BoundBefore'
  <2>1. BoundBefore'
    BY <1>v, <1>1 DEF BoundBefore
  <2>2. ASSUME NEW b \in launchBound PROVE <<b.place, b.event>> \in launchObjects'[b.launch]
    <3>1. <<b.place, b.event>> \in launchObjects[b.launch] /\ b.launch \in Launches
      BY <1>v, <1>t DEF BoundToObjects, Bindings
    <3> QED BY <1>4, <1>7, <3>1
  <2> QED BY <1>1, <2>1, <2>2 DEF BoundToObjects
<1>17. ASSUME Undisturbed' PROVE OneUnrecorded' /\ PendingFirst' /\ NothingLeft'
  <2>1. Undisturbed
    BY <1>1, <1>15, <1>17 DEF Undisturbed
  <2>2. OneUnrecorded /\ PendingFirst /\ NothingLeft
    BY <1>v, <2>1
  <2>3. \A m \in Launches \ {l} : Unrecorded(m)' = Unrecorded(m)
    BY <1>1, <1>4 DEF Unrecorded, Recorded
  <2>4. Unrecorded(l)' \subseteq {p}
    BY <1>4 DEF Unrecorded
  <2>5. NextObject(l, p)'
    <3>1. Len(launchRecorded'[l]) + 1 = 1 /\ launchRecorded'[l] = <<>>
      BY <1>1, <1>6
    <3> QED BY <1>3, <3>1 DEF NextObject, Recorded
  <2>6. OneUnrecorded'
    <3> SUFFICES ASSUME NEW m \in Launches
                 PROVE  /\ \A o \in Unrecorded(m)' : NextObject(m, o)'
                        /\ \A o, oo \in Unrecorded(m)' : o = oo
      BY DEF OneUnrecorded
    <3>1. CASE m = l
      BY <2>4, <2>5, <3>1
    <3>2. CASE m # l
      <4>1. Unrecorded(m)' = Unrecorded(m) /\ \A o : NextObject(m, o) => NextObject(m, o)'
        BY <1>1, <2>3, <3>2 DEF NextObject, Recorded
      <4> QED BY <2>2, <4>1 DEF OneUnrecorded
    <3> QED BY <3>1, <3>2
  <2>7. PendingFirst'
    BY <2>2, <1>1, <1>15 DEF PendingFirst, Recorded
  <2>8. NothingLeft'
    <3> SUFFICES ASSUME NEW q \in Runners, launchRun[q].at \notin {"away", "load"},
                        NEW m, m = launchRun[q].launch
                 PROVE  Unrecorded(m)' = {}
      BY <1>1 DEF NothingLeft, Unrecorded, Recorded
    <3>1. launchRun[q] \in Positions
      BY <1>i DEF LaunchTyped
    <3>2. m \in Launches \ {l}
      BY <1>i, <1>7, <3>1 DEF Positions, RunnersApart
    <3> QED BY <2>2, <2>3, <3>2 DEF NothingLeft
  <2> QED BY <2>6, <2>7, <2>8
<1> QED BY <1>14, <1>16, <1>17 DEF RecoveryInv, TransportInv


-----------------------------------------------------------------------------
(* The invariant and what follows from it *)

LEMMA LaunchStep == TransportInv /\ [LaunchNext]_launchVars => TransportInv'
<1> SUFFICES ASSUME TransportInv, [LaunchNext]_launchVars PROVE TransportInv'
  OBVIOUS
<1>1. CASE \E l \in Launches : IssueLaunch(l)
  BY <1>1, IssueKeeps
<1>2. CASE ChiefReleases \/ ChiefAcquires \/ LaunchExpires \/ UNCHANGED launchVars
  BY <1>2, ChiefKeeps
<1>3. CASE OtherEvent
  BY <1>3, OtherEventKeeps
<1>4. ASSUME NEW r \in Runners,
             \/ \E l \in Launches : EnterLaunch(r, l)
             \/ LoadLaunch(r) \/ Attempt(r) \/ Effect(r) \/ Observe(r) \/ TurnEnds(r)
             \/ RecordEnd(r) \/ Disagrees(r) \/ Terminalize(r) \/ PublishReceipt(r)
             \/ RunnerKilled(r)
      PROVE  TransportInv'
  <2>1. CASE \E l \in Launches : EnterLaunch(r, l)
    BY <2>1, EnterKeeps
  <2>2. CASE LoadLaunch(r)
    BY <2>2, LoadKeeps
  <2>3. CASE Attempt(r)
    BY <2>3, AttemptKeeps
  <2>4. CASE Effect(r)
    BY <2>4, EffectKeeps
  <2>5. CASE Observe(r)
    BY <2>5, ObserveKeeps
  <2>6. CASE TurnEnds(r)
    BY <2>6, TurnEndsKeeps
  <2>7. CASE RecordEnd(r)
    BY <2>7, RecordEndKeeps
  <2>8. CASE Disagrees(r)
    BY <2>8, DisagreesKeeps
  <2>9. CASE Terminalize(r)
    BY <2>9, TerminalizeKeeps
  <2>10. CASE PublishReceipt(r)
    BY <2>10, PublishReceiptKeeps
  <2>11. CASE RunnerKilled(r)
    BY <2>11, RunnerKilledKeeps
  <2> QED BY <1>4, <2>1, <2>2, <2>3, <2>4, <2>5, <2>6, <2>7, <2>8, <2>9, <2>10, <2>11
<1> QED BY <1>1, <1>2, <1>3, <1>4 DEF LaunchNext

LEMMA LaunchStarts == LaunchInit => TransportInv
<1> SUFFICES ASSUME LaunchInit PROVE TransportInv
  OBVIOUS
<1>1. /\ launchChain = <<>> /\ launchBound = {}
      /\ launchRecorded = [l \in Launches |-> <<>>]
      /\ launchObjects = [l \in Launches |-> {}]
      /\ launchIssued = [l \in Launches |-> NoLaunch]
      /\ launchChief = [epoch |-> 1, live |-> TRUE]
      /\ launchRun = [r \in Runners |-> RunnerAway]
      /\ launchDid = [l \in Launches |-> [i \in Boundaries |-> 0]]
      /\ launchTurn = [l \in Launches |-> "none"] /\ launchTorn = {}
  BY DEF LaunchInit
<1>2. <<>> \in Seq(LaunchEvents) /\ Len(<<>>) = 0
      /\ <<>> \in Seq([launch : Launches \cup {NoLaunch}, event : LaunchEvents \cup {"other"}])
  OBVIOUS
<1>3. LaunchTyped
  <2>1. /\ launchChain \in Seq([launch : Launches \cup {NoLaunch}, event : LaunchEvents \cup {"other"}])
        /\ launchRecorded \in [Launches -> Seq(LaunchEvents)]
    BY <1>1, <1>2
  <2>2. \A l \in Launches : IsFiniteSet(launchObjects[l])
    BY <1>1, FS_EmptySet
  <2>3. launchRun \in [Runners -> Positions]
    BY <1>1, AwayTyped
  <2> QED BY <1>1, <2>1, <2>2, <2>3 DEF LaunchTyped
<1>4. RunnersApart
  BY <1>1, LaunchAssumption DEF RunnersApart, RunnerAway
<1>5. OneReserved
  BY <1>1 DEF OneReserved, Recorded
<1>6. ObjectsTrue
  <2>1. ObjectsOf(<<>>) = {}
    BY DEF ObjectsOf
  <2>2. Shaped(<<>>)
    BY FirstStep DEF Shaped
  <2> QED BY <1>1, <2>1, <2>2 DEF ObjectsTrue, Recorded
<1>7. DoneOnRecord
  BY <1>1 DEF DoneOnRecord
<1>8. \A r \in Runners : Placed(r)
  BY <1>1 DEF Placed, RunnerAway
<1>9. LaunchInv
  BY <1>3, <1>4, <1>5, <1>6, <1>7, <1>8 DEF LaunchInv
<1>10. BoundToObjects /\ BoundBefore /\ PendingBindings = {}
  BY <1>1 DEF BoundToObjects, BoundBefore, PendingBindings
<1>11. OneUnrecorded
  BY <1>1 DEF OneUnrecorded, Unrecorded
<1>12. PendingFirst
  BY <1>10 DEF PendingFirst
<1>13. NothingLeft
  BY <1>1 DEF NothingLeft, RunnerAway
<1> QED BY <1>9, <1>10, <1>11, <1>12, <1>13 DEF TransportInv, RecoveryInv

LEMMA LaunchInductive == LaunchSpec => []TransportInv
<1>1. LaunchInit => TransportInv
  BY LaunchStarts
<1>2. TransportInv /\ [LaunchNext]_launchVars => TransportInv'
  BY LaunchStep
<1> QED BY <1>1, <1>2, PTL DEF LaunchSpec

LEMMA SoundFromInv == TransportInv => LaunchesSound
<1> SUFFICES ASSUME TransportInv PROVE LaunchesSound
  OBVIOUS
<1>i. /\ LaunchTyped /\ RunnersApart /\ OneReserved /\ ObjectsTrue /\ DoneOnRecord
      /\ \A q \in Runners : Placed(q)
  BY DEF TransportInv, LaunchInv
<1>t. launchRecorded \in [Launches -> Seq(LaunchEvents)] /\ launchDid \in [Launches -> [Boundaries -> Nat]]
  BY <1>i DEF LaunchTyped
<1>1. StartedOnce
  <2> SUFFICES ASSUME NEW i \in Boundaries, NEW l \in Launches, launchDid[l][i] > 0
               PROVE  /\ launchDid[l][i] = 1
                      /\ \A m \in Launches \ {l} : launchDid[m][i] = 0
                      /\ Len(Recorded(l)) >= 2 * i /\ Recorded(l)[2 * i] = LaunchSteps[2 * i]
    BY DEF StartedOnce
  <2>1. /\ launchDid[l][i] = 1
        /\ Len(Recorded(l)) >= 2 * i /\ Recorded(l)[2 * i] = LaunchSteps[2 * i]
    BY <1>i DEF DoneOnRecord
  <2>2. i \in Nat /\ 2 * i > 0
    BY DEF Boundaries
  <2>3. \A m \in Launches : Len(Recorded(m)) >= 2 * i => Recorded(m) # <<>>
    <3> SUFFICES ASSUME NEW m \in Launches, Recorded(m) = <<>>, Len(Recorded(m)) >= 2 * i
                 PROVE  FALSE
      OBVIOUS
    <3>1. Len(Recorded(m)) = 0
      OBVIOUS
    <3> QED BY <2>2, <3>1
  <2>4. ASSUME NEW m \in Launches \ {l} PROVE launchDid[m][i] = 0
    <3>1. Recorded(m) = <<>>
      BY <1>i, <2>1, <2>3 DEF OneReserved
    <3>2. ~(launchDid[m][i] > 0)
      BY <1>i, <2>3, <3>1 DEF DoneOnRecord
    <3>3. launchDid[m][i] \in Nat
      BY <1>t
    <3> QED BY <3>2, <3>3
  <2> QED BY <2>1, <2>4
<1>2. VerdictTrue
  <2> SUFFICES ASSUME NEW l \in Launches,
                      NEW given, given = {Recorded(l)[i] : i \in DOMAIN Recorded(l)} \cap Verdicts
               PROVE  /\ "failed" \in given
                            => launchTurn[l] \in {"none", "rejected", "rerouted", "failed"}
                      /\ given \cap {"completed", "interrupted"} \subseteq {launchTurn[l]}
                      /\ "runtime_unknown" \in given => launchTurn[l] \notin {"none", "rejected"}
                      /\ given # {} => \A r \in Runners :
                            launchRun[r].launch = l => launchRun[r].at \in {"load", "receipt"}
    BY DEF VerdictTrue
  <2>1. ASSUME NEW v \in given
        PROVE  /\ Truth(l, v) /\ v \in Verdicts
               /\ \E o \in launchObjects[l] : Final(o[2])
    <3>1. PICK i \in DOMAIN Recorded(l) : v = Recorded(l)[i]
      OBVIOUS
    <3>2. v \in Verdicts
      OBVIOUS
    <3>3. <<i, v>> \in launchObjects[l]
      BY <1>i, <3>1 DEF ObjectsTrue, ObjectsOf
    <3>4. <<i, v>>[2] = v
      OBVIOUS
    <3>5. Truth(l, <<i, v>>[2])
      BY <1>i, <3>3 DEF ObjectsTrue
    <3>6. Final(<<i, v>>[2])
      BY <3>2, <3>4, EventsFacts
    <3> QED BY <3>2, <3>3, <3>4, <3>5, <3>6
  <2>2. "failed" \in given => launchTurn[l] \in {"none", "rejected", "rerouted", "failed"}
    BY <2>1 DEF Truth
  <2>3. given \cap {"completed", "interrupted"} \subseteq {launchTurn[l]}
    BY <2>1 DEF Truth
  <2>4. "runtime_unknown" \in given => launchTurn[l] \notin {"none", "rejected"}
    BY <2>1 DEF Truth
  <2>5. ASSUME given # {}, NEW r \in Runners, launchRun[r].launch = l
        PROVE  launchRun[r].at \in {"load", "receipt"}
    <3>1. launchRun[r].at # "away"
      BY <1>i, <2>5, LaunchAssumption DEF RunnersApart
    <3>2. ~Unfinal(launchObjects[l])
      BY <2>1, <2>5 DEF Unfinal
    <3>3. ASSUME launchRun[r].at \notin {"away", "load", "receipt"} PROVE FALSE
      <4>1. Fits(launchRun[r], Recorded(l), launchObjects[l], launchDid[l], launchTurn[l])
        BY <1>i, <2>5, <3>3 DEF Placed
      <4> QED BY <3>2, <3>3, <4>1 DEF Fits
    <3> QED BY <3>1, <3>3
  <2> QED BY <2>2, <2>3, <2>4, <2>5
<1> QED BY <1>1, <1>2 DEF LaunchesSound

LEMMA RecoverableFromInv == TransportInv => LaunchRecoverable
<1> SUFFICES ASSUME TransportInv, NEW l \in Launches, Recorded(l) # <<>>,
                    ~Overtaken, launchTorn = {}
             PROVE  Loadable(l) /\ \A b \in PendingBindings : b.launch = l
  BY DEF LaunchRecoverable
<1>i. LaunchTyped /\ ObjectsTrue
  BY DEF TransportInv, LaunchInv
<1>v. BoundToObjects /\ OneUnrecorded /\ PendingFirst
  BY DEF TransportInv, RecoveryInv, Undisturbed
<1>1. \A b \in PendingBindings : b.launch = l
  BY <1>v DEF PendingFirst
<1>2. Cardinality(PendingBindings) <= 1
  <2>1. \A b, c \in PendingBindings : b = c
    BY <1>v DEF PendingFirst
  <2>2. IsFiniteSet(PendingBindings)
    <3>1. CASE PendingBindings = {}
      BY <3>1, FS_EmptySet
    <3>2. CASE PendingBindings # {}
      <4>1. PICK b : PendingBindings = {b}
        BY <2>1, <3>2
      <4> QED BY <4>1, FS_Singleton
    <3> QED BY <3>1, <3>2
  <2> QED BY <2>1, <2>2, AtMostOne
<1>3. BindingsSound
  BY <1>v, <1>2 DEF BindingsSound, BoundToObjects
<1>4. Cardinality(Unrecorded(l)) <= 1
  <2>1. IsFiniteSet(launchObjects[l])
    BY <1>i DEF LaunchTyped
  <2>2. IsFiniteSet(Unrecorded(l))
    BY <2>1, FS_Subset DEF Unrecorded
  <2>3. \A a, b \in Unrecorded(l) : a = b
    BY <1>v DEF OneUnrecorded
  <2> QED BY <2>2, <2>3, AtMostOne
<1>5. \A o \in Unrecorded(l) : o[1] = Len(Recorded(l)) + 1 /\ MayFollow(Recorded(l), o[2])
  BY <1>v DEF OneUnrecorded, NextObject
<1>6. ObjectsOf(Recorded(l)) \subseteq launchObjects[l]
  BY <1>i DEF ObjectsTrue
<1>7. Loadable(l)
  BY <1>3, <1>4, <1>5, <1>6 DEF Loadable
<1> QED BY <1>1, <1>7

(* No boundary of the packet is crossed twice, nor before its pending event *)
(* is on record, and a verdict is true of the turn and given when nothing   *)
(* works on the launch any more (run_turn of the controller, LaunchesSound).*)
THEOREM LaunchesAreSound == LaunchSpec => []LaunchesSound
BY LaunchInductive, SoundFromInv, PTL

(* A reserved launch can be loaded and continued by another run wherever    *)
(* the earlier ones were killed (load_codex_transport_launch).              *)
THEOREM LaunchesRecover == LaunchSpec => []LaunchRecoverable
BY LaunchInductive, RecoverableFromInv, PTL
=============================================================================
