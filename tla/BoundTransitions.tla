-------------------------- MODULE BoundTransitions --------------------------
(***************************************************************************)
(* Transitions of one task that are sealed before they happen: permits for  *)
(* the arming of a packet or the advance of a cohort, and promotions of a   *)
(* release.  Each is made of objects, of a binding that reserves the head   *)
(* of the task's semantic chain for one planned event, and of that event;   *)
(* a permit has an issuance marker besides, which is written first.  A      *)
(* command makes its writes under one hold of the state lock and may be     *)
(* killed, or fail, after any of them.                                      *)
(*                                                                          *)
(* An event is named by its transition, as a transition has one binding and *)
(* plans one event.  The intent object of a promotion is written with its   *)
(* binding.  The permit, the packet arm and the routing authority expire    *)
(* together.  A promotion may be recorded for a time to come while the lease *)
(* lasts, and its Chief be replaced before: of that time the model keeps    *)
(* whether it comes before the lease of the Chief of the day.  Renewals of  *)
(* the lease, rollback and dependency rules between promotions, and the     *)
(* projection that follows the chain are left out.                          *)
(***************************************************************************)
EXTENDS SequencesExt

CONSTANTS
    BoundPermits,     \* permit -> its nonce
    BoundPromotions,  \* promotion ids, each with its manifest and receipts
    BoundEpochs,      \* bound: Chief epochs
    BoundOthers,      \* bound: events of other commands
    NoBound

Permitted == DOMAIN BoundPermits
Transitions == Permitted \cup BoundPromotions

(* The ids of permits and of promotions live in different namespaces.       *)
ASSUME BoundAssumption ==
    /\ Permitted \cap BoundPromotions = {}
    /\ NoBound \notin Transitions /\ NoBound \notin [head : Nat, epoch : Nat]

VARIABLES
    boundChain,    \* the events [of, made] since the start; of NoBound: others
    boundObjects,  \* transition -> how many of its objects are on the disk
    boundMarker,   \* permit -> its issuance marker [head, epoch] or NoBound
    boundBinding,  \* transition -> its binding [head, epoch] or NoBound
    boundChief,    \* the Chief record [epoch, live]; not live: released or expired
    boundAhead,    \* bound promotions recorded for no time before its lease
    boundExpired   \* the permits that are past their time

boundVars == <<boundChain, boundObjects, boundMarker, boundBinding, boundChief,
               boundAhead, boundExpired>>

(* None, some and all of a transition's objects.                             *)
AllObjects == 2

BoundInit ==
    /\ boundChain = <<>>
    /\ boundObjects = [t \in Transitions |-> 0]
    /\ boundMarker = [p \in Permitted |-> NoBound]
    /\ boundBinding = [t \in Transitions |-> NoBound]
    /\ boundChief = [epoch |-> 1, live |-> TRUE]
    /\ boundAhead = {}
    /\ boundExpired = {}

BoundHead == Len(boundChain)
OnChain(t, made) == Contains(boundChain, [of |-> t, made |-> made])
AtHead == [head |-> BoundHead, epoch |-> boundChief.epoch]

(* What a command was prepared on: a head and a Chief, read then or before. *)
Plans == [head : 0 .. BoundHead, epoch : 1 .. boundChief.epoch]

(* The classification of a binding (_validated_binding_namespace).          *)
IsDone(t) == OnChain(t, "done")
IsAbandoned(t) == OnChain(t, "abandoned")
IsPending(t) == boundBinding[t] # NoBound /\ ~IsDone(t) /\ ~IsAbandoned(t)

Stale == \E t \in Transitions : IsPending(t) /\ boundBinding[t].head # BoundHead

(* What every inspection of the objects and bindings asks.                  *)
Inspected ==
    /\ ~Stale
    /\ \A t, u \in Transitions : IsPending(t) /\ IsPending(u) => t = u
    /\ \A t \in Transitions : boundBinding[t] # NoBound => boundObjects[t] = AllObjects

(* require_no_pending_bindings, with t's own binding as the exact retry.    *)
NonePendingBut(t, plan) ==
    Inspected /\ \A u \in Transitions :
                     IsPending(u) => u = t /\ boundBinding[u] = plan

-----------------------------------------------------------------------------
(* The Chief, the clock and other commands on the task.                     *)

ChiefEnds ==
    /\ boundChief.live
    /\ boundChief' = [boundChief EXCEPT !.live = FALSE]
    /\ UNCHANGED <<boundChain, boundObjects, boundMarker, boundBinding, boundAhead,
                   boundExpired>>

(* chief-acquire or a takeover; the time of some pending promotions has come, *)
(* of others it has not, and of one that is over nothing more is asked.     *)
ChiefBegins ==
    /\ boundChief.epoch < BoundEpochs
    /\ boundChief' = [epoch |-> boundChief.epoch + 1, live |-> TRUE]
    /\ boundAhead' \in SUBSET {r \in boundAhead : IsPending(r)}
    /\ UNCHANGED <<boundChain, boundObjects, boundMarker, boundBinding, boundExpired>>

PermitExpires(p) ==
    /\ boundMarker[p] # NoBound /\ p \notin boundExpired
    /\ boundExpired' = boundExpired \cup {p}
    /\ UNCHANGED <<boundChain, boundObjects, boundMarker, boundBinding, boundChief, boundAhead>>

(* Integrity records, the closing of a task and workflow steps append with  *)
(* a check of the head alone, whatever binding is pending.                  *)
OtherTransition ==
    /\ Cardinality({i \in DOMAIN boundChain : boundChain[i].of = NoBound}) < BoundOthers
    /\ boundChain' = Append(boundChain, [of |-> NoBound, made |-> "done"])
    /\ UNCHANGED <<boundObjects, boundMarker, boundBinding, boundChief, boundAhead, boundExpired>>

-----------------------------------------------------------------------------
(* Writes                                                                    *)

(* The binding and the event of a transition, of which n are written.       *)
BindAndAppend(t, plan, n) ==
    /\ boundBinding' = IF n < 1 THEN boundBinding ELSE [boundBinding EXCEPT ![t] = plan]
    /\ boundChain' = IF n < 2 THEN boundChain
                     ELSE Append(boundChain, [of |-> t, made |-> "done"])

(* publish_semantic_object for each, publish_semantic_binding, append.      *)
PromoteWrites(r, plan, n) ==
    /\ boundObjects' = [boundObjects EXCEPT ![r] = Max({@, Min({n, AllObjects})})]
    /\ BindAndAppend(r, plan, Max({0, n - AllObjects}))

-----------------------------------------------------------------------------
(* Permits                                                                   *)

(* permit_replay_marker: the Chief's identity and the nonce.                *)
ReplayMarker(p, plan) == <<plan.epoch, BoundPermits[p]>>

(* packet-arm-prepare or cohort-round-prepare sealed the plan; permit-issue *)
(* writes the objects, of which nothing is asked without their marker, then *)
(* the marker.                                                              *)
IssuePermit(p, plan) ==
    /\ boundMarker[p] = NoBound
    /\ boundChief.live /\ plan = AtHead
    /\ Inspected /\ ~\E t \in Transitions : IsPending(t)
    /\ \A q \in Permitted : boundMarker[q] # NoBound =>
           ReplayMarker(q, boundMarker[q]) # ReplayMarker(p, plan)
    /\ boundObjects' = [boundObjects EXCEPT ![p] = AllObjects]
    /\ boundMarker' \in {boundMarker, [boundMarker EXCEPT ![p] = plan]}
    /\ UNCHANGED <<boundChain, boundBinding, boundChief, boundAhead, boundExpired>>

(* _current_chief_authority, _validate_arm_consumption_window and           *)
(* validate_transition_consumption, asked only while nothing is reserved.   *)
MayConsume(p) ==
    /\ boundChief.live /\ boundChief.epoch = boundMarker[p].epoch
    /\ p \notin boundExpired
    /\ \A q \in Permitted : IsDone(q) =>
           ReplayMarker(q, boundMarker[q]) # ReplayMarker(p, boundMarker[p])

(* Fault: a reservation is finished under the same conditions as it is made.*)
ConsumeAllowedInTime(p) ==
    /\ boundMarker[p] # NoBound /\ boundObjects[p] = AllObjects
    /\ NonePendingBut(p, boundMarker[p]) /\ ~IsDone(p)
    /\ boundMarker[p].head = BoundHead
    /\ MayConsume(p)

ConsumeAllowed(p) ==
    /\ boundMarker[p] # NoBound /\ boundObjects[p] = AllObjects
    /\ NonePendingBut(p, boundMarker[p]) /\ ~IsDone(p)
    /\ boundMarker[p].head = BoundHead
    /\ boundBinding[p] = NoBound => MayConsume(p)

(* permit-consume, which asks nobody for a credential: the binding, then    *)
(* the event.                                                                *)
ConsumePermit(p) ==
    /\ ConsumeAllowed(p)
    /\ \E n \in 1 .. 2 : BindAndAppend(p, boundMarker[p], n)
    /\ UNCHANGED <<boundObjects, boundMarker, boundChief, boundAhead, boundExpired>>

-----------------------------------------------------------------------------
(* Promotions                                                                *)

(* Fault: whoever is the Chief may finish a promotion that is reserved.     *)
PromoteAllowedAnyChief(r, plan) ==
    /\ boundChief.live /\ plan.head = BoundHead
    /\ plan.epoch = boundChief.epoch \/ boundBinding[r] = plan
    /\ NonePendingBut(r, plan)
    /\ boundBinding[r] \in {NoBound, plan} /\ ~IsDone(r) /\ ~IsAbandoned(r)

PromoteAllowed(r, plan) ==
    /\ boundChief.live /\ plan.head = BoundHead
    /\ plan.epoch = boundChief.epoch
    /\ NonePendingBut(r, plan)
    /\ boundBinding[r] \in {NoBound, plan} /\ ~IsDone(r) /\ ~IsAbandoned(r)

(* release-promote on the head that its caller names; on an older head it   *)
(* only tells of a promotion that was made there.                           *)
Promote(r, plan) ==
    /\ PromoteAllowed(r, plan)
    /\ \E n \in 1 .. AllObjects + 2 : PromoteWrites(r, plan, n)
    /\ boundAhead' = IF boundBinding'[r] = NoBound THEN boundAhead ELSE boundAhead \cup {r}
    /\ UNCHANGED <<boundMarker, boundChief, boundExpired>>

(* What release-abandon-pending asks of the binding, and of the successor,  *)
(* whose lease must begin after the time the promotion is recorded for.     *)
Abandonable(r) ==
    /\ IsPending(r) /\ Inspected
    /\ boundBinding[r].head = BoundHead

AbandonAllowed(r) ==
    /\ Abandonable(r)
    /\ boundChief.live /\ boundChief.epoch > boundBinding[r].epoch
    /\ r \notin boundAhead

(* The successor's own event takes the place of the planned one.            *)
AbandonPending(r) ==
    /\ AbandonAllowed(r)
    /\ boundChain' = Append(boundChain, [of |-> r, made |-> "abandoned"])
    /\ UNCHANGED <<boundObjects, boundMarker, boundBinding, boundChief, boundAhead, boundExpired>>

BoundNext ==
    \/ ChiefEnds \/ ChiefBegins \/ OtherTransition
    \/ \E p \in Permitted :
          PermitExpires(p) \/ ConsumePermit(p) \/ \E plan \in Plans : IssuePermit(p, plan)
    \/ \E r \in BoundPromotions :
          AbandonPending(r) \/ \E plan \in Plans : Promote(r, plan)

BoundSpec == BoundInit /\ [][BoundNext]_boundVars

-----------------------------------------------------------------------------
(* Properties                                                                *)

(* Whatever is killed, repeated or overtaken, and however many Chiefs come  *)
(* and go: a permit or promotion is reserved alone, on the head and under   *)
(* the Chief it was decided on, and takes effect once and there; a permit's *)
(* replay marker serves once; a promotion is never made in the name of a    *)
(* Chief who is gone, nor after it was abandoned                             *)
(* (commit_permitted_arm_transaction, commit_release_promotion_transaction, *)
(* abandon_pending_release_promotion).                                       *)
GrantStage(t) ==
    IF IsDone(t) THEN "done"
    ELSE IF IsAbandoned(t) THEN "abandoned"
    ELSE IF IsPending(t) THEN "reserved"
    ELSE IF t \in Permitted /\ boundMarker[t] # NoBound THEN "issued"
    ELSE "open"

Decided(t) ==
    IF boundBinding[t] # NoBound THEN boundBinding[t]
    ELSE IF t \in Permitted /\ boundMarker[t] # NoBound THEN boundMarker[t]
    ELSE [head |-> 0, epoch |-> 0]

NonceOf(t) == IF t \in Permitted THEN BoundPermits[t] ELSE NoBound

AllGrants ==
    INSTANCE OneShotGrants WITH
        Grants <- Transitions, Permits <- Permitted, Mark <- NonceOf,
        stage <- [t \in Transitions |-> GrantStage(t)],
        base <- [t \in Transitions |-> Decided(t).head],
        issuer <- [t \in Transitions |-> Decided(t).epoch],
        length <- BoundHead, epoch <- boundChief.epoch, live <- boundChief.live

(* A step that moves nothing of the grants is not looked at further.         *)
ImplementsGrants ==
    /\ AllGrants!Init
    /\ [][\/ UNCHANGED boundVars
          \/ AllGrants!Next
          \/ UNCHANGED AllGrants!vars]_boundVars

(* No crash blocks the task: a reserved permit can be finished by anybody,  *)
(* after its expiry and its Chief too, a reserved promotion can be finished *)
(* by its Chief or ended by a later one, the next whose lease begins after  *)
(* the time the promotion is recorded for, and objects that were left       *)
(* without a binding are completed by whoever makes that promotion; not so  *)
(* when another command has appended past a pending binding.                *)
GrantsResolvable ==
    ~Stale =>
        /\ \A p \in Permitted : IsPending(p) => ConsumeAllowed(p)
        /\ boundChief.live => \A r \in BoundPromotions :
              /\ IsPending(r) =>
                    \/ PromoteAllowed(r, boundBinding[r])
                    \/ boundBinding[r].epoch < boundChief.epoch
                          /\ IF r \in boundAhead THEN Abandonable(r) ELSE AbandonAllowed(r)
              /\ boundObjects[r] > 0 /\ (\A t \in Transitions : ~IsPending(t))
                     /\ ~IsDone(r) /\ ~IsAbandoned(r)
                 => PromoteAllowed(r, AtHead)
=============================================================================
