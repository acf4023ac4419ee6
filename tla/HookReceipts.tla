---------------------------- MODULE HookReceipts ----------------------------
(***************************************************************************)
(* The create-only store of hook receipts and its rotation into             *)
(* generations.  Hooks store receipts under the state lock; the Chief       *)
(* adopts the flat v1 directory as generation "legacy" and later rotates    *)
(* the active generation, one operation at a time.  An operation stages its *)
(* files one by one (each is created, or verified when it is there) and is  *)
(* committed by replacing control.json alone.                               *)
(*                                                                          *)
(* A control is the sequence of the operations it has applied: its digest   *)
(* covers no less.  A generation has the name of the operation that staged  *)
(* it, whose one intent fixes the successor's id.  The entry limit stands   *)
(* for the byte limit as well.  The state lock is held over a whole store   *)
(* and a whole rotation, so only a kill leaves one half done; a kill inside *)
(* a file creation may leave a private temporary that every scan refuses    *)
(* until recover-temporaries removes it.                                    *)
(***************************************************************************)
EXTENDS Naturals, Sequences, FiniteSets

CONSTANTS
    HookKeys,         \* event identities
    HookBytes,        \* sealed receipts an event may come with
    HookOps,          \* rotation operation ids
    HookEpochs,       \* bound: logical Chiefs, 1 .. HookEpochs
    HookEntries,      \* receipts a generation may hold
    HookGenerations,  \* generations a store may retain
    HookKills,        \* bound: kills
    Legacy,           \* the adopted v1 generation
    NoHook

(* What an intent and a seal may say.                                        *)
Inventories == SUBSET (HookKeys \X HookBytes)
Intents == [base : Seq(HookOps), inventory : Inventories, epoch : Nat]
Seals == [inventory : Inventories, by : HookOps]

(* An adopted store has two generations, so no fewer may be retained.       *)
ASSUME HookAssumption ==
    /\ {HookEpochs, HookEntries, HookGenerations, HookKills} \subseteq Nat \ {0}
    /\ HookGenerations > 1
    /\ NoHook \notin HookOps \cup Intents \cup Seals /\ Legacy \notin HookOps

VARIABLES
    hookApplied,  \* control.json: the operations applied, <<>> without a control
    hookDisk,     \* the staged entries there are, pairs of a kind and an owner
    hookIntent,   \* operation -> its intent
    hookSeal,     \* generation -> the inventory and operation its seal names
    hookAt,       \* generation -> the receipts in its directory
    hookAcked,    \* receipts a hook was told are stored
    hookEpoch,    \* the logical Chief
    hookSeen,     \* the preview the operator holds
    hookRun,      \* the rotation that holds the state lock
    hookLitter,   \* a killed creation left its temporary
    hookKilled    \* kills so far

hookVars == <<hookApplied, hookDisk, hookIntent, hookSeal, hookAt, hookAcked,
              hookEpoch, hookSeen, hookRun, hookLitter, hookKilled>>

HookInit ==
    /\ hookApplied = <<>> /\ hookDisk = {}
    /\ hookIntent = [o \in HookOps |-> NoHook]
    /\ hookSeal = [g \in HookOps \cup {Legacy} |-> NoHook]
    /\ hookAt = [g \in HookOps \cup {Legacy} |-> {}]
    /\ hookAcked = {} /\ hookEpoch = 1
    /\ hookSeen = NoHook /\ hookRun = NoHook
    /\ hookLitter = FALSE /\ hookKilled = 0

HookIdle == hookRun = NoHook

(* The generations of control.json, and the one that takes new receipts.    *)
Retained == IF hookApplied = <<>> THEN <<Legacy>> ELSE <<Legacy>> \o hookApplied
Active == Retained[Len(Retained)]
Adopted == hookApplied # <<>>
AppliedOps == {hookApplied[i] : i \in DOMAIN hookApplied}
There(kind) == {e[2] : e \in {d \in hookDisk : d[1] = kind}}

(* What a committed store looks like; op may have an operation pending.     *)
SealMatches(g, by) ==
    /\ hookSeal[g] # NoHook
    /\ hookSeal[g].inventory = hookAt[g] /\ hookSeal[g].by = by

Pending(op) == IF op \in HookOps \ AppliedOps THEN hookIntent[op] ELSE NoHook

IntentsBound(op) ==
    /\ \A o \in There("operation") : hookIntent[o] = NoHook => o = op
    /\ \A o \in There("operation") \ AppliedOps : o = op
    /\ Pending(op) # NoHook => Pending(op).base = hookApplied

GenerationsBound(op) ==
    /\ There("directory") \ ({Legacy} \cup AppliedOps)
           \subseteq IF Pending(op) = NoHook THEN {} ELSE {op}
    /\ \A i \in 1 .. Len(Retained) - 1 : SealMatches(Retained[i], hookApplied[i])
    /\ Pending(op) # NoHook => hookAt[Active] = Pending(op).inventory
    /\ hookSeal[Active] # NoHook
           => Pending(op) # NoHook /\ SealMatches(Active, op)
    /\ op \notin AppliedOps /\ op \in HookOps => hookAt[op] = {}

Unrepeated ==
    \A i, j \in DOMAIN Retained : \A r \in hookAt[Retained[i]], s \in hookAt[Retained[j]] :
        r[1] = s[1] => i = j /\ r = s

CommittedStore(op) ==
    ~hookLitter /\ IntentsBound(op) /\ GenerationsBound(op) /\ Unrepeated

(* An adoption that was not committed: nothing, or a prefix of op's staging.*)
AdoptionPrefix(op) ==
    /\ ~hookLitter
    /\ There("operation") \subseteq {op}
    /\ hookIntent[op] = NoHook => There("directory") \cup There("marker") = {}
    /\ There("marker") \subseteq {op}
    /\ hookAt[op] = {}

(* Hooks.                                                                    *)
(* Fault: the key is looked up in the active generation only.               *)
FoundActive(k) == {r \in hookAt[Active] : r[1] = k}

Found(k) == {r \in UNION {hookAt[Retained[i]] : i \in DOMAIN Retained} : r[1] = k}

(* Fault: a hook stores into the flat directory while an adoption is staged. *)
RuntimeControlByControl == ~hookLitter /\ (Adopted => CommittedStore(NoHook))

RuntimeControl ==
    IF Adopted THEN CommittedStore(NoHook)
    ELSE There("root") = {} /\ There("marker") = {} /\ ~hookLitter

StoreReceipt(k, b) ==
    /\ HookIdle /\ RuntimeControl
    /\ \/ /\ Found(k) = {<<k, b>>}
          /\ UNCHANGED hookAt
       \/ /\ Found(k) = {}
          /\ Cardinality(hookAt[Active]) < HookEntries
          /\ hookAt' = [hookAt EXCEPT ![Active] = @ \cup {<<k, b>>}]
    /\ hookAcked' = hookAcked \cup {<<k, b>>}
    /\ UNCHANGED <<hookApplied, hookDisk, hookIntent, hookSeal, hookEpoch,
                   hookSeen, hookRun, hookLitter, hookKilled>>

(* The hook is killed in the creation, before it could answer.              *)
StoreKilled(k, b) ==
    /\ HookIdle /\ RuntimeControl /\ Found(k) = {}
    /\ hookKilled < HookKills /\ hookKilled' = hookKilled + 1
    /\ Cardinality(hookAt[Active]) < HookEntries
    /\ hookAt' \in {hookAt, [hookAt EXCEPT ![Active] = @ \cup {<<k, b>>}]}
    /\ hookLitter' \in BOOLEAN
    /\ UNCHANGED <<hookApplied, hookDisk, hookIntent, hookSeal, hookAcked,
                   hookEpoch, hookSeen, hookRun>>

(* The rotation commands.                                                    *)
PreviewOf(op) ==
    IF hookIntent[op] # NoHook
    THEN [op |-> op, base |-> hookIntent[op].base, inventory |-> hookIntent[op].inventory]
    ELSE [op |-> op, base |-> hookApplied, inventory |-> hookAt[Active]]

PreviewAllowed(op) ==
    IF Adopted
    THEN CommittedStore(op) /\ (op \in AppliedOps \/ Len(Retained) < HookGenerations)
    ELSE AdoptionPrefix(op)

PreviewRotation(op) ==
    /\ HookIdle /\ PreviewAllowed(op)
    /\ hookSeen' = PreviewOf(op)
    /\ UNCHANGED <<hookApplied, hookDisk, hookIntent, hookSeal, hookAt, hookAcked,
                   hookEpoch, hookRun, hookLitter, hookKilled>>

IntentOf(p, epoch) == [base |-> p.base, inventory |-> p.inventory, epoch |-> epoch]

(* The checks of an apply before its first write.                           *)
ApplyAllowed(p, epoch) ==
    /\ PreviewAllowed(p.op) /\ PreviewOf(p.op) = p
    /\ p.op \notin AppliedOps => p.inventory = hookAt[Active] /\ p.base = hookApplied
    /\ hookIntent[p.op] # NoHook => hookIntent[p.op].epoch = epoch

ApplyRotation ==
    /\ HookIdle /\ hookSeen # NoHook /\ hookSeen.op \notin AppliedOps
    /\ ApplyAllowed(hookSeen, hookEpoch)
    /\ hookRun' = [op |-> hookSeen.op, step |-> 1,
                   intent |-> IF hookIntent[hookSeen.op] = NoHook
                              THEN IntentOf(hookSeen, hookEpoch)
                              ELSE hookIntent[hookSeen.op]]
    /\ UNCHANGED <<hookApplied, hookDisk, hookIntent, hookSeal, hookAt, hookAcked,
                   hookEpoch, hookSeen, hookLitter, hookKilled>>

(* The entries an operation stages, in order; the last commits it.          *)
Staging(op) ==
    IF Adopted
    THEN << <<"operation", op>>, <<"intent", op>>, <<"seal", Active>>,
            <<"directory", op>>, <<"metadata", op>>, <<"receipts", op>>, <<"control", op>> >>
    ELSE << <<"root", Legacy>>, <<"operations", Legacy>>, <<"generations", Legacy>>,
            <<"operation", op>>, <<"intent", op>>, <<"marker", op>>,
            <<"directory", Legacy>>, <<"metadata", Legacy>>, <<"seal", Legacy>>,
            <<"directory", op>>, <<"metadata", op>>, <<"receipts", op>>, <<"control", op>> >>

HookFiles == {"intent", "marker", "metadata", "seal", "control"}
NextEntry == Staging(hookRun.op)[hookRun.step]

(* An entry that is there is verified instead.                              *)
Conflicts(e) ==
    CASE e[1] = "intent" -> hookIntent[e[2]] # hookRun.intent
      [] e[1] = "seal"   -> ~SealMatches(e[2], hookRun.op)
      [] OTHER           -> FALSE

StageEntry ==
    /\ ~HookIdle /\ NextEntry[1] # "control"
    /\ LET e == NextEntry IN
        IF e \in hookDisk
        THEN /\ hookRun' = IF Conflicts(e) THEN NoHook ELSE [hookRun EXCEPT !.step = @ + 1]
             /\ UNCHANGED <<hookDisk, hookIntent, hookSeal>>
        ELSE /\ hookDisk' = hookDisk \cup {e}
             /\ hookIntent' = IF e[1] = "intent"
                              THEN [hookIntent EXCEPT ![e[2]] = hookRun.intent] ELSE hookIntent
             /\ hookSeal' = IF e[1] = "seal"
                            THEN [hookSeal EXCEPT ![e[2]] = [inventory |-> hookAt[e[2]],
                                                             by |-> hookRun.op]]
                            ELSE hookSeal
             /\ hookRun' = [hookRun EXCEPT !.step = @ + 1]
    /\ UNCHANGED <<hookApplied, hookAt, hookAcked, hookEpoch, hookSeen,
                   hookLitter, hookKilled>>

(* The whole staged topology is proved before the one commit.               *)
StagedTopology(op) ==
    /\ {Staging(op)[i] : i \in 1 .. Len(Staging(op)) - 1} \subseteq hookDisk
    /\ There("operation") = AppliedOps \cup {op}
    /\ There("directory") = {Legacy} \cup AppliedOps \cup {op}
    /\ \A i \in DOMAIN Retained : SealMatches(Retained[i], Append(hookApplied, op)[i])
    /\ hookAt[op] = {} /\ Unrepeated

CommitControl ==
    /\ ~HookIdle /\ NextEntry[1] = "control"
    /\ StagedTopology(hookRun.op)
    /\ hookApplied' = Append(hookApplied, hookRun.op)
    /\ hookRun' = NoHook
    /\ UNCHANGED <<hookDisk, hookIntent, hookSeal, hookAt, hookAcked, hookEpoch,
                   hookSeen, hookLitter, hookKilled>>

HookKill ==
    /\ ~HookIdle
    /\ hookKilled < HookKills /\ hookKilled' = hookKilled + 1
    /\ hookLitter' \in IF NextEntry[1] \in HookFiles THEN BOOLEAN ELSE {FALSE}
    /\ hookRun' = NoHook
    /\ UNCHANGED <<hookApplied, hookDisk, hookIntent, hookSeal, hookAt, hookAcked,
                   hookEpoch, hookSeen>>

HookRecoverTemporaries ==
    /\ HookIdle /\ hookLitter
    /\ hookLitter' = FALSE
    /\ UNCHANGED <<hookApplied, hookDisk, hookIntent, hookSeal, hookAt, hookAcked,
                   hookEpoch, hookSeen, hookRun, hookKilled>>

(* Another session takes the Chief role over, with the next epoch.          *)
HookTakeover ==
    /\ HookIdle /\ hookEpoch < HookEpochs
    /\ hookEpoch' = hookEpoch + 1
    /\ UNCHANGED <<hookApplied, hookDisk, hookIntent, hookSeal, hookAt, hookAcked,
                   hookSeen, hookRun, hookLitter, hookKilled>>

HookNext ==
    \/ \E k \in HookKeys, b \in HookBytes : StoreReceipt(k, b) \/ StoreKilled(k, b)
    \/ \E op \in HookOps : PreviewRotation(op)
    \/ ApplyRotation \/ StageEntry \/ CommitControl
    \/ HookKill \/ HookRecoverTemporaries \/ HookTakeover

HookSpec == HookInit /\ [][HookNext]_hookVars

(* Properties.                                                               *)

(* However the generations are staged, sealed, committed or left half done,  *)
(* the receipts a lookup reaches form one append-only log: rotation loses,   *)
(* changes and repeats none, and a hook is told only of a receipt in it      *)
(* (store_codex_hook_receipt, _apply_rotation_locked).                       *)
RetainedReceipts == UNION {hookAt[Retained[i]] : i \in DOMAIN Retained}
Log == INSTANCE ReceiptLog WITH Keys <- HookKeys, Bytes <- HookBytes,
                                log <- RetainedReceipts, acked <- hookAcked
ImplementsReceiptLog == Log!Spec

(* A retired generation is what its seal says, to the last receipt, and the  *)
(* seal is by the operation that retired it (_stage_seal_locked,             *)
(* _validate_committed_v2_locked).                                           *)
RetiredAsSealed ==
    /\ \A i \in 1 .. Len(Retained) - 1 : SealMatches(Retained[i], hookApplied[i])
    /\ Unrepeated /\ Len(Retained) \in 1 .. HookGenerations

(* Wherever a rotation was killed, it is the only one pending and the same   *)
(* operation can go on: nothing an apply checks before its first write, and  *)
(* no entry it finds staged, refuses the logical Chief that began it         *)
(* (_apply_rotation_locked, "exact operation resume is required").           *)
RotationResumable ==
    \A op \in There("operation") \ AppliedOps :
        /\ There("operation") \ AppliedOps = {op}
        /\ HookIdle /\ ~hookLitter =>
            LET p == PreviewOf(op)
                epoch == IF hookIntent[op] = NoHook THEN hookEpoch ELSE hookIntent[op].epoch
            IN  /\ ApplyAllowed(p, epoch)
                /\ \A i \in 1 .. Len(Staging(op)) - 1 :
                     /\ Staging(op)[i] \in hookDisk => \A j \in 1 .. i : Staging(op)[j] \in hookDisk
                     /\ Staging(op)[i] \in hookDisk /\ Staging(op)[i][1] = "seal"
                            => SealMatches(Staging(op)[i][2], op)

(* Both together.                                                            *)
GenerationsSound == RetiredAsSealed /\ RotationResumable
=============================================================================
