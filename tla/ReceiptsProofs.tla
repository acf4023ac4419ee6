--------------------------- MODULE ReceiptsProofs ---------------------------
(***************************************************************************)
(* Two records a reader trusts to be whole, for any constants: the          *)
(* generations of hook receipts implement one append-only log and stay as   *)
(* sealed, whatever kills a rotation; and a resource configuration is       *)
(* applied, rolled back or migrated as a whole or not at all, with a        *)
(* receipt for every byte an event left in a file.                          *)
(***************************************************************************)
EXTENDS HookReceipts, ResourceConfig, SequenceTheorems, WellFoundedInduction, TLAPS

Generations == HookOps \cup {Legacy}

RunTyped ==
    \/ hookRun = NoHook
    \/ /\ hookRun = [op |-> hookRun.op, step |-> hookRun.step, intent |-> hookRun.intent]
       /\ hookRun.op \in HookOps

HookTypes ==
    /\ hookApplied \in Seq(HookOps)
    /\ hookAt \in [Generations -> SUBSET (HookKeys \X HookBytes)]
    /\ hookSeen = NoHook \/ hookSeen.op \in HookOps
    /\ RunTyped

(* The generations a lookup reads, as a set.                                *)
Readable == {Legacy} \cup AppliedOps

LEMMA RetainedIsConcat ==
    ASSUME hookApplied \in Seq(HookOps)
    PROVE  Retained = <<Legacy>> \o hookApplied
<1>1. <<Legacy>> \in Seq({Legacy})
  OBVIOUS
<1>2. <<Legacy>> \o <<>> = <<Legacy>>
  BY <1>1, ConcatEmptySeq
<1> QED BY <1>2 DEF Retained

(* The names Retained lists are the adopted generation and the applied      *)
(* operations, and the active one is among them.                            *)
LEMMA RetainedNames ==
    ASSUME HookTypes
    PROVE  /\ {Retained[i] : i \in DOMAIN Retained} = Readable
           /\ Active \in Readable
           /\ Readable \subseteq Generations
<1> USE DEF HookTypes
<1>1. Retained = <<Legacy>> \o hookApplied
  BY RetainedIsConcat
<1>2. /\ Len(Retained) = Len(hookApplied) + 1
      /\ DOMAIN Retained = 1 .. Len(hookApplied) + 1
      /\ Retained[1] = Legacy
      /\ \A i \in 1 .. Len(hookApplied) : Retained[i + 1] = hookApplied[i]
  <2>1. <<Legacy>> \in Seq({Legacy}) /\ Len(<<Legacy>>) = 1
    OBVIOUS
  <2>2. hookApplied \in Seq(Generations) /\ <<Legacy>> \in Seq(Generations)
    BY <2>1 DEF Generations
  <2> QED BY <1>1, <2>1, <2>2
<1>3. Len(hookApplied) \in Nat /\ DOMAIN hookApplied = 1 .. Len(hookApplied)
  OBVIOUS
<1>4. ASSUME NEW i \in DOMAIN Retained
      PROVE  Retained[i] \in Readable
  <2>1. CASE i = 1
    BY <2>1, <1>2 DEF Readable
  <2>2. CASE i # 1
    <3>1. i - 1 \in 1 .. Len(hookApplied)
      BY <2>2, <1>2, <1>3
    <3>2. Retained[(i - 1) + 1] = hookApplied[i - 1] /\ (i - 1) + 1 = i
      BY <3>1, <1>2, <1>3
    <3> QED BY <3>1, <3>2, <1>3 DEF Readable, AppliedOps
  <2> QED BY <2>1, <2>2
<1>5. ASSUME NEW g \in Readable
      PROVE  \E i \in DOMAIN Retained : Retained[i] = g
  <2>1. CASE g = Legacy
    <3>1. 1 \in DOMAIN Retained
      BY <1>2, <1>3
    <3> QED BY <3>1, <2>1, <1>2
  <2>2. CASE g \in AppliedOps
    <3>1. PICK i \in 1 .. Len(hookApplied) : g = hookApplied[i]
      BY <2>2, <1>3 DEF AppliedOps
    <3>2. i + 1 \in DOMAIN Retained
      BY <3>1, <1>2, <1>3
    <3> QED BY <3>1, <3>2, <1>2
  <2> QED BY <2>1, <2>2 DEF Readable
<1>6. Len(Retained) \in DOMAIN Retained
  BY <1>2, <1>3
<1>7. Readable \subseteq Generations
  BY <1>3 DEF Readable, AppliedOps, Generations
<1> QED BY <1>4, <1>5, <1>6, <1>7 DEF Active

(* What a lookup reaches, by membership.                                    *)
LEMMA LookupReaches ==
    ASSUME HookTypes
    PROVE  \A x : x \in RetainedReceipts <=> \E g \in Readable : x \in hookAt[g]
BY RetainedNames DEF RetainedReceipts

LEMMA FoundIsLogged ==
    ASSUME NEW k
    PROVE  Found(k) = {r \in RetainedReceipts : r[1] = k}
BY DEF Found, RetainedReceipts

(* The types are inductive.                                                  *)
LEMMA HookTypesInductive ==
    ASSUME HookTypes, [HookNext]_hookVars
    PROVE  HookTypes'
<1> USE DEF HookTypes
<1>1. ASSUME NEW k \in HookKeys, NEW b \in HookBytes, StoreReceipt(k, b)
      PROVE  HookTypes'
  BY <1>1, RetainedNames DEF StoreReceipt, RunTyped
<1>2. ASSUME NEW k \in HookKeys, NEW b \in HookBytes, StoreKilled(k, b)
      PROVE  HookTypes'
  BY <1>2, RetainedNames DEF StoreKilled, RunTyped
<1>3. ASSUME NEW op \in HookOps, PreviewRotation(op)
      PROVE  HookTypes'
  <2>1. PreviewOf(op).op = op
    BY DEF PreviewOf
  <2> QED BY <1>3, <2>1 DEF PreviewRotation, RunTyped
<1>4. CASE ApplyRotation
  BY <1>4 DEF ApplyRotation, RunTyped
<1>5. CASE StageEntry
  <2>1. hookRun' = NoHook \/ hookRun' = [hookRun EXCEPT !.step = @ + 1]
    BY <1>5 DEF StageEntry
  <2>2. RunTyped'
    BY <2>1, <1>5 DEF StageEntry, RunTyped, HookIdle
  <2> QED BY <2>2, <1>5 DEF StageEntry
<1>6. CASE CommitControl
  <2>1. hookRun.op \in HookOps
    BY <1>6 DEF CommitControl, HookIdle, RunTyped
  <2> QED BY <2>1, <1>6 DEF CommitControl, RunTyped
<1>7. CASE HookKill
  BY <1>7 DEF HookKill, RunTyped
<1>8. CASE HookRecoverTemporaries
  BY <1>8 DEF HookRecoverTemporaries, RunTyped
<1>9. CASE HookTakeover
  BY <1>9 DEF HookTakeover, RunTyped
<1>10. CASE UNCHANGED hookVars
  BY <1>10 DEF hookVars, RunTyped
<1> QED BY <1>1, <1>2, <1>3, <1>4, <1>5, <1>6, <1>7, <1>8, <1>9, <1>10 DEF HookNext

(* A receipt put into the active generation is added to the log.            *)
LEMMA StoreAppends ==
    ASSUME HookTypes, NEW k \in HookKeys, NEW b \in HookBytes,
           hookApplied' = hookApplied,
           hookAt' = [hookAt EXCEPT ![Active] = @ \cup {<<k, b>>}]
    PROVE  RetainedReceipts' = RetainedReceipts \cup {<<k, b>>}
<1>1. Readable \subseteq DOMAIN hookAt /\ Active \in Readable
  BY RetainedNames DEF HookTypes
<1>2. \A g \in Readable : hookAt'[g] = IF g = Active THEN hookAt[g] \cup {<<k, b>>} ELSE hookAt[g]
  BY <1>1
<1>3. \A x : x \in RetainedReceipts' <=> \E g \in Readable : x \in hookAt'[g]
  <2>1. Retained' = Retained
    BY DEF Retained
  <2> QED BY <2>1, RetainedNames DEF RetainedReceipts
<1>4. ASSUME NEW x PROVE x \in RetainedReceipts' <=> x \in RetainedReceipts \cup {<<k, b>>}
  BY <1>1, <1>2, <1>3, LookupReaches
<1> QED BY <1>4

(* Steps that leave control.json and the directories alone leave the log.   *)
LEMMA LogFrame ==
    ASSUME UNCHANGED <<hookApplied, hookAt>>
    PROVE  UNCHANGED RetainedReceipts
BY DEF RetainedReceipts, Retained

(* The commit adds a generation that the staged topology shows empty: the   *)
(* receipts a lookup reaches are the same before and after it.              *)
LEMMA CommitKeepsLog ==
    ASSUME HookTypes, HookTypes', CommitControl
    PROVE  UNCHANGED RetainedReceipts
<1>1. PICK op : op = hookRun.op
  OBVIOUS
<1>2. /\ hookApplied' = Append(hookApplied, op)
      /\ hookAt' = hookAt /\ hookAt[op] = {} /\ op \in HookOps
  BY <1>1 DEF CommitControl, StagedTopology, HookTypes, RunTyped, HookIdle
<1>3. hookApplied \in Seq(HookOps) /\ hookApplied' \in Seq(HookOps)
  BY DEF HookTypes
<1>4. Retained = <<Legacy>> \o hookApplied
  BY <1>3, RetainedIsConcat
<1>5. Retained' = <<Legacy>> \o Append(hookApplied, op)
  <2>1. hookApplied' # <<>>
    BY <1>2, <1>3
  <2> QED BY <2>1, <1>2 DEF Retained
<1>6. Retained \in Seq(Generations) /\ Retained' = Append(Retained, op)
  <2>1. /\ <<Legacy>> \in Seq(Generations)
        /\ hookApplied \in Seq(Generations) /\ op \in Generations
    BY <1>2, <1>3 DEF Generations
  <2>2. Retained \in Seq(Generations)
    BY <1>4, <2>1
  <2>3. <<Legacy>> \o Append(hookApplied, op) = Append(<<Legacy>> \o hookApplied, op)
    BY <2>1
  <2> QED BY <1>4, <1>5, <2>2, <2>3
<1>7. ASSUME NEW x PROVE x \in RetainedReceipts' <=> x \in RetainedReceipts
  <2>1. /\ Len(Retained) \in Nat /\ DOMAIN Retained = 1 .. Len(Retained)
        /\ DOMAIN Retained' = 1 .. Len(Retained) + 1
        /\ \A i \in 1 .. Len(Retained) : Retained'[i] = Retained[i]
        /\ Retained'[Len(Retained) + 1] = op
    BY <1>6
  <2>2. /\ x \in RetainedReceipts' <=> \E i \in DOMAIN Retained' : x \in hookAt[Retained'[i]]
        /\ x \in RetainedReceipts <=> \E i \in DOMAIN Retained : x \in hookAt[Retained[i]]
    BY <1>2 DEF RetainedReceipts
  <2> QED BY <2>1, <2>2, <1>2
<1> QED BY <1>7

(* Every step of the store is a step of the log or changes nothing of it.   *)
LEMMA HookStepsSimulate ==
    ASSUME HookTypes, HookTypes', [HookNext]_hookVars
    PROVE  [Log!Next]_<<RetainedReceipts, hookAcked>>
<1>1. ASSUME NEW k \in HookKeys, NEW b \in HookBytes, StoreReceipt(k, b)
      PROVE  Log!Next
  <2>1. hookAcked' = hookAcked \cup {<<k, b>>} /\ hookApplied' = hookApplied
    BY <1>1 DEF StoreReceipt
  <2>2. CASE Found(k) = {<<k, b>>} /\ hookAt' = hookAt
    <3>1. <<k, b>> \in RetainedReceipts
      BY <2>2, FoundIsLogged
    <3>2. Log!Acknowledge(k, b)
      BY <2>1, <2>2, <3>1, LogFrame DEF Log!Acknowledge
    <3> QED BY <3>2 DEF Log!Next
  <2>3. CASE Found(k) = {} /\ hookAt' = [hookAt EXCEPT ![Active] = @ \cup {<<k, b>>}]
    <3>1. \A r \in RetainedReceipts : r[1] # k
      BY <2>3, FoundIsLogged
    <3>2. Log!Record(k, b)
      BY <2>1, <2>3, <3>1, StoreAppends DEF Log!Record
    <3> QED BY <3>2 DEF Log!Next
  <2> QED BY <1>1, <2>2, <2>3 DEF StoreReceipt
<1>2. ASSUME NEW k \in HookKeys, NEW b \in HookBytes, StoreKilled(k, b)
      PROVE  [Log!Next]_<<RetainedReceipts, hookAcked>>
  <2>1. hookAcked' = hookAcked /\ hookApplied' = hookApplied
    BY <1>2 DEF StoreKilled
  <2>2. CASE hookAt' = hookAt
    BY <2>1, <2>2, LogFrame
  <2>3. CASE hookAt' = [hookAt EXCEPT ![Active] = @ \cup {<<k, b>>}]
    <3>1. \A r \in RetainedReceipts : r[1] # k
      BY <1>2, FoundIsLogged DEF StoreKilled
    <3>2. Log!Record(k, b)
      BY <2>1, <2>3, <3>1, StoreAppends DEF Log!Record
    <3> QED BY <3>2 DEF Log!Next
  <2> QED BY <1>2, <2>2, <2>3 DEF StoreKilled
<1>3. CASE CommitControl
  BY <1>3, CommitKeepsLog DEF CommitControl
<1>4. CASE \/ \E op \in HookOps : PreviewRotation(op)
           \/ ApplyRotation \/ StageEntry \/ HookKill
           \/ HookRecoverTemporaries \/ HookTakeover \/ UNCHANGED hookVars
  <2>1. UNCHANGED <<hookApplied, hookAt, hookAcked>>
    BY <1>4 DEF PreviewRotation, ApplyRotation, StageEntry, HookKill,
                HookRecoverTemporaries, HookTakeover, hookVars
  <2> QED BY <2>1, LogFrame
<1> QED BY <1>1, <1>2, <1>3, <1>4 DEF HookNext

LEMMA HookStarts ==
    ASSUME HookInit
    PROVE  HookTypes /\ Log!Init
<1>1. HookTypes
  BY DEF HookInit, HookTypes, RunTyped, Generations
<1>2. RetainedReceipts = {}
  BY <1>1, LookupReaches, RetainedNames DEF HookInit, Generations
<1> QED BY <1>1, <1>2 DEF HookInit, Log!Init

(* The generations of hook receipts implement the append-only log: through   *)
(* adoptions, rotations, kills and resumptions a lookup loses, changes and   *)
(* repeats no receipt, and a hook is told only of a recorded one             *)
(* (store_codex_hook_receipt, _apply_rotation_locked).                       *)
THEOREM GenerationsKeepLog == HookSpec => ImplementsReceiptLog
<1>1. HookInit => HookTypes /\ Log!Init
  BY HookStarts
<1>2. HookTypes /\ [HookNext]_hookVars => HookTypes'
  BY HookTypesInductive
<1>3. HookTypes /\ HookTypes' /\ [HookNext]_hookVars
          => [Log!Next]_<<RetainedReceipts, hookAcked>>
  BY HookStepsSimulate
<1> QED BY <1>1, <1>2, <1>3, PTL DEF HookSpec, ImplementsReceiptLog, Log!Spec

-----------------------------------------------------------------------------
(* The generations themselves                                                *)

StagedKinds == {"root", "operations", "generations", "operation", "intent", "marker",
                "directory", "metadata", "seal", "receipts"}

HookShape ==
    /\ HookTypes /\ hookEpoch \in Nat
    /\ hookDisk \subseteq StagedKinds \X Generations
    /\ hookIntent \in [HookOps -> Intents \cup {NoHook}]
    /\ hookSeal \in [Generations -> Seals \cup {NoHook}]

(* An operation is applied once; what was not applied left nothing but what *)
(* its staging put there, and an intent or seal is said to be there when it *)
(* is.                                                                       *)
EntriesFounded ==
    /\ \A i, j \in DOMAIN hookApplied : hookApplied[i] = hookApplied[j] => i = j
    /\ \A o \in HookOps : hookIntent[o] # NoHook <=> <<"intent", o>> \in hookDisk
    /\ \A g \in Generations : hookSeal[g] # NoHook <=> <<"seal", g>> \in hookDisk
    /\ \A o \in AppliedOps : <<"intent", o>> \in hookDisk
    /\ \A kind \in {"operation", "marker"} : <<kind, Legacy>> \notin hookDisk
    /\ \A o \in HookOps \ AppliedOps :
          /\ hookAt[o] = {} /\ <<"seal", o>> \notin hookDisk
          /\ <<"operation", o>> \notin hookDisk =>
                \A kind \in StagedKinds : <<kind, o>> \notin hookDisk

(* No other operation is pending.                                            *)
MayGoOn(op) ==
    /\ op \in HookOps \ AppliedOps
    /\ \A o \in HookOps \ AppliedOps : <<"operation", o>> \in hookDisk => o = op

(* The entries of an operation are staged in their order.                   *)
InOrder(op) ==
    \A i \in 1 .. Len(Staging(op)) - 1 : Staging(op)[i] \in hookDisk =>
        \A j \in 1 .. i : Staging(op)[j] \in hookDisk

(* What an operation said of the store when it began is still so.           *)
StagedTrue(op) ==
    /\ hookIntent[op] # NoHook =>
          hookIntent[op].base = hookApplied /\ hookIntent[op].inventory = hookAt[Active]
    /\ hookSeal[Active] # NoHook => SealMatches(Active, op)

OnePendingRotation ==
    /\ \A o, q \in HookOps \ AppliedOps :
          <<"operation", o>> \in hookDisk /\ <<"operation", q>> \in hookDisk => o = q
    /\ \A op \in HookOps : MayGoOn(op) => InOrder(op) /\ StagedTrue(op)
    /\ \A op \in HookOps \ AppliedOps :
          <<"operation", op>> \in hookDisk /\ Adopted => Len(Retained) < HookGenerations

RunSound ==
    hookRun # NoHook =>
        /\ MayGoOn(hookRun.op) /\ hookRun.intent \in Intents
        /\ hookRun.step \in 1 .. Len(Staging(hookRun.op))
        /\ \A j \in 1 .. hookRun.step - 1 : Staging(hookRun.op)[j] \in hookDisk
        /\ hookRun.intent.base = hookApplied /\ hookRun.intent.inventory = hookAt[Active]
        /\ Adopted => Len(Retained) < HookGenerations

HookInv == HookShape /\ EntriesFounded /\ OnePendingRotation /\ RunSound /\ RetiredAsSealed

(* The entries of a staging, by place.                                       *)
LEMMA StagingPlaces ==
    ASSUME NEW op
    PROVE  /\ Adopted =>
                /\ Len(Staging(op)) = 7
                /\ Staging(op)[1] = <<"operation", op>>  /\ Staging(op)[2] = <<"intent", op>>
                /\ Staging(op)[3] = <<"seal", Active>>   /\ Staging(op)[4] = <<"directory", op>>
                /\ Staging(op)[5] = <<"metadata", op>>   /\ Staging(op)[6] = <<"receipts", op>>
                /\ Staging(op)[7] = <<"control", op>>
           /\ ~Adopted =>
                /\ Len(Staging(op)) = 13
                /\ Staging(op)[1] = <<"root", Legacy>>
                /\ Staging(op)[2] = <<"operations", Legacy>>
                /\ Staging(op)[3] = <<"generations", Legacy>>
                /\ Staging(op)[4] = <<"operation", op>>  /\ Staging(op)[5] = <<"intent", op>>
                /\ Staging(op)[6] = <<"marker", op>>
                /\ Staging(op)[7] = <<"directory", Legacy>>
                /\ Staging(op)[8] = <<"metadata", Legacy>>
                /\ Staging(op)[9] = <<"seal", Legacy>>
                /\ Staging(op)[10] = <<"directory", op>> /\ Staging(op)[11] = <<"metadata", op>>
                /\ Staging(op)[12] = <<"receipts", op>>  /\ Staging(op)[13] = <<"control", op>>
  BY DEF Staging

(* No entry is staged twice, and only the last is control.json.             *)
LEMMA StagingDistinct ==
    ASSUME NEW op \in HookOps
    PROVE  /\ Len(Staging(op)) \in Nat /\ Len(Staging(op)) > 1
           /\ \A i, j \in 1 .. Len(Staging(op)) : Staging(op)[i] = Staging(op)[j] => i = j
           /\ \A i \in 1 .. Len(Staging(op)) : Staging(op)[i][1] = "control" <=> i = Len(Staging(op))
<1> DEFINE S == Staging(op)
<1>1. op # Legacy
  BY HookAssumption
<1>2. CASE Adopted
  <2>1. /\ Len(S) = 7 /\ S[1] = <<"operation", op>> /\ S[2] = <<"intent", op>>
        /\ S[3] = <<"seal", Active>> /\ S[4] = <<"directory", op>>
        /\ S[5] = <<"metadata", op>> /\ S[6] = <<"receipts", op>> /\ S[7] = <<"control", op>>
    BY <1>2, StagingPlaces
  <2> HIDE DEF S
  <2>2. \A i \in 1 .. 7 : i \in {1, 2, 3, 4, 5, 6, 7}
    OBVIOUS
  <2>3. \A i, j \in 1 .. 7 : S[i] = S[j] => i = j
    BY <2>1, <2>2
  <2>4. \A i \in 1 .. 7 : S[i][1] = "control" <=> i = 7
    BY <2>1, <2>2
  <2> QED BY <2>1, <2>3, <2>4 DEF S
<1>3. CASE ~Adopted
  <2>1. /\ Len(S) = 13 /\ S[1] = <<"root", Legacy>>
        /\ S[2] = <<"operations", Legacy>> /\ S[3] = <<"generations", Legacy>>
        /\ S[4] = <<"operation", op>> /\ S[5] = <<"intent", op>> /\ S[6] = <<"marker", op>>
        /\ S[7] = <<"directory", Legacy>> /\ S[8] = <<"metadata", Legacy>>
        /\ S[9] = <<"seal", Legacy>> /\ S[10] = <<"directory", op>>
        /\ S[11] = <<"metadata", op>> /\ S[12] = <<"receipts", op>> /\ S[13] = <<"control", op>>
    BY <1>3, StagingPlaces
  <2> HIDE DEF S
  <2>2. \A i \in 1 .. 13 : i \in {1, 2, 3, 4, 5, 6, 7, 8, 9, 10, 11, 12, 13}
    OBVIOUS
  <2>3. \A i, j \in 1 .. 13 : S[i] = S[j] => i = j
    BY <1>1, <2>1, <2>2
  <2>4. \A i \in 1 .. 13 : S[i][1] = "control" <=> i = 13
    BY <2>1, <2>2
  <2> QED BY <2>1, <2>3, <2>4 DEF S
<1> QED BY <1>2, <1>3

(* The retained generations by place: the active one is the last and none   *)
(* other.                                                                    *)
LEMMA RetainedPlaces ==
    ASSUME HookShape, EntriesFounded
    PROVE  /\ Len(hookApplied) \in Nat /\ DOMAIN hookApplied = 1 .. Len(hookApplied)
           /\ Len(Retained) = Len(hookApplied) + 1
           /\ DOMAIN Retained = 1 .. Len(hookApplied) + 1
           /\ Adopted <=> Len(hookApplied) > 0
           /\ Retained[1] = Legacy
           /\ \A i \in 1 .. Len(hookApplied) : Retained[i + 1] = hookApplied[i]
           /\ \A i, j \in DOMAIN Retained : Retained[i] = Retained[j] => i = j
           /\ Active = Retained[Len(hookApplied) + 1]
           /\ Active = IF Adopted THEN hookApplied[Len(hookApplied)] ELSE Legacy
<1> USE DEF HookTypes
<1>1. Retained = <<Legacy>> \o hookApplied
  BY RetainedIsConcat DEF HookShape
<1>2. /\ Len(hookApplied) \in Nat /\ DOMAIN hookApplied = 1 .. Len(hookApplied)
      /\ Adopted <=> Len(hookApplied) > 0
      /\ \A i \in 1 .. Len(hookApplied) : hookApplied[i] \in HookOps
  BY DEF HookShape, Adopted
<1>3. /\ Len(Retained) = Len(hookApplied) + 1
      /\ DOMAIN Retained = 1 .. Len(hookApplied) + 1
      /\ Retained[1] = Legacy
      /\ \A i \in 1 .. Len(hookApplied) : Retained[i + 1] = hookApplied[i]
  <2>1. <<Legacy>> \in Seq(Generations) /\ Len(<<Legacy>>) = 1 /\ <<Legacy>>[1] = Legacy
    BY DEF Generations
  <2>2. hookApplied \in Seq(Generations)
    BY DEF Generations, HookShape
  <2> QED BY <1>1, <2>1, <2>2
<1>4. \A i \in 2 .. Len(hookApplied) + 1 : /\ i - 1 \in 1 .. Len(hookApplied)
                                           /\ Retained[i] = hookApplied[i - 1]
  <2> TAKE i \in 2 .. Len(hookApplied) + 1
  <2>1. i - 1 \in 1 .. Len(hookApplied) /\ (i - 1) + 1 = i
    BY <1>2
  <2> QED BY <2>1, <1>3
<1>5. ASSUME NEW i \in DOMAIN Retained, NEW j \in DOMAIN Retained, Retained[i] = Retained[j]
      PROVE  i = j
  <2>1. i \in 1 .. Len(hookApplied) + 1 /\ j \in 1 .. Len(hookApplied) + 1
    BY <1>3
  <2>2. CASE i > 1 /\ j > 1
    BY <1>2, <1>4, <1>5, <2>1, <2>2 DEF EntriesFounded
  <2>3. CASE i = 1 \/ j = 1
    <3>1. ASSUME NEW k \in 2 .. Len(hookApplied) + 1 PROVE Retained[k] # Legacy
      BY <1>2, <1>4, HookAssumption
    <3> QED BY <1>2, <1>3, <1>5, <2>1, <2>3, <3>1
  <2> QED BY <2>1, <2>2, <2>3
<1>6. /\ Active = Retained[Len(hookApplied) + 1]
      /\ Active = IF Adopted THEN hookApplied[Len(hookApplied)] ELSE Legacy
  <2>1. Active = Retained[Len(hookApplied) + 1]
    BY <1>3 DEF Active
  <2>2. CASE Len(hookApplied) > 0
    BY <1>2, <1>3, <2>1, <2>2
  <2>3. CASE Len(hookApplied) = 0
    BY <1>2, <1>3, <2>1, <2>3
  <2> QED BY <1>2, <2>1, <2>2, <2>3
<1> QED BY <1>2, <1>3, <1>5, <1>6

LEMMA ThereIs ==
    ASSUME HookShape, NEW kind
    PROVE  \A x : x \in There(kind) <=> <<kind, x>> \in hookDisk
<1>1. ASSUME NEW x, x \in There(kind) PROVE <<kind, x>> \in hookDisk
  <2>1. PICK e \in hookDisk : e[1] = kind /\ e[2] = x
    BY <1>1 DEF There
  <2>2. e = <<e[1], e[2]>>
    BY DEF HookShape
  <2> QED BY <2>1, <2>2
<1>2. ASSUME NEW x, <<kind, x>> \in hookDisk PROVE x \in There(kind)
  BY <1>2 DEF There
<1> QED BY <1>1, <1>2

LEMMA AppliedFrame ==
    ASSUME hookApplied' = hookApplied
    PROVE  /\ Retained' = Retained /\ Active' = Active /\ AppliedOps' = AppliedOps
           /\ Adopted' <=> Adopted
           /\ \A op : Staging(op)' = Staging(op)
  BY DEF Retained, Active, AppliedOps, Adopted, Staging

(* Steps that stage nothing, store nothing and commit nothing.              *)
LEMMA StoreFrame ==
    ASSUME HookInv, HookTypes', hookEpoch' \in Nat,
           hookApplied' = hookApplied, hookDisk' = hookDisk, hookIntent' = hookIntent,
           hookSeal' = hookSeal, hookAt' = hookAt
    PROVE  /\ HookShape' /\ EntriesFounded' /\ OnePendingRotation' /\ RetiredAsSealed'
           /\ \A op : MayGoOn(op)' <=> MayGoOn(op)
<1>1. /\ Retained' = Retained /\ Active' = Active /\ AppliedOps' = AppliedOps
      /\ Adopted' <=> Adopted
      /\ \A op : Staging(op)' = Staging(op)
  BY AppliedFrame
<1>2. \A op : /\ MayGoOn(op)' <=> MayGoOn(op)
              /\ InOrder(op)' <=> InOrder(op)
              /\ StagedTrue(op)' <=> StagedTrue(op)
  BY <1>1 DEF MayGoOn, InOrder, StagedTrue, SealMatches
<1>3. HookShape'
  BY DEF HookInv, HookShape
<1>4. EntriesFounded'
  BY <1>1 DEF HookInv, EntriesFounded
<1>5. OnePendingRotation'
  BY <1>1, <1>2 DEF HookInv, OnePendingRotation
<1>6. RetiredAsSealed'
  BY <1>1 DEF HookInv, RetiredAsSealed, SealMatches, Unrepeated
<1> QED BY <1>2, <1>3, <1>4, <1>5, <1>6

LEMMA ApplyKeepsInv ==
    ASSUME HookInv, ApplyRotation, HookTypes'
    PROVE  HookInv'
<1>0. PICK op : op = hookSeen.op
  OBVIOUS
<1>1. /\ hookApplied' = hookApplied /\ hookDisk' = hookDisk /\ hookIntent' = hookIntent
      /\ hookSeal' = hookSeal /\ hookAt' = hookAt /\ hookEpoch' = hookEpoch
  BY DEF ApplyRotation
<1>2. /\ op \in HookOps \ AppliedOps /\ hookEpoch \in Nat /\ HookShape
      /\ ApplyAllowed(hookSeen, hookEpoch) /\ HookTypes
  BY <1>0 DEF ApplyRotation, HookInv, HookShape, HookTypes
<1>3. /\ HookShape' /\ EntriesFounded' /\ OnePendingRotation' /\ RetiredAsSealed'
      /\ MayGoOn(op)' <=> MayGoOn(op)
  BY <1>1, <1>2, StoreFrame
<1>4. MayGoOn(op) /\ (Adopted => Len(Retained) < HookGenerations)
  <2>1. \A o \in HookOps \ AppliedOps : <<"operation", o>> \in hookDisk => o = op
    BY <1>0, <1>2, ThereIs DEF ApplyAllowed, PreviewAllowed, CommittedStore, IntentsBound, AdoptionPrefix
  <2>2. Adopted => Len(Retained) < HookGenerations
    BY <1>0, <1>2 DEF ApplyAllowed, PreviewAllowed
  <2> QED BY <1>2, <2>1, <2>2 DEF MayGoOn
<1>5. /\ hookSeen.inventory = hookAt[Active] /\ hookSeen.base = hookApplied
      /\ PreviewOf(op) = hookSeen
  BY <1>0, <1>2 DEF ApplyAllowed
<1>6. Active \in Generations
  BY <1>2, RetainedNames
<1> DEFINE i == IF hookIntent[op] = NoHook THEN IntentOf(hookSeen, hookEpoch) ELSE hookIntent[op]
<1>7. /\ i \in Intents /\ i.base = hookApplied /\ i.inventory = hookAt[Active]
  <2>1. CASE hookIntent[op] = NoHook
    <3>1. i = [base |-> hookApplied, inventory |-> hookAt[Active], epoch |-> hookEpoch]
      BY <1>5, <2>1 DEF IntentOf
    <3>2. hookApplied \in Seq(HookOps) /\ hookAt[Active] \in Inventories
      BY <1>2, <1>6 DEF HookTypes, Inventories
    <3> QED BY <1>2, <3>1, <3>2 DEF Intents
  <2>2. CASE hookIntent[op] # NoHook
    <3>1. PreviewOf(op) = [op |-> op, base |-> hookIntent[op].base,
                           inventory |-> hookIntent[op].inventory]
      BY <2>2 DEF PreviewOf
    <3> QED BY <1>2, <1>5, <2>2, <3>1 DEF HookShape
  <2> QED BY <2>1, <2>2
<1>8. hookRun' = [op |-> op, step |-> 1, intent |-> i]
  BY <1>0 DEF ApplyRotation
<1> HIDE DEF i
<1>9. RunSound'
  <2>1. /\ hookRun'.op = op /\ hookRun'.step = 1 /\ hookRun'.intent = i
    BY <1>8
  <2>2. /\ Retained' = Retained /\ Active' = Active /\ (Adopted' <=> Adopted)
        /\ Staging(op)' = Staging(op)
    BY <1>1, AppliedFrame
  <2>3. Len(Staging(op)) \in Nat /\ Len(Staging(op)) > 1
    BY <1>2, StagingDistinct
  <2>4. 1 \in 1 .. Len(Staging(op)) /\ \A j \in 1 .. 1 - 1 : FALSE
    BY <2>3
  <2> QED BY <1>1, <1>3, <1>4, <1>7, <2>1, <2>2, <2>4 DEF RunSound
<1> QED BY <1>3, <1>9 DEF HookInv

(* What a hook stores: no operation is pending then, and its key was not    *)
(* recorded.                                                                 *)
LEMMA StoreKeepsInv ==
    ASSUME HookInv, HookTypes', NEW k \in HookKeys, NEW b \in HookBytes,
           HookIdle, RuntimeControl, Found(k) = {},
           hookAt' = [hookAt EXCEPT ![Active] = @ \cup {<<k, b>>}],
           hookApplied' = hookApplied, hookDisk' = hookDisk, hookIntent' = hookIntent,
           hookSeal' = hookSeal, hookEpoch' = hookEpoch, hookRun' = hookRun
    PROVE  HookInv'
<1>1. /\ Retained' = Retained /\ Active' = Active /\ AppliedOps' = AppliedOps
      /\ Adopted' <=> Adopted
      /\ \A op : Staging(op)' = Staging(op)
  BY AppliedFrame
<1>2. HookShape /\ HookTypes /\ EntriesFounded /\ OnePendingRotation /\ RetiredAsSealed
  BY DEF HookInv, HookShape
<1>3. Active \in Readable /\ Readable \subseteq Generations
  BY <1>2, RetainedNames
<1>4. /\ hookAt'[Active] = hookAt[Active] \cup {<<k, b>>}
      /\ \A g \in Generations \ {Active} : hookAt'[g] = hookAt[g]
  BY <1>2, <1>3 DEF HookTypes
<1>5. ASSUME NEW o \in HookOps \ AppliedOps, <<"operation", o>> \in hookDisk
      PROVE  FALSE
  <2>1. CASE Adopted
    <3>1. o \in There("operation") \ AppliedOps
      BY <1>2, <1>5, ThereIs
    <3> QED BY <2>1, <3>1, HookAssumption
            DEF RuntimeControl, CommittedStore, IntentsBound
  <2>2. CASE ~Adopted
    <3>1. MayGoOn(o)
      BY <1>2, <1>5 DEF MayGoOn, OnePendingRotation
    <3>2. InOrder(o)
      BY <1>2, <3>1 DEF OnePendingRotation
    <3>3. /\ Staging(o)[4] = <<"operation", o>> /\ Staging(o)[1] = <<"root", Legacy>>
          /\ Len(Staging(o)) = 13
      BY <2>2, StagingPlaces
    <3>4. <<"root", Legacy>> \in hookDisk
      <4>1. 4 \in 1 .. Len(Staging(o)) - 1 /\ 1 \in 1 .. 4
        BY <3>3
      <4> QED BY <1>5, <3>2, <3>3, <4>1 DEF InOrder
    <3> QED BY <1>2, <2>2, <3>4, ThereIs DEF RuntimeControl
  <2> QED BY <2>1, <2>2
<1>6. HookShape'
  BY <1>2 DEF HookShape
<1>7. EntriesFounded'
  <2>1. \A o \in HookOps \ AppliedOps : o # Active /\ o \in Generations
    BY <1>3, HookAssumption DEF Readable, Generations
  <2>2. \A o \in HookOps \ AppliedOps : hookAt'[o] = {}
    BY <1>2, <1>4, <2>1 DEF EntriesFounded
  <2> QED BY <1>1, <1>2, <2>2 DEF EntriesFounded
<1>8. OnePendingRotation'
  <2>1. ASSUME NEW op \in HookOps, MayGoOn(op)'
        PROVE  InOrder(op)' /\ StagedTrue(op)'
    <3>1. MayGoOn(op) /\ op \in HookOps \ AppliedOps
      BY <1>1, <2>1 DEF MayGoOn
    <3>2. InOrder(op) /\ StagedTrue(op)
      BY <1>2, <3>1 DEF OnePendingRotation
    <3>3. <<"operation", op>> \notin hookDisk
      BY <1>5, <3>1
    <3>4. hookIntent[op] = NoHook
      <4>1. <<"intent", op>> \notin hookDisk
        BY <1>2, <3>1, <3>3 DEF EntriesFounded, StagedKinds
      <4> QED BY <1>2, <3>1, <4>1 DEF EntriesFounded
    <3>5. hookSeal[Active] = NoHook
      <4>1. CASE Adopted
        <5>1. /\ Staging(op)[3] = <<"seal", Active>> /\ Staging(op)[1] = <<"operation", op>>
              /\ 3 \in 1 .. Len(Staging(op)) - 1 /\ 1 \in 1 .. 3
          <6>1. /\ Staging(op)[3] = <<"seal", Active>> /\ Staging(op)[1] = <<"operation", op>>
                /\ Len(Staging(op)) = 7
            BY <4>1, StagingPlaces
          <6> QED BY <6>1
        <5>2. <<"seal", Active>> \notin hookDisk
          BY <3>2, <3>3, <5>1 DEF InOrder
        <5> QED BY <1>2, <1>3, <5>2 DEF EntriesFounded
      <4>2. CASE ~Adopted
        <5>1. /\ Staging(op)[9] = <<"seal", Legacy>> /\ Staging(op)[4] = <<"operation", op>>
              /\ 9 \in 1 .. Len(Staging(op)) - 1 /\ 4 \in 1 .. 9
          <6>1. /\ Staging(op)[9] = <<"seal", Legacy>> /\ Staging(op)[4] = <<"operation", op>>
                /\ Len(Staging(op)) = 13
            BY <4>2, StagingPlaces
          <6> QED BY <6>1
        <5>2. Active = Legacy
          BY <1>2, <4>2, RetainedPlaces
        <5>3. <<"seal", Active>> \notin hookDisk
          BY <3>2, <3>3, <5>1, <5>2 DEF InOrder
        <5> QED BY <1>2, <1>3, <5>3 DEF EntriesFounded
      <4> QED BY <4>1, <4>2
    <3>6. InOrder(op)'
      BY <1>1, <3>2 DEF InOrder
    <3> QED BY <1>1, <3>4, <3>5, <3>6 DEF StagedTrue
  <2> QED BY <1>1, <1>2, <1>5, <2>1 DEF OnePendingRotation
<1>9. RetiredAsSealed'
  <2>1. /\ Len(Retained) = Len(hookApplied) + 1 /\ Len(hookApplied) \in Nat
        /\ DOMAIN Retained = 1 .. Len(hookApplied) + 1
        /\ \A i, j \in DOMAIN Retained : Retained[i] = Retained[j] => i = j
        /\ Active = Retained[Len(hookApplied) + 1]
        /\ \A i \in DOMAIN Retained : Retained[i] \in Generations
    BY <1>2, RetainedPlaces, RetainedNames
  <2>2. \A i \in 1 .. Len(Retained) - 1 : SealMatches(Retained[i], hookApplied[i])'
    <3> TAKE i \in 1 .. Len(Retained) - 1
    <3>1. i \in DOMAIN Retained /\ Retained[i] # Active
      BY <2>1
    <3> QED BY <1>1, <1>2, <1>4, <2>1, <3>1 DEF RetiredAsSealed, SealMatches
  <2>3. \A i \in DOMAIN Retained : \A r \in hookAt[Retained[i]] : r[1] # k
    BY DEF Found
  <2>4. \A i \in DOMAIN Retained : \A r \in hookAt'[Retained[i]] :
           r \in hookAt[Retained[i]] \/ (r = <<k, b>> /\ i = Len(hookApplied) + 1)
    BY <1>4, <2>1
  <2>5. ASSUME NEW i \in DOMAIN Retained, NEW j \in DOMAIN Retained,
               NEW r \in hookAt'[Retained[i]], NEW u \in hookAt'[Retained[j]], r[1] = u[1]
        PROVE  i = j /\ r = u
    <3>1. r \in hookAt[Retained[i]] <=> u \in hookAt[Retained[j]]
      BY <2>3, <2>4, <2>5
    <3>2. CASE r \in hookAt[Retained[i]]
      BY <1>2, <2>5, <3>1, <3>2 DEF RetiredAsSealed, Unrepeated
    <3>3. CASE r \notin hookAt[Retained[i]]
      BY <2>4, <3>1, <3>3
    <3> QED BY <3>2, <3>3
  <2>6. Unrepeated'
    BY <1>1, <2>5 DEF Unrepeated
  <2> QED BY <1>1, <1>2, <2>2, <2>6 DEF RetiredAsSealed
<1>10. RunSound'
  BY DEF RunSound, HookIdle
<1> QED BY <1>6, <1>7, <1>8, <1>9, <1>10 DEF HookInv

(* What is staged belongs to the operation, or to the adopted generation or *)
(* the active one; nothing of the operation comes before its own entry.     *)
OwnedEntry(op, i, e) ==
    /\ e \in StagedKinds \X Generations
    /\ e[2] \in HookOps \ AppliedOps => e[2] = op
    /\ e[1] \in {"operation", "intent", "marker"} => e[2] = op
    /\ e[1] = "seal" => e[2] = Active
    /\ e[2] = op => \E j \in 1 .. i : Staging(op)[j] = <<"operation", op>>
    /\ e[1] = "seal" \/ e[1] = "intent"
          => \E j \in 1 .. i - 1 : Staging(op)[j] = <<"operation", op>>
    /\ \/ \E j \in 1 .. i : Staging(op)[j] = <<"operation", op>>
       \/ \A q \in HookOps :
             i < Len(Staging(q)) /\ \A j \in 1 .. i : Staging(q)[j] = Staging(op)[j]

LEMMA StagingOwners ==
    ASSUME HookShape, EntriesFounded, NEW op \in HookOps \ AppliedOps,
           NEW i \in 1 .. Len(Staging(op)) - 1
    PROVE  OwnedEntry(op, i, Staging(op)[i])
<1>0. PICK e : e = Staging(op)[i]
  OBVIOUS
<1>1. Active \in Generations /\ Active \in Readable /\ op \in Generations /\ Legacy \in Generations
  BY RetainedNames DEF HookShape, Generations
<1>2. Active \notin HookOps \ AppliedOps /\ Legacy \notin HookOps
  BY <1>1, HookAssumption DEF Readable
<1>3. CASE Adopted
  <2>1. /\ Len(Staging(op)) = 7
        /\ Staging(op)[1] = <<"operation", op>>  /\ Staging(op)[2] = <<"intent", op>>
        /\ Staging(op)[3] = <<"seal", Active>>   /\ Staging(op)[4] = <<"directory", op>>
        /\ Staging(op)[5] = <<"metadata", op>>   /\ Staging(op)[6] = <<"receipts", op>>
    BY <1>3, StagingPlaces
  <2>2. i \in {1, 2, 3, 4, 5, 6}
    BY <2>1
  <2>3. /\ e \in StagedKinds \X Generations
        /\ e[2] \in HookOps \ AppliedOps => e[2] = op
        /\ e[1] \in {"operation", "intent", "marker"} => e[2] = op
        /\ e[1] = "seal" => e[2] = Active
        /\ e[1] = "seal" \/ e[1] = "intent" => i > 1
    BY <1>0, <1>1, <1>2, <2>1, <2>2 DEF StagedKinds
  <2>4. 1 \in 1 .. i /\ (i > 1 => 1 \in 1 .. i - 1)
    BY <2>2
  <2> QED BY <1>0, <2>1, <2>3, <2>4 DEF OwnedEntry
<1>4. CASE ~Adopted
  <2>1. /\ Len(Staging(op)) = 13
        /\ Staging(op)[1] = <<"root", Legacy>>
        /\ Staging(op)[2] = <<"operations", Legacy>>
        /\ Staging(op)[3] = <<"generations", Legacy>>
        /\ Staging(op)[4] = <<"operation", op>>  /\ Staging(op)[5] = <<"intent", op>>
        /\ Staging(op)[6] = <<"marker", op>>
        /\ Staging(op)[7] = <<"directory", Legacy>>
        /\ Staging(op)[8] = <<"metadata", Legacy>>
        /\ Staging(op)[9] = <<"seal", Legacy>>
        /\ Staging(op)[10] = <<"directory", op>> /\ Staging(op)[11] = <<"metadata", op>>
        /\ Staging(op)[12] = <<"receipts", op>>
    BY <1>4, StagingPlaces
  <2>2. i \in {1, 2, 3, 4, 5, 6, 7, 8, 9, 10, 11, 12} /\ Active = Legacy
    BY <1>4, <2>1, RetainedPlaces
  <2>3. /\ e \in StagedKinds \X Generations
        /\ e[2] \in HookOps \ AppliedOps => e[2] = op
        /\ e[1] \in {"operation", "intent", "marker"} => e[2] = op
        /\ e[1] = "seal" => e[2] = Active
        /\ e[1] = "seal" \/ e[1] = "intent" => i > 4
        /\ e[2] = op => i >= 4
    BY <1>0, <1>1, <1>2, <2>1, <2>2 DEF StagedKinds
  <2>4. /\ i >= 4 => 4 \in 1 .. i
        /\ i > 4 => 4 \in 1 .. i - 1
        /\ i < 4 => \A j \in 1 .. i : j \in {1, 2, 3}
    BY <2>2
  <2>5. i < 4 => \A q \in HookOps :
           i < Len(Staging(q)) /\ \A j \in 1 .. i : Staging(q)[j] = Staging(op)[j]
    <3> SUFFICES ASSUME i < 4, NEW q \in HookOps
                 PROVE  i < Len(Staging(q)) /\ \A j \in 1 .. i : Staging(q)[j] = Staging(op)[j]
      OBVIOUS
    <3>1. /\ Len(Staging(q)) = 13
          /\ Staging(q)[1] = <<"root", Legacy>>
          /\ Staging(q)[2] = <<"operations", Legacy>>
          /\ Staging(q)[3] = <<"generations", Legacy>>
      BY <1>4, StagingPlaces
    <3> QED BY <2>1, <2>4, <3>1
  <2>6. i >= 4 \/ i < 4
    BY <2>2
  <2> QED BY <1>0, <2>1, <2>3, <2>4, <2>5, <2>6 DEF OwnedEntry
<1> QED BY <1>3, <1>4

(* One more entry, behind all those before it.                               *)
LEMMA OrderKept ==
    ASSUME NEW q \in HookOps, InOrder(q), Staging(q)' = Staging(q),
           NEW i \in 1 .. Len(Staging(q)) - 1,
           \A j \in 1 .. i - 1 : Staging(q)[j] \in hookDisk,
           hookDisk' = hookDisk \cup {Staging(q)[i]}
    PROVE  InOrder(q)'
<1> SUFFICES ASSUME NEW k \in 1 .. Len(Staging(q)) - 1, Staging(q)[k] \in hookDisk',
                    NEW j \in 1 .. k
             PROVE  Staging(q)[j] \in hookDisk'
  BY DEF InOrder
<1>1. CASE Staging(q)[k] \in hookDisk
  BY <1>1 DEF InOrder
<1>2. CASE Staging(q)[k] = Staging(q)[i]
  <2>1. k = i
    BY <1>2, StagingDistinct
  <2>2. j \in 1 .. i - 1 \/ j = i
    BY <2>1, StagingDistinct
  <2> QED BY <2>2
<1> QED BY <1>1, <1>2

LEMMA StageKeepsInv ==
    ASSUME HookInv, HookTypes', StageEntry
    PROVE  HookInv'
<1>1. PICK op, s, e : op = hookRun.op /\ s = hookRun.step /\ e = Staging(op)[s]
  OBVIOUS
<1>2. /\ HookShape /\ HookTypes /\ EntriesFounded /\ OnePendingRotation /\ RetiredAsSealed
      /\ hookRun # NoHook
      /\ hookRun = [op |-> op, step |-> s, intent |-> hookRun.intent]
  BY <1>1 DEF HookInv, HookShape, HookTypes, StageEntry, HookIdle, RunTyped
<1>3. /\ MayGoOn(op) /\ op \in HookOps \ AppliedOps /\ hookRun.intent \in Intents
      /\ s \in 1 .. Len(Staging(op)) /\ \A j \in 1 .. s - 1 : Staging(op)[j] \in hookDisk
      /\ hookRun.intent.base = hookApplied /\ hookRun.intent.inventory = hookAt[Active]
      /\ Adopted => Len(Retained) < HookGenerations
  BY <1>1, <1>2 DEF HookInv, RunSound, MayGoOn
<1>4. s \in 1 .. Len(Staging(op)) - 1 /\ s + 1 \in 1 .. Len(Staging(op))
      /\ s \in Nat
  <2>1. e[1] # "control"
    BY <1>1 DEF StageEntry, NextEntry
  <2>2. s # Len(Staging(op))
    BY <1>1, <1>3, <2>1, StagingDistinct
  <2> QED BY <1>3, <2>2, StagingDistinct
<1>5. /\ OwnedEntry(op, s, e) /\ e \in StagedKinds \X Generations
      /\ \A kind, x : <<kind, x>> = e <=> e[1] = kind /\ e[2] = x
      /\ e[2] \in HookOps \ AppliedOps => e[2] = op
      /\ e[1] \in {"operation", "intent", "marker"} => e[2] = op
      /\ e[1] = "seal" => e[2] = Active
      /\ e[2] = op => \E j \in 1 .. s : Staging(op)[j] = <<"operation", op>>
      /\ \/ \E j \in 1 .. s : Staging(op)[j] = <<"operation", op>>
         \/ \A q \in HookOps : s < Len(Staging(q)) /\ \A j \in 1 .. s : Staging(q)[j] = Staging(op)[j]
  <2>1. OwnedEntry(op, s, e)
    BY <1>1, <1>2, <1>3, <1>4, StagingOwners
  <2>2. e \in StagedKinds \X Generations
    BY <2>1 DEF OwnedEntry
  <2>3. \A kind, x : <<kind, x>> = e <=> e[1] = kind /\ e[2] = x
    BY <2>2
  <2> QED BY <2>1, <2>2, <2>3 DEF OwnedEntry
<1>6. /\ hookApplied' = hookApplied /\ hookAt' = hookAt /\ hookEpoch' = hookEpoch
      /\ Retained' = Retained /\ Active' = Active /\ AppliedOps' = AppliedOps
      /\ Adopted' <=> Adopted
      /\ \A q : Staging(q)' = Staging(q)
  BY AppliedFrame DEF StageEntry
<1>7. ASSUME e \in hookDisk', hookDisk \subseteq hookDisk', MayGoOn(op)',
             hookRun' = NoHook \/ hookRun' = [hookRun EXCEPT !.step = @ + 1]
      PROVE  RunSound'
  <2> SUFFICES ASSUME hookRun' # NoHook PROVE RunSound'
    BY DEF RunSound
  <2>1. hookRun'.op = op /\ hookRun'.step = s + 1 /\ hookRun'.intent = hookRun.intent
    BY <1>2, <1>7
  <2>2. \A j \in 1 .. (s + 1) - 1 : Staging(op)[j] \in hookDisk'
    <3> TAKE j \in 1 .. (s + 1) - 1
    <3>1. j \in 1 .. s - 1 \/ j = s
      BY <1>4
    <3> QED BY <1>1, <1>3, <1>7, <3>1
  <2>3. Staging(op)' = Staging(op)
    BY <1>6
  <2> QED BY <1>3, <1>4, <1>6, <1>7, <2>1, <2>2, <2>3 DEF RunSound
<1>8. CASE e \in hookDisk
  <2>1. /\ hookDisk' = hookDisk /\ hookIntent' = hookIntent /\ hookSeal' = hookSeal
        /\ hookRun' = NoHook \/ hookRun' = [hookRun EXCEPT !.step = @ + 1]
    BY <1>1, <1>8 DEF StageEntry, NextEntry
  <2>2. hookEpoch' \in Nat
    BY <1>2, <1>6 DEF HookShape
  <2>3. /\ HookShape' /\ EntriesFounded' /\ OnePendingRotation' /\ RetiredAsSealed'
        /\ MayGoOn(op)'
    BY <1>3, <1>6, <2>1, <2>2, StoreFrame
  <2> QED BY <1>7, <1>8, <2>1, <2>3 DEF HookInv
<1>9. CASE e \notin hookDisk
  <2>1. /\ hookDisk' = hookDisk \cup {e}
        /\ hookIntent' = IF e[1] = "intent" THEN [hookIntent EXCEPT ![op] = hookRun.intent]
                                            ELSE hookIntent
        /\ hookSeal' = IF e[1] = "seal"
                       THEN [hookSeal EXCEPT ![Active] = [inventory |-> hookAt[Active], by |-> op]]
                       ELSE hookSeal
        /\ hookRun' = [hookRun EXCEPT !.step = @ + 1]
    <3>1. NextEntry = e
      BY <1>1 DEF NextEntry
    <3>2. /\ hookDisk' = hookDisk \cup {e}
          /\ hookIntent' = IF e[1] = "intent"
                           THEN [hookIntent EXCEPT ![e[2]] = hookRun.intent] ELSE hookIntent
          /\ hookSeal' = IF e[1] = "seal"
                         THEN [hookSeal EXCEPT ![e[2]] = [inventory |-> hookAt[e[2]],
                                                          by |-> hookRun.op]]
                         ELSE hookSeal
          /\ hookRun' = [hookRun EXCEPT !.step = @ + 1]
      BY <1>9, <3>1 DEF StageEntry
    <3>3. (e[1] = "intent" => e[2] = op) /\ (e[1] = "seal" => e[2] = Active)
      BY <1>5
    <3> QED BY <1>1, <3>2, <3>3
  <2> DEFINE seal == [inventory |-> hookAt[Active], by |-> op]
  <2>2. Active \in Generations /\ Active \notin HookOps \ AppliedOps /\ seal \in Seals
    <3>1. Active \in Readable /\ Active \in Generations
      BY <1>2, RetainedNames
    <3>2. hookAt[Active] \in Inventories
      BY <1>2, <3>1 DEF HookTypes, Inventories
    <3> QED BY <1>3, <3>1, <3>2, HookAssumption DEF Readable, Seals
  <2>3. /\ \A o \in HookOps : hookIntent'[o] = IF e[1] = "intent" /\ o = op THEN hookRun.intent
                                                                          ELSE hookIntent[o]
        /\ \A g \in Generations : hookSeal'[g] = IF e[1] = "seal" /\ g = Active THEN seal
                                                                                ELSE hookSeal[g]
    BY <1>2, <2>1 DEF HookShape
  <2>4. hookRun.intent # NoHook /\ seal # NoHook
    BY <1>3, <2>2, HookAssumption
  <2> HIDE DEF seal
  <2>5. HookShape'
    BY <1>2, <1>3, <1>5, <1>6, <2>1, <2>2 DEF HookShape, seal
  <2>6. EntriesFounded'
    <3>0. \A kind, x : <<kind, x>> \in hookDisk' <=>
                          <<kind, x>> \in hookDisk \/ (e[1] = kind /\ e[2] = x)
      BY <1>5, <2>1
    <3>1. ASSUME NEW o \in HookOps
          PROVE  hookIntent'[o] # NoHook <=> <<"intent", o>> \in hookDisk'
      <4>1. hookIntent[o] # NoHook <=> <<"intent", o>> \in hookDisk
        BY <1>2 DEF EntriesFounded
      <4>2. <<"intent", o>> \in hookDisk' <=> <<"intent", o>> \in hookDisk
                                                \/ (e[1] = "intent" /\ o = op)
        BY <1>5, <3>0
      <4> QED BY <2>3, <2>4, <4>1, <4>2
    <3>2. ASSUME NEW g \in Generations
          PROVE  hookSeal'[g] # NoHook <=> <<"seal", g>> \in hookDisk'
      <4>1. hookSeal[g] # NoHook <=> <<"seal", g>> \in hookDisk
        BY <1>2 DEF EntriesFounded
      <4>2. <<"seal", g>> \in hookDisk' <=> <<"seal", g>> \in hookDisk
                                              \/ (e[1] = "seal" /\ g = Active)
        BY <1>5, <3>0
      <4> QED BY <2>3, <2>4, <4>1, <4>2
    <3>3. ASSUME NEW o \in HookOps \ AppliedOps
          PROVE  /\ hookAt'[o] = {} /\ <<"seal", o>> \notin hookDisk'
                 /\ <<"operation", o>> \notin hookDisk' =>
                       \A kind \in StagedKinds : <<kind, o>> \notin hookDisk'
      <4>1. hookAt'[o] = {} /\ <<"seal", o>> \notin hookDisk'
        <5>1. hookAt[o] = {} /\ <<"seal", o>> \notin hookDisk
          BY <1>2 DEF EntriesFounded
        <5>2. o # Active
          BY <2>2
        <5> QED BY <1>5, <1>6, <3>0, <5>1, <5>2
      <4>2. ASSUME <<"operation", o>> \notin hookDisk', NEW kind \in StagedKinds,
                   <<kind, o>> \in hookDisk'
            PROVE  FALSE
        <5>1. <<kind, o>> = e
          BY <1>2, <2>1, <4>2 DEF EntriesFounded
        <5>2. o = op /\ e[2] = op
          BY <1>5, <5>1
        <5>3. PICK j \in 1 .. s : Staging(op)[j] = <<"operation", op>>
          BY <1>5, <5>2
        <5>4. j \in 1 .. s - 1 \/ j = s
          BY <1>4
        <5> QED BY <1>1, <1>3, <2>1, <4>2, <5>2, <5>3, <5>4
      <4> QED BY <4>1, <4>2
    <3>4. \A kind \in {"operation", "marker"} : <<kind, Legacy>> \notin hookDisk'
      <4>1. op # Legacy
        BY <1>3, HookAssumption
      <4> QED BY <1>2, <1>5, <3>0, <4>1 DEF EntriesFounded
    <3> QED BY <1>2, <1>6, <2>1, <3>1, <3>2, <3>3, <3>4 DEF EntriesFounded
  <2>7. \A o \in HookOps \ AppliedOps : <<"operation", o>> \in hookDisk' => o = op
    BY <1>3, <1>5, <2>1 DEF MayGoOn
  <2>8. MayGoOn(op)'
    BY <1>3, <1>6, <2>7 DEF MayGoOn
  <2>9. ASSUME NEW q \in HookOps, MayGoOn(q)'
        PROVE  InOrder(q)' /\ StagedTrue(q)'
    <3>1. /\ MayGoOn(q) /\ q \in HookOps \ AppliedOps
          /\ <<"operation", op>> \in hookDisk' => q = op
      BY <1>3, <1>6, <2>1, <2>9 DEF MayGoOn
    <3>2. InOrder(q) /\ StagedTrue(q)
      BY <1>2, <3>1 DEF OnePendingRotation
    <3>3. /\ s \in 1 .. Len(Staging(q)) - 1 /\ Staging(q)[s] = e
          /\ \A j \in 1 .. s - 1 : Staging(q)[j] \in hookDisk
          /\ q # op => \A j \in 1 .. s : Staging(op)[j] # <<"operation", op>>
      <4>1. CASE q = op
        BY <1>1, <1>3, <1>4, <4>1
      <4>2. CASE q # op
        <5>1. ASSUME NEW j \in 1 .. s PROVE Staging(op)[j] # <<"operation", op>>
          <6>1. j \in 1 .. s - 1 \/ j = s
            BY <1>4
          <6> QED BY <1>1, <1>3, <2>1, <3>1, <4>2, <6>1
        <5>2. s < Len(Staging(q)) /\ \A j \in 1 .. s : Staging(q)[j] = Staging(op)[j]
          BY <1>5, <5>1
        <5>3. s \in 1 .. s /\ s \in 1 .. Len(Staging(q)) - 1
              /\ \A j \in 1 .. s - 1 : j \in 1 .. s
          BY <1>3, <1>4, <5>2, StagingDistinct
        <5> QED BY <1>1, <1>3, <5>1, <5>2, <5>3
      <4> QED BY <4>1, <4>2
    <3>4. InOrder(q)'
      BY <1>6, <2>1, <3>2, <3>3, OrderKept
    <3>5. StagedTrue(q)'
      <4>1. CASE q = op
        <5>1. hookIntent'[op] # NoHook =>
                 hookIntent'[op].base = hookApplied /\ hookIntent'[op].inventory = hookAt[Active]
          BY <1>3, <2>3, <3>2, <4>1 DEF StagedTrue
        <5>2. hookSeal'[Active] # NoHook =>
                 hookSeal'[Active].inventory = hookAt[Active] /\ hookSeal'[Active].by = op
          BY <2>2, <2>3, <3>2, <4>1 DEF StagedTrue, SealMatches, seal
        <5> QED BY <1>6, <4>1, <5>1, <5>2 DEF StagedTrue, SealMatches
      <4>2. CASE q # op
        <5>1. e[1] # "intent" /\ e[1] # "seal"
          <6>1. e[1] = "seal" \/ e[1] = "intent"
                  => \E j \in 1 .. s - 1 : Staging(op)[j] = <<"operation", op>>
            BY <1>5 DEF OwnedEntry
          <6>2. \A j \in 1 .. s - 1 : j \in 1 .. s
            BY <1>4
          <6> QED BY <3>3, <4>2, <6>1, <6>2
        <5> QED BY <1>6, <2>1, <3>2, <5>1 DEF StagedTrue, SealMatches
      <4> QED BY <4>1, <4>2
    <3> QED BY <3>4, <3>5
  <2>10. OnePendingRotation'
    BY <1>3, <1>6, <2>7, <2>9 DEF OnePendingRotation
  <2>11. RetiredAsSealed'
    <3>1. \A i \in 1 .. Len(Retained) - 1 : /\ Retained[i] # Active
                                            /\ Retained[i] \in Generations
      <4>1. /\ Len(Retained) = Len(hookApplied) + 1 /\ Len(hookApplied) \in Nat
            /\ DOMAIN Retained = 1 .. Len(hookApplied) + 1
            /\ \A i, j \in DOMAIN Retained : Retained[i] = Retained[j] => i = j
            /\ Active = Retained[Len(hookApplied) + 1]
            /\ \A i \in DOMAIN Retained : Retained[i] \in Generations
        BY <1>2, RetainedPlaces, RetainedNames
      <4> QED BY <4>1
    <3>2. \A i \in 1 .. Len(Retained) - 1 : hookSeal'[Retained[i]] = hookSeal[Retained[i]]
      BY <2>3, <3>1
    <3> QED BY <1>2, <1>6, <3>2 DEF RetiredAsSealed, SealMatches, Unrepeated
  <2>12. RunSound'
    BY <1>7, <2>1, <2>8
  <2> QED BY <2>5, <2>6, <2>10, <2>11, <2>12 DEF HookInv
<1> QED BY <1>8, <1>9

(* The committed operation is the only one that was pending; its own empty  *)
(* generation becomes the active one.                                        *)
LEMMA CommitKeepsInv ==
    ASSUME HookInv, HookTypes', CommitControl
    PROVE  HookInv'
<1>1. PICK op : op = hookRun.op
  OBVIOUS
<1>2. /\ HookShape /\ HookTypes /\ EntriesFounded /\ OnePendingRotation /\ RetiredAsSealed
      /\ hookRun # NoHook /\ hookRun' = NoHook /\ StagedTopology(op)
      /\ hookApplied' = Append(hookApplied, op)
      /\ hookDisk' = hookDisk /\ hookIntent' = hookIntent /\ hookSeal' = hookSeal
      /\ hookAt' = hookAt /\ hookEpoch' = hookEpoch
  BY <1>1 DEF HookInv, HookShape, CommitControl, HookIdle
<1>3. op \in HookOps \ AppliedOps /\ (Adopted => Len(Retained) < HookGenerations)
  BY <1>1, <1>2 DEF HookInv, RunSound, MayGoOn
<1> DEFINE n == Len(hookApplied)
<1>4. /\ n \in Nat /\ DOMAIN hookApplied = 1 .. n /\ Len(Retained) = n + 1
      /\ DOMAIN Retained = 1 .. n + 1
      /\ Adopted <=> n > 0
      /\ Retained[1] = Legacy /\ \A i \in 1 .. n : Retained[i + 1] = hookApplied[i]
      /\ Active \in Readable /\ Readable \subseteq Generations
  BY <1>2, RetainedPlaces, RetainedNames
<1>5. /\ Len(hookApplied') = n + 1 /\ DOMAIN hookApplied' = 1 .. n + 1
      /\ \A i \in 1 .. n : hookApplied'[i] = hookApplied[i]
      /\ hookApplied'[n + 1] = op /\ hookApplied' \in Seq(HookOps)
  <2>1. hookApplied \in Seq(HookOps) /\ op \in HookOps
    BY <1>2, <1>3 DEF HookTypes
  <2> QED BY <1>2, <2>1
<1> HIDE DEF n
<1>6. AppliedOps' = AppliedOps \cup {op}
  <2>1. \A i \in 1 .. n + 1 : i \in 1 .. n \/ i = n + 1
    BY <1>4
  <2>2. n + 1 \in 1 .. n + 1 /\ \A i \in 1 .. n : i \in 1 .. n + 1
    BY <1>4
  <2> QED BY <1>4, <1>5, <2>1, <2>2 DEF AppliedOps
<1>7. HookShape'
  BY <1>2 DEF HookShape
<1>8. EntriesFounded'
  <2>1. \A i, j \in DOMAIN hookApplied' : hookApplied'[i] = hookApplied'[j] => i = j
    <3>1. \A i \in 1 .. n : hookApplied[i] # op
      BY <1>3, <1>4 DEF AppliedOps
    <3>2. \A i \in 1 .. n + 1 : i \in 1 .. n \/ i = n + 1
      BY <1>4
    <3> QED BY <1>2, <1>4, <1>5, <3>1, <3>2 DEF EntriesFounded
  <2>2. <<"intent", op>> \in hookDisk
    <3>1. \/ Staging(op)[2] = <<"intent", op>> /\ Len(Staging(op)) = 7
          \/ Staging(op)[5] = <<"intent", op>> /\ Len(Staging(op)) = 13
      BY StagingPlaces
    <3>2. \A i \in 1 .. Len(Staging(op)) - 1 : Staging(op)[i] \in hookDisk
      BY <1>2 DEF StagedTopology
    <3>3. CASE Len(Staging(op)) = 7 /\ Staging(op)[2] = <<"intent", op>>
      <4>1. 2 \in 1 .. Len(Staging(op)) - 1
        BY <3>3
      <4> QED BY <3>2, <3>3, <4>1
    <3>4. CASE Len(Staging(op)) = 13 /\ Staging(op)[5] = <<"intent", op>>
      <4>1. 5 \in 1 .. Len(Staging(op)) - 1
        BY <3>4
      <4> QED BY <3>2, <3>4, <4>1
    <3> QED BY <3>1, <3>3, <3>4
  <2>3. \A o \in HookOps \ AppliedOps' : o \in HookOps \ AppliedOps
    BY <1>6
  <2> QED BY <1>2, <1>6, <2>1, <2>2, <2>3 DEF EntriesFounded
<1>9. /\ Adopted' /\ Active' = op /\ Len(Retained') = n + 2 /\ DOMAIN Retained' = 1 .. n + 2
      /\ Retained'[1] = Legacy /\ \A i \in 1 .. n + 1 : Retained'[i + 1] = hookApplied'[i]
  <2>1. Retained' = <<Legacy>> \o hookApplied' /\ Adopted'
    BY <1>4, <1>5 DEF Retained, Adopted
  <2>2. /\ <<Legacy>> \in Seq(Generations) /\ hookApplied' \in Seq(Generations)
        /\ Len(<<Legacy>>) = 1 /\ <<Legacy>>[1] = Legacy
    BY <1>5 DEF Generations
  <2>3. /\ Len(Retained') = n + 2 /\ DOMAIN Retained' = 1 .. n + 2
        /\ Retained'[1] = Legacy /\ \A i \in 1 .. n + 1 : Retained'[i + 1] = hookApplied'[i]
    BY <1>4, <1>5, <2>1, <2>2
  <2>4. n + 1 \in 1 .. n + 1 /\ (n + 1) + 1 = n + 2
    BY <1>4
  <2>5. Active' = op
    BY <1>5, <2>3, <2>4 DEF Active
  <2> QED BY <2>1, <2>3, <2>5
<1>10. \A i \in 1 .. n + 1 : Retained'[i] = Retained[i]
  <2> TAKE i \in 1 .. n + 1
  <2>1. CASE i = 1
    BY <1>4, <1>9, <2>1
  <2>2. CASE i > 1
    <3>1. PICK j \in 1 .. n : i = j + 1
      <4>1. i - 1 \in 1 .. n /\ i = (i - 1) + 1
        BY <1>4, <2>2
      <4> QED BY <4>1
    <3>2. j \in 1 .. n + 1
      BY <1>4, <3>1
    <3> QED BY <1>4, <1>5, <1>9, <3>1, <3>2
  <2> QED BY <1>4, <2>1, <2>2
<1>11. \A o \in HookOps \ AppliedOps' : <<"operation", o>> \notin hookDisk
  BY <1>2, <1>6, ThereIs DEF StagedTopology
<1>12. OnePendingRotation'
  <2>1. ASSUME NEW q \in HookOps, MayGoOn(q)'
        PROVE  InOrder(q)' /\ StagedTrue(q)'
    <3>1. q \in HookOps \ AppliedOps /\ <<"operation", q>> \notin hookDisk
      BY <1>6, <1>11, <2>1 DEF MayGoOn
    <3>2. /\ \A kind \in StagedKinds : <<kind, q>> \notin hookDisk
          /\ <<"seal", op>> \notin hookDisk
      BY <1>2, <1>3, <3>1 DEF EntriesFounded
    <3>3. hookIntent[q] = NoHook /\ hookSeal[op] = NoHook
      BY <1>2, <1>3, <3>1, <3>2 DEF EntriesFounded, StagedKinds, Generations
    <3>4. /\ Len(Staging(q)') = 7
          /\ Staging(q)'[1] = <<"operation", q>> /\ Staging(q)'[2] = <<"intent", q>>
          /\ Staging(q)'[3] = <<"seal", op>>     /\ Staging(q)'[4] = <<"directory", q>>
          /\ Staging(q)'[5] = <<"metadata", q>>  /\ Staging(q)'[6] = <<"receipts", q>>
      BY <1>9 DEF Staging
    <3>5. \A i \in 1 .. 7 - 1 : i \in {1, 2, 3, 4, 5, 6}
      OBVIOUS
    <3>6. \A i \in 1 .. 7 - 1 : Staging(q)'[i] \notin hookDisk
      BY <3>2, <3>4, <3>5 DEF StagedKinds
    <3>7. InOrder(q)'
      BY <1>2, <3>4, <3>6 DEF InOrder
    <3>8. StagedTrue(q)'
      BY <1>2, <1>9, <3>3 DEF StagedTrue
    <3> QED BY <3>7, <3>8
  <2> QED BY <1>2, <1>11, <2>1 DEF OnePendingRotation
<1>13. RetiredAsSealed'
  <2>1. \A i \in 1 .. Len(Retained') - 1 : SealMatches(Retained[i], hookApplied'[i])
    BY <1>2, <1>4, <1>9 DEF StagedTopology
  <2>2. \A i \in 1 .. Len(Retained') - 1 : SealMatches(Retained[i], hookApplied[i])'
    <3> TAKE i \in 1 .. Len(Retained') - 1
    <3>1. i \in 1 .. n + 1
      BY <1>4, <1>9
    <3> QED BY <1>2, <1>10, <2>1, <3>1 DEF SealMatches
  <2>3. Unrepeated'
    <3>1. hookAt[op] = {} /\ Unrepeated
      BY <1>2 DEF StagedTopology
    <3>2. \A i \in DOMAIN Retained' : i \in 1 .. n + 1 \/ (i = n + 2 /\ Retained'[i] = op)
      <4>1. n + 1 \in 1 .. n + 1 /\ (n + 1) + 1 = n + 2
        BY <1>4
      <4>2. Retained'[n + 2] = op
        BY <1>5, <1>9, <4>1
      <4> QED BY <1>4, <1>9, <4>2
    <3>3. \A i \in DOMAIN Retained' : hookAt'[Retained'[i]] # {} =>
             i \in DOMAIN Retained /\ hookAt'[Retained'[i]] = hookAt[Retained[i]]
      BY <1>2, <1>4, <1>10, <3>1, <3>2
    <3> QED BY <3>1, <3>3 DEF Unrepeated
  <2>4. Len(Retained') \in 1 .. HookGenerations
    BY <1>3, <1>4, <1>9, HookAssumption
  <2> QED BY <2>2, <2>3, <2>4 DEF RetiredAsSealed
<1>14. RunSound'
  BY <1>2 DEF RunSound
<1> QED BY <1>7, <1>8, <1>12, <1>13, <1>14 DEF HookInv

LEMMA HookInvInitial == HookInit => HookInv
<1> SUFFICES ASSUME HookInit PROVE HookInv
  OBVIOUS
<1>1. HookShape
  BY HookStarts DEF HookInit, HookShape, Generations
<1>2. EntriesFounded
  BY <1>1 DEF HookInit, EntriesFounded, AppliedOps, Generations
<1>3. /\ Len(Retained) = 1 /\ DOMAIN Retained = {1} /\ Retained[1] = Legacy
      /\ Active = Legacy /\ ~Adopted
  BY DEF HookInit, Retained, Active, Adopted
<1>4. OnePendingRotation
  BY <1>3 DEF HookInit, OnePendingRotation, InOrder, StagedTrue, Generations
<1>5. RetiredAsSealed
  BY <1>3, HookAssumption DEF HookInit, RetiredAsSealed, Unrepeated, Generations
<1>6. RunSound
  BY DEF HookInit, RunSound
<1> QED BY <1>1, <1>2, <1>4, <1>5, <1>6 DEF HookInv

LEMMA HookNextInv == HookInv /\ [HookNext]_hookVars => HookInv'
<1> SUFFICES ASSUME HookInv, [HookNext]_hookVars PROVE HookInv'
  OBVIOUS
<1>1. HookTypes /\ HookTypes'
  BY HookTypesInductive DEF HookInv, HookShape
<1>2. hookEpoch \in Nat
  BY DEF HookInv, HookShape
<1>3. ASSUME hookApplied' = hookApplied, hookDisk' = hookDisk, hookIntent' = hookIntent,
             hookSeal' = hookSeal, hookAt' = hookAt, hookEpoch' \in Nat,
             hookRun' = NoHook \/ hookRun' = hookRun
      PROVE  HookInv'
  <2>1. /\ HookShape' /\ EntriesFounded' /\ OnePendingRotation' /\ RetiredAsSealed'
        /\ \A op : MayGoOn(op)' <=> MayGoOn(op)
    BY <1>1, <1>3, StoreFrame
  <2>2. RunSound'
    <3>1. /\ Retained' = Retained /\ Active' = Active /\ (Adopted' <=> Adopted)
          /\ \A op : Staging(op)' = Staging(op)
      BY <1>3, AppliedFrame
    <3>2. CASE hookRun' = hookRun
      <4>1. PICK op : op = hookRun.op
        OBVIOUS
      <4> QED BY <1>3, <2>1, <3>1, <3>2, <4>1 DEF HookInv, RunSound
    <3>3. CASE hookRun' = NoHook
      BY <3>3 DEF RunSound
    <3> QED BY <1>3, <3>2, <3>3
  <2> QED BY <2>1, <2>2 DEF HookInv
<1>4. ASSUME NEW k \in HookKeys, NEW b \in HookBytes, StoreReceipt(k, b) PROVE HookInv'
  BY <1>1, <1>2, <1>3, <1>4, StoreKeepsInv DEF StoreReceipt
<1>5. ASSUME NEW k \in HookKeys, NEW b \in HookBytes, StoreKilled(k, b) PROVE HookInv'
  BY <1>1, <1>2, <1>3, <1>5, StoreKeepsInv DEF StoreKilled
<1>6. ASSUME NEW op \in HookOps, PreviewRotation(op) PROVE HookInv'
  BY <1>2, <1>3, <1>6 DEF PreviewRotation
<1>7. CASE HookKill
  BY <1>2, <1>3, <1>7 DEF HookKill
<1>8. CASE HookRecoverTemporaries
  BY <1>2, <1>3, <1>8 DEF HookRecoverTemporaries
<1>9. CASE HookTakeover
  BY <1>2, <1>3, <1>9 DEF HookTakeover
<1>10. CASE UNCHANGED hookVars
  BY <1>2, <1>3, <1>10 DEF hookVars
<1> QED BY <1>1, <1>4, <1>5, <1>6, <1>7, <1>8, <1>9, <1>10,
           ApplyKeepsInv, StageKeepsInv, CommitKeepsInv DEF HookNext

LEMMA HookInvariance == HookSpec => []HookInv
<1> QED BY HookInvInitial, HookNextInv, PTL DEF HookSpec

(* For any number of keys, operations, generations, Chiefs and kills: a      *)
(* retired generation is what its seal says and sealed by the operation that *)
(* retired it, and a rotation that was killed anywhere is the only one       *)
(* pending and can go on as it began (_stage_seal_locked,                    *)
(* _validate_committed_v2_locked, _apply_rotation_locked).                   *)
THEOREM GenerationsAreSound == HookSpec => []GenerationsSound
<1>1. HookInv => GenerationsSound
  <2> SUFFICES ASSUME HookInv PROVE RetiredAsSealed /\ RotationResumable
    BY DEF GenerationsSound
  <2>1. HookShape /\ HookTypes /\ EntriesFounded /\ OnePendingRotation /\ RetiredAsSealed
    BY DEF HookInv, HookShape
  <2>2. ASSUME NEW op \in There("operation") \ AppliedOps
        PROVE  /\ There("operation") \ AppliedOps = {op}
               /\ HookIdle /\ ~hookLitter =>
                   LET p == PreviewOf(op)
                       epoch == IF hookIntent[op] = NoHook THEN hookEpoch ELSE hookIntent[op].epoch
                   IN  /\ ApplyAllowed(p, epoch)
                       /\ \A i \in 1 .. Len(Staging(op)) - 1 :
                            /\ Staging(op)[i] \in hookDisk =>
                                  \A j \in 1 .. i : Staging(op)[j] \in hookDisk
                            /\ Staging(op)[i] \in hookDisk /\ Staging(op)[i][1] = "seal"
                                   => SealMatches(Staging(op)[i][2], op)
    <3>1. op \in HookOps \ AppliedOps /\ <<"operation", op>> \in hookDisk
      BY <2>1, <2>2, ThereIs DEF HookShape, EntriesFounded, Generations
    <3>2. ASSUME NEW o \in There("operation") \ AppliedOps PROVE o = op
      <4>1. o \in HookOps \ AppliedOps /\ <<"operation", o>> \in hookDisk
        BY <2>1, ThereIs DEF HookShape, EntriesFounded, Generations
      <4> QED BY <2>1, <3>1, <4>1 DEF OnePendingRotation
    <3>3. MayGoOn(op)
      BY <2>1, <3>1 DEF MayGoOn, OnePendingRotation
    <3>4. InOrder(op) /\ StagedTrue(op) /\ (Adopted => Len(Retained) < HookGenerations)
      BY <2>1, <3>1, <3>3 DEF OnePendingRotation
    <3>5. ASSUME NEW i \in 1 .. Len(Staging(op)) - 1, Staging(op)[i] \in hookDisk,
                 Staging(op)[i][1] = "seal"
          PROVE  SealMatches(Staging(op)[i][2], op)
      <4>1. OwnedEntry(op, i, Staging(op)[i])
        BY <2>1, <3>1, StagingOwners
      <4>2. Staging(op)[i] = <<"seal", Active>> /\ Active \in Generations
        BY <3>5, <4>1 DEF OwnedEntry
      <4>3. hookSeal[Active] # NoHook
        BY <2>1, <3>5, <4>2 DEF EntriesFounded
      <4> QED BY <3>4, <4>2, <4>3 DEF StagedTrue
    (* A directory of an operation comes behind its intent, and so does the  *)
    (* marker.                                                               *)
    <3>6. ASSUME NEW x, x \in There("directory") \ ({Legacy} \cup AppliedOps)
          PROVE  x = op /\ hookIntent[op] # NoHook
      <4>1. <<"directory", x>> \in hookDisk /\ x \in HookOps \ AppliedOps
        BY <2>1, <3>6, ThereIs DEF HookShape, Generations
      <4>2. x = op
        BY <2>1, <3>3, <4>1 DEF EntriesFounded, StagedKinds, MayGoOn
      <4>3. <<"intent", op>> \in hookDisk
        <5>1. CASE Adopted
          <6>1. /\ Staging(op)[4] = <<"directory", op>> /\ Staging(op)[2] = <<"intent", op>>
                /\ 4 \in 1 .. Len(Staging(op)) - 1 /\ 2 \in 1 .. 4
            BY <5>1, StagingPlaces
          <6> QED BY <3>4, <4>1, <4>2, <6>1 DEF InOrder
        <5>2. CASE ~Adopted
          <6>1. /\ Staging(op)[10] = <<"directory", op>> /\ Staging(op)[5] = <<"intent", op>>
                /\ 10 \in 1 .. Len(Staging(op)) - 1 /\ 5 \in 1 .. 10
            <7>1. /\ Staging(op)[10] = <<"directory", op>> /\ Staging(op)[5] = <<"intent", op>>
                  /\ Len(Staging(op)) = 13
              BY <5>2, StagingPlaces
            <7> QED BY <7>1
          <6> QED BY <3>4, <4>1, <4>2, <6>1 DEF InOrder
        <5> QED BY <5>1, <5>2
      <4> QED BY <2>1, <3>1, <4>2, <4>3 DEF EntriesFounded
    <3>7. ASSUME Adopted, ~hookLitter PROVE CommittedStore(op)
      <4>1. IntentsBound(op)
        <5>1. \A o \in There("operation") : hookIntent[o] = NoHook => o = op
          <6> SUFFICES ASSUME NEW o \in There("operation"), o # op PROVE hookIntent[o] # NoHook
            OBVIOUS
          <6>1. o \in AppliedOps /\ o \in HookOps
            BY <2>1, <3>2 DEF AppliedOps, HookTypes
          <6> QED BY <2>1, <6>1 DEF EntriesFounded
        <5>2. Pending(op) # NoHook => Pending(op).base = hookApplied
          BY <3>1, <3>4 DEF Pending, StagedTrue
        <5> QED BY <3>2, <5>1, <5>2 DEF IntentsBound
      <4>2. GenerationsBound(op)
        <5>1. Pending(op) = hookIntent[op]
          BY <3>1 DEF Pending
        <5>2. There("directory") \ ({Legacy} \cup AppliedOps)
                 \subseteq IF Pending(op) = NoHook THEN {} ELSE {op}
          BY <3>6, <5>1
        <5>3. hookSeal[Active] # NoHook => hookIntent[op] # NoHook /\ SealMatches(Active, op)
          <6> SUFFICES ASSUME hookSeal[Active] # NoHook
                       PROVE  hookIntent[op] # NoHook /\ SealMatches(Active, op)
            OBVIOUS
          <6>1. Active \in Generations
            BY <2>1, RetainedNames
          <6>2. <<"seal", Active>> \in hookDisk
            BY <2>1, <6>1 DEF EntriesFounded
          <6>3. /\ Staging(op)[3] = <<"seal", Active>> /\ Staging(op)[2] = <<"intent", op>>
                /\ 3 \in 1 .. Len(Staging(op)) - 1 /\ 2 \in 1 .. 3
            BY <3>7, StagingPlaces
          <6>4. <<"intent", op>> \in hookDisk
            BY <3>4, <6>2, <6>3 DEF InOrder
          <6> QED BY <2>1, <3>1, <3>4, <6>4 DEF EntriesFounded, StagedTrue
        <5>4. hookAt[op] = {}
          BY <2>1, <3>1 DEF EntriesFounded
        <5> QED BY <2>1, <3>4, <5>1, <5>2, <5>3, <5>4
                DEF GenerationsBound, RetiredAsSealed, StagedTrue
      <4> QED BY <2>1, <3>7, <4>1, <4>2 DEF CommittedStore, RetiredAsSealed
    <3>8. ASSUME ~Adopted, ~hookLitter PROVE AdoptionPrefix(op)
      <4>1. AppliedOps = {}
        BY <3>8 DEF Adopted, AppliedOps
      <4>2. There("operation") \subseteq {op} /\ hookAt[op] = {}
        BY <2>1, <3>1, <3>2, <4>1 DEF EntriesFounded
      <4>3. /\ Staging(op)[5] = <<"intent", op>> /\ Staging(op)[6] = <<"marker", op>>
            /\ Staging(op)[7] = <<"directory", Legacy>>
            /\ 6 \in 1 .. Len(Staging(op)) - 1 /\ 7 \in 1 .. Len(Staging(op)) - 1
            /\ 5 \in 1 .. 6 /\ 5 \in 1 .. 7
        <5>1. /\ Staging(op)[5] = <<"intent", op>> /\ Staging(op)[6] = <<"marker", op>>
              /\ Staging(op)[7] = <<"directory", Legacy>> /\ Len(Staging(op)) = 13
          BY <3>8, StagingPlaces
        <5> QED BY <5>1
      <4>4. <<"intent", op>> \in hookDisk => hookIntent[op] # NoHook
        BY <2>1, <3>1 DEF EntriesFounded
      <4>5. ASSUME NEW x \in There("marker") PROVE x = op /\ hookIntent[op] # NoHook
        <5>1. <<"marker", x>> \in hookDisk /\ x \in HookOps \ AppliedOps
          BY <2>1, <4>1, <4>5, ThereIs DEF HookShape, Generations, EntriesFounded
        <5>2. x = op
          BY <2>1, <3>3, <5>1 DEF EntriesFounded, StagedKinds, MayGoOn
        <5> QED BY <3>4, <4>3, <4>4, <5>1, <5>2 DEF InOrder
      <4>6. ASSUME NEW x \in There("directory") PROVE hookIntent[op] # NoHook
        <5>1. CASE x = Legacy
          <6>1. <<"directory", Legacy>> \in hookDisk
            BY <2>1, <4>6, <5>1, ThereIs
          <6> QED BY <3>4, <4>3, <4>4, <6>1 DEF InOrder
        <5>2. CASE x # Legacy
          BY <3>6, <4>1, <4>6, <5>2
        <5> QED BY <5>1, <5>2
      <4> QED BY <3>8, <4>2, <4>5, <4>6 DEF AdoptionPrefix
    <3>9. ASSUME ~hookLitter,
                 NEW epoch, hookIntent[op] # NoHook => epoch = hookIntent[op].epoch
          PROVE  ApplyAllowed(PreviewOf(op), epoch)
      <4>1. /\ PreviewOf(op).op = op
            /\ PreviewOf(op).inventory = hookAt[Active] /\ PreviewOf(op).base = hookApplied
        BY <3>4 DEF PreviewOf, StagedTrue
      <4>2. PreviewAllowed(op)
        BY <3>4, <3>7, <3>8, <3>9 DEF PreviewAllowed
      <4> QED BY <3>9, <4>1, <4>2 DEF ApplyAllowed
    <3> QED BY <2>2, <3>2, <3>4, <3>5, <3>9 DEF InOrder
  <2> QED BY <2>1, <2>2 DEF RotationResumable
<1> QED BY <1>1, HookInvariance, PTL

-----------------------------------------------------------------------------
(* Resource configurations *)

(* The bytes a state of the files holds are explained by receipts.          *)
Explained(s) == \A f \in Files : s[f] \in ResIds => resReceipt[s[f]] # NoRes

ResTyped ==
    /\ resFile \in ResStates
    /\ resEvents \in Seq(ResEntries)
    /\ resReceipt \in [ResIds -> ResStates \cup {NoRes}]
    /\ resMigrated \in SUBSET ResIds /\ resHistory \in SUBSET ResIds
    /\ resRun \in ResRuns \cup {NoRes}
    /\ resTorn \in BOOLEAN

IdsOnce ==
    \A i, j \in DOMAIN resEvents : resEvents[i].id = resEvents[j].id => i = j

ReceiptsClosed ==
    /\ Explained(resFile)
    /\ \A e \in ResIds : resReceipt[e] # NoRes => Explained(resReceipt[e])

(* The receipt of a standing event holds the event that stood before it,    *)
(* and what an editor wrote.                                                *)
ReceiptsChained ==
    ~resTorn => \A i, j \in Standing :
        j < i /\ (\A k \in Standing : k <= j \/ i <= k)
            => \A f \in Files : resReceipt[resEvents[i].id][f] \in {resEvents[j].id, Edited}

(* What a running command found, and what it has already changed.           *)
CommandBegan ==
    resRun # NoRes =>
        /\ resAnswer = NoRes
        /\ resRun.was.events = resEvents /\ resRun.was.migrated = resMigrated
        /\ resRun.op # "migrate" => resRun.was.history = resHistory
        /\ resRun.op # "apply" => resRun.was.receipt = resReceipt
        /\ resMigrated \subseteq resRun.was.history
        /\ ~resTorn /\ CurrentEvent # NoRes
               => \A f \in Files : resRun.was.file[f] \in {CurrentEvent, Edited}

ApplyBegan ==
    resRun # NoRes /\ resRun.op = "apply" =>
        /\ resRun.event \notin EventIds
        /\ resRun.was.receipt[resRun.event] = NoRes
        /\ resReceipt = [resRun.was.receipt EXCEPT ![resRun.event] = resRun.was.file]
        /\ \A d \in ResIds : resReceipt[d] # NoRes
               => \A f \in Files : resReceipt[d][f] # resRun.event

RollbackBegan ==
    resRun # NoRes /\ resRun.op = "rollback" =>
        resRun.event = CurrentEvent /\ resRun.event \in EventIds

MigrateBegan ==
    resRun # NoRes /\ resRun.op = "migrate" =>
        /\ resRun.event \in resHistory
        /\ resHistory = resRun.was.history \cup {resRun.event}
        /\ resRun.was.file = resFile

(* Where a transition of the files is.                                      *)
Towards(t) ==
    IF (resRun.op = "apply") # resRun.second
    THEN t.order = ResFiles /\ t.from = resReceipt[resRun.event] /\ t.to = After(resRun.event)
    ELSE t.order = Backwards(ResFiles) /\ t.from = After(resRun.event)
         /\ t.to = resReceipt[resRun.event]

Prefix(t) ==
    Len(t.done) <= Len(t.order) /\ \A i \in 1 .. Len(t.done) : t.done[i] = t.order[i]

Partial(s, t) ==
    \A f \in Files :
        s[f] = IF \E i \in 1 .. Len(t.done) : t.done[i] = f THEN t.to[f] ELSE t.from[f]

CommandMoves ==
    resRun # NoRes /\ resRun.op # "migrate" =>
        /\ Towards(resRun.tr)
        /\ resRun.second => resRun.tr.to = resRun.was.file
        /\ ~resRun.second /\ resRun.tr.phase \in {"forward", "undo", "written"}
               => resRun.tr.from = resRun.was.file
        /\ ~resRun.second /\ resRun.tr.phase \in {"preflight", "restored"}
               => resFile = resRun.was.file
        /\ resRun.tr.phase = "preflight" => resRun.tr.done = <<>>
        /\ resRun.tr.phase = "forward" =>
               /\ Prefix(resRun.tr) /\ Len(resRun.tr.done) < Len(resRun.tr.order)
               /\ Partial(resFile, resRun.tr)
        /\ resRun.tr.phase = "undo" =>
               /\ Prefix(resRun.tr)
               /\ resRun.tr.end = "restored" => Partial(resFile, resRun.tr)
        /\ resRun.tr.phase = "written" => resFile = resRun.tr.to

ResInv ==
    /\ ResTyped /\ IdsOnce /\ ReceiptsClosed /\ ReceiptsChained
    /\ CommandBegan /\ ApplyBegan /\ RollbackBegan /\ MigrateBegan /\ CommandMoves
    /\ AllOrNothing /\ MixturesExplained /\ EventsKeepReceipts

(* The places of the standing events of a record, and the effective one.    *)
StandingOf(s) == {i \in DOMAIN s : s[i].status = "applied"}
CurrentOf(s) ==
    IF StandingOf(s) = {} THEN NoRes
    ELSE s[CHOOSE i \in StandingOf(s) : \A j \in StandingOf(s) : j <= i].id

LEMMA CurrentIsOf ==
    CurrentEvent = CurrentOf(resEvents) /\ CurrentEvent' = CurrentOf(resEvents')
    /\ Standing = StandingOf(resEvents) /\ Standing' = StandingOf(resEvents')
BY DEF CurrentEvent, CurrentOf, Standing, StandingOf

(* Some standing event is the last one, and it is the effective one.        *)
LEMMA LastOfSome ==
    ASSUME NEW n \in Nat, NEW S \in SUBSET (1 .. n), S # {}
    PROVE  \E m \in S : \A j \in S : j <= m
<1> DEFINE T == {n - i : i \in S}
<1>1. T \in SUBSET Nat /\ T # {}
  <2>1. \A i \in S : n - i \in Nat
    OBVIOUS
  <2>2. PICK i \in S : TRUE
    OBVIOUS
  <2>3. n - i \in T
    OBVIOUS
  <2> QED BY <2>1, <2>3
<1> HIDE DEF T
<1>2. PICK t \in T : \A k \in T : <<k, t>> \notin OpToRel(<, Nat)
  BY <1>1, WFMin, NatLessThanWellFounded, Zenon
<1>3. \A k \in T : ~(k < t)
  BY <1>1, <1>2, Zenon DEF OpToRel
<1>4. PICK m \in S : t = n - m
  BY DEF T
<1>5. ASSUME NEW j \in S
      PROVE  j <= m
  <2>1. n - j \in T
    BY DEF T
  <2>2. ~(n - j < n - m)
    BY <2>1, <1>3, <1>4
  <2> QED BY <2>2
<1> QED BY <1>5

LEMMA CurrentFrom ==
    ASSUME NEW s \in Seq(ResEntries), NEW m \in StandingOf(s),
           \A j \in StandingOf(s) : j <= m
    PROVE  CurrentOf(s) = s[m].id
<1>1. StandingOf(s) \subseteq 1 .. Len(s) /\ Len(s) \in Nat
  BY DEF StandingOf
<1>2. (CHOOSE i \in StandingOf(s) : \A j \in StandingOf(s) : j <= i) = m
  <2> DEFINE c == CHOOSE i \in StandingOf(s) : \A j \in StandingOf(s) : j <= i
  <2>1. c \in StandingOf(s) /\ \A j \in StandingOf(s) : j <= c
    BY Zenon
  <2>2. c <= m /\ m <= c
    BY <2>1
  <2> QED BY <2>1, <2>2, <1>1
<1> QED BY <1>2 DEF CurrentOf

LEMMA CurrentIs ==
    ASSUME NEW s \in Seq(ResEntries), CurrentOf(s) # NoRes
    PROVE  \E m \in StandingOf(s) :
              (\A j \in StandingOf(s) : j <= m) /\ CurrentOf(s) = s[m].id
<1>1. StandingOf(s) \in SUBSET (1 .. Len(s)) /\ Len(s) \in Nat /\ StandingOf(s) # {}
  BY DEF StandingOf, CurrentOf
<1> DEFINE S == StandingOf(s)
<1> HIDE DEF S
<1>2. PICK m \in S : \A j \in S : j <= m
  <2>1. S \in SUBSET (1 .. Len(s)) /\ S # {}
    BY <1>1 DEF S
  <2> QED BY <1>1, <2>1, LastOfSome
<1> QED BY <1>2, CurrentFrom DEF S

LEMMA NoCurrent ==
    ASSUME NEW s \in Seq(ResEntries)
    PROVE  CurrentOf(s) # NoRes <=> StandingOf(s) # {}
<1>1. CASE StandingOf(s) = {}
  BY <1>1 DEF CurrentOf
<1>2. CASE StandingOf(s) # {}
  <2>1. StandingOf(s) \in SUBSET (1 .. Len(s)) /\ Len(s) \in Nat
    BY DEF StandingOf
  <2>2. PICK m \in StandingOf(s) : \A j \in StandingOf(s) : j <= m
    BY <1>2, <2>1, LastOfSome
  <2>3. CurrentOf(s) = s[m].id
    BY <2>2, CurrentFrom
  <2>4. s[m] \in ResEntries
    BY <2>1, <2>2
  <2> QED BY <1>2, <2>3, <2>4, ResAssumption DEF ResEntries
<1> QED BY <1>1, <1>2

(* The runs of a command, taken apart.                                      *)
LEMMA RunOf ==
    ASSUME ResTyped, resRun # NoRes
    PROVE  /\ resRun.was \in ResDisks /\ resRun.event \in ResIds
           /\ resRun.second \in BOOLEAN /\ resRun.op \in {"apply", "rollback", "migrate"}
           /\ resRun = [op |-> resRun.op, event |-> resRun.event, second |-> resRun.second,
                        was |-> resRun.was, tr |-> resRun.tr]
           /\ resRun.op # "migrate" => resRun.tr \in ResTransitions
           /\ resRun.op = "migrate" =>
                 resRun.tr = [phase |-> "written"] /\ resRun.second = FALSE
<1>1. resRun \in ResRuns
  BY DEF ResTyped
<1> QED BY <1>1 DEF ResRuns

LEMMA InRuns ==
    ASSUME NEW op \in {"apply", "rollback"}, NEW e \in ResIds, NEW b \in BOOLEAN,
           NEW d \in ResDisks, NEW t \in ResTransitions
    PROVE  /\ [op |-> op, event |-> e, second |-> b, was |-> d, tr |-> t] \in ResRuns
           /\ [op |-> op, event |-> e, second |-> b, was |-> d, tr |-> t] # NoRes
<1>1. [op |-> op, event |-> e, second |-> b, was |-> d, tr |-> t] \in ResRuns
  BY DEF ResRuns
<1> QED BY <1>1, ResAssumption

LEMMA InMigrations ==
    ASSUME NEW e \in ResIds, NEW d \in ResDisks
    PROVE  /\ [op |-> "migrate", event |-> e, second |-> FALSE, was |-> d,
               tr |-> [phase |-> "written"]] \in ResRuns
           /\ [op |-> "migrate", event |-> e, second |-> FALSE, was |-> d,
               tr |-> [phase |-> "written"]] # NoRes
<1>1. [op |-> "migrate", event |-> e, second |-> FALSE, was |-> d,
       tr |-> [phase |-> "written"]] \in ResRuns
  BY DEF ResRuns
<1> QED BY <1>1, ResAssumption

LEMMA DiskTyped ==
    ASSUME ResTyped
    PROVE  Disk \in ResDisks
BY DEF ResTyped, Disk, ResDisks

LEMMA AfterTyped ==
    ASSUME NEW e \in ResIds
    PROVE  After(e) \in ResStates /\ \A f \in Files : After(e)[f] = e
BY DEF After, ResStates

(* Whoever does not touch the store, the answer or the run.                 *)
LEMMA ResourceQuiet ==
    ASSUME ResInv, resFile' = resFile, resEvents' = resEvents, resReceipt' = resReceipt,
           resMigrated' = resMigrated, resHistory' = resHistory, resRun' = resRun,
           resAnswer' = resAnswer, resTorn' = resTorn
    PROVE  ResInv'
<1>1. ResTyped' /\ IdsOnce' /\ ReceiptsClosed'
  BY DEF ResInv, ResTyped, IdsOnce, ReceiptsClosed, Explained
<1>2. /\ Standing' = Standing /\ CurrentEvent' = CurrentEvent
      /\ EventIds' = EventIds /\ RolledBack' = RolledBack /\ Disk' = Disk
  BY DEF Standing, CurrentEvent, EventIds, RolledBack, Disk
<1>3. ReceiptsChained' /\ CommandBegan' /\ ApplyBegan' /\ RollbackBegan' /\ MigrateBegan'
  BY <1>2 DEF ResInv, ReceiptsChained, CommandBegan, ApplyBegan, RollbackBegan, MigrateBegan
<1>4. CommandMoves'
  BY DEF ResInv, CommandMoves, Towards, Prefix, Partial
<1>5. AllOrNothing' /\ MixturesExplained' /\ EventsKeepReceipts'
  BY <1>2 DEF ResInv, AllOrNothing, MixturesExplained, ResIdle, EventsKeepReceipts
<1> QED BY <1>1, <1>3, <1>4, <1>5 DEF ResInv

(* A record that stays keeps what is said of it alone.                      *)
LEMMA SameRecord ==
    ASSUME resEvents' = resEvents
    PROVE  /\ Standing' = Standing /\ CurrentEvent' = CurrentEvent
           /\ EventIds' = EventIds /\ RolledBack' = RolledBack /\ (IdsOnce => IdsOnce')
BY DEF Standing, CurrentEvent, EventIds, RolledBack, IdsOnce

LEMMA EntriesTyped ==
    ASSUME ResInv
    PROVE  /\ resEvents \in Seq(ResEntries)
           /\ \A i \in DOMAIN resEvents : resEvents[i].id \in ResIds
           /\ EventIds \subseteq ResIds
<1>1. resEvents \in Seq(ResEntries)
  BY DEF ResInv, ResTyped
<1>2. \A i \in DOMAIN resEvents : resEvents[i] \in ResEntries
  BY <1>1
<1> QED BY <1>1, <1>2 DEF ResEntries, EventIds

(* An editor between two commands.                                          *)
LEMMA EditFileSafe ==
    ASSUME ResInv, NEW f \in Files, EditFile(f)
    PROVE  ResInv'
<1>1. /\ resRun = NoRes /\ resRun' = NoRes /\ resAnswer' = NoRes
      /\ resFile' = [resFile EXCEPT ![f] = Edited]
      /\ resEvents' = resEvents /\ resReceipt' = resReceipt /\ resMigrated' = resMigrated
      /\ resHistory' = resHistory /\ resTorn' = resTorn
  BY DEF EditFile, ResIdle, Task, Receipts
<1>2. ResTyped'
  BY <1>1 DEF ResInv, ResTyped, ResStates
<1>3. \A g \in Files : resFile'[g] \in {Edited, resFile[g]}
  BY <1>1 DEF ResInv, ResTyped, ResStates
<1>4. ReceiptsClosed'
  BY <1>1, <1>3, ResAssumption DEF ResInv, ReceiptsClosed, Explained
<1>5. ReceiptsChained'
  BY <1>1, SameRecord DEF ResInv, ReceiptsChained
<1>6. MixturesExplained'
  BY <1>1, <1>3, SameRecord, ResAssumption DEF ResInv, MixturesExplained, ResIdle
<1>7. AllOrNothing'
  BY <1>1 DEF AllOrNothing
<1>8. EventsKeepReceipts'
  BY <1>1, SameRecord DEF ResInv, EventsKeepReceipts
<1>9. (CommandBegan /\ ApplyBegan /\ RollbackBegan /\ MigrateBegan /\ CommandMoves)'
  BY <1>1 DEF CommandBegan, ApplyBegan, RollbackBegan, MigrateBegan, CommandMoves
<1> QED BY <1>1, <1>2, <1>4, <1>5, <1>6, <1>7, <1>8, <1>9, SameRecord DEF ResInv

(* A command starts.                                                        *)
LEMMA ListsTyped ==
    /\ <<>> \in Seq(Files) /\ Len(<<>>) = 0
    /\ ResFiles \in Seq(Files) /\ Backwards(ResFiles) \in Seq(Files)
    /\ Len(Backwards(ResFiles)) = Len(ResFiles) /\ Len(ResFiles) \in Nat \ {0}
    /\ \A i \in 1 .. Len(ResFiles) : Backwards(ResFiles)[i] = ResFiles[Len(ResFiles) + 1 - i]
<1>1. ResFiles \in Seq(Files) /\ Len(ResFiles) \in Nat /\ DOMAIN ResFiles = 1 .. Len(ResFiles)
  BY ResAssumption
<1>2. Len(ResFiles) # 0
  <2>1. \A t \in Seq(Files) : Len(t) = 0 => t = <<>>
    OBVIOUS
  <2> QED BY <2>1, ResAssumption
<1>3. \A i \in 1 .. Len(ResFiles) :
          Len(ResFiles) + 1 - i \in 1 .. Len(ResFiles) /\ ResFiles[Len(ResFiles) + 1 - i] \in Files
  BY <1>1
<1>4. Backwards(ResFiles) \in [1 .. Len(ResFiles) -> Files]
  BY <1>1, <1>3 DEF Backwards
<1>5. Backwards(ResFiles) \in Seq(Files) /\ Len(Backwards(ResFiles)) = Len(ResFiles)
  <2>1. \A n \in Nat : \A g \in [1 .. n -> Files] : g \in Seq(Files) /\ Len(g) = n
    OBVIOUS
  <2> QED BY <2>1, <1>1, <1>4
<1> QED BY <1>1, <1>2, <1>3, <1>5 DEF Backwards

LEMMA TransitionTyped ==
    ASSUME NEW s \in ResStates, NEW e \in ResIds
    PROVE  ApplyFiles(s, e) \in ResTransitions /\ RollbackFiles(s, e) \in ResTransitions
BY AfterTyped, ListsTyped DEF ApplyFiles, RollbackFiles, Transition, ResTransitions

LEMMA ConfigApplySafe ==
    ASSUME ResInv, NEW e \in ResIds, ConfigApply(e)
    PROVE  ResInv'
<1> DEFINE t == ApplyFiles(resFile, e)
           d == Disk
<1>1. /\ resRun = NoRes /\ resAnswer' = NoRes /\ e \notin EventIds /\ resReceipt[e] = NoRes
      /\ resRun' = [op |-> "apply", event |-> e, second |-> FALSE, was |-> d, tr |-> t]
      /\ resReceipt' = [resReceipt EXCEPT ![e] = resFile]
      /\ resFile' = resFile /\ resEvents' = resEvents /\ resMigrated' = resMigrated
      /\ resHistory' = resHistory /\ resTorn' = resTorn
  BY DEF ConfigApply, ResIdle, Task
<1>2. /\ resFile \in ResStates /\ t \in ResTransitions /\ d \in ResDisks
      /\ resReceipt \in [ResIds -> ResStates \cup {NoRes}] /\ resFile # NoRes
      /\ resEvents \in Seq(ResEntries)
      /\ resMigrated \in SUBSET ResIds /\ resHistory \in SUBSET ResIds /\ resTorn \in BOOLEAN
  BY TransitionTyped, DiskTyped, ResAssumption DEF ResInv, ResTyped
<1>3. /\ d.file = resFile /\ d.events = resEvents /\ d.receipt = resReceipt
      /\ d.migrated = resMigrated /\ d.history = resHistory
  BY DEF Disk
<1>4. /\ t.order = ResFiles /\ t.from = resFile /\ t.to = After(e) /\ t.done = <<>>
      /\ t.phase = "preflight" /\ t.end = "restored"
  BY DEF ApplyFiles, Transition
<1> HIDE DEF t, d
<1>5. resRun' \in ResRuns /\ resRun' # NoRes
  BY <1>1, <1>2, InRuns
<1>6. resReceipt'[e] = resFile /\ \A x \in ResIds \ {e} : resReceipt'[x] = resReceipt[x]
  BY <1>1, <1>2
<1>7. ResTyped'
  BY <1>1, <1>2, <1>5 DEF ResTyped
<1>8. ReceiptsClosed'
  <2>1. \A x \in ResIds : resReceipt[x] # NoRes => resReceipt'[x] # NoRes
    BY <1>1, <1>6
  <2> QED BY <1>1, <1>2, <1>6, <2>1 DEF ResInv, ReceiptsClosed, Explained
<1>9. \A i \in DOMAIN resEvents : resEvents[i].id \in ResIds /\ resEvents[i].id # e
  BY <1>1, EntriesTyped DEF EventIds
<1>10. ReceiptsChained'
  <2>1. \A i \in Standing : resReceipt'[resEvents[i].id] = resReceipt[resEvents[i].id]
    BY <1>6, <1>9 DEF Standing
  <2> QED BY <1>1, <2>1, SameRecord DEF ResInv, ReceiptsChained
<1>11. CommandBegan'
  <2>1. /\ resRun'.was = d /\ resRun'.op = "apply" /\ resRun'.event = e
        /\ resRun'.second = FALSE /\ resRun'.tr = t
    BY <1>1
  <2>2. ~resTorn /\ CurrentEvent # NoRes => \A f \in Files : resFile[f] \in {CurrentEvent, Edited}
    BY <1>1 DEF ResInv, MixturesExplained, ResIdle
  <2>3. resMigrated \subseteq resHistory
    BY DEF ResInv, EventsKeepReceipts
  <2> QED BY <1>1, <1>3, <2>1, <2>2, <2>3, SameRecord DEF CommandBegan
<1>12. ApplyBegan'
  <2>1. \A f \in Files : resFile[f] # e
    BY <1>1, <1>2 DEF ResInv, ReceiptsClosed, Explained
  <2>2. \A x \in ResIds : resReceipt[x] # NoRes => \A f \in Files : resReceipt[x][f] # e
    BY <1>1, <1>2 DEF ResInv, ReceiptsClosed, Explained
  <2>3. resRun'.was = d /\ resRun'.op = "apply" /\ resRun'.event = e
    BY <1>1
  <2>4. \A x \in ResIds : resReceipt'[x] # NoRes => \A f \in Files : resReceipt'[x][f] # e
    BY <1>6, <2>1, <2>2
  <2>5. e \notin EventIds'
    BY <1>1, SameRecord
  <2> QED BY <1>1, <1>3, <2>3, <2>4, <2>5 DEF ApplyBegan
<1>13. RollbackBegan' /\ MigrateBegan'
  BY <1>1 DEF RollbackBegan, MigrateBegan
<1>14. CommandMoves'
  <2>1. /\ resRun'.was = d /\ resRun'.op = "apply" /\ resRun'.event = e
        /\ resRun'.second = FALSE /\ resRun'.tr = t
    BY <1>1
  <2>2. Towards(resRun.tr)'
    BY <2>1, <1>4, <1>6 DEF Towards
  <2> QED BY <1>1, <1>3, <1>4, <2>1, <2>2 DEF CommandMoves
<1>15. AllOrNothing' /\ MixturesExplained' /\ IdsOnce'
  <2>1. \A f \in Files : resFile[f] \in ResIds => resReceipt'[resFile[f]] # NoRes
    BY <1>1, <1>8 DEF ReceiptsClosed, Explained
  <2> QED BY <1>1, <1>5, <2>1, SameRecord DEF ResInv, AllOrNothing, MixturesExplained, ResIdle
<1>16. EventsKeepReceipts'
  <2>1. \A x \in EventIds : x \in ResIds /\ x # e
    BY <1>9 DEF EventIds
  <2> QED BY <1>1, <1>6, <2>1, SameRecord DEF ResInv, EventsKeepReceipts
<1> QED BY <1>7, <1>8, <1>10, <1>11, <1>12, <1>13, <1>14, <1>15, <1>16 DEF ResInv

LEMMA ConfigRollbackSafe ==
    ASSUME ResInv, NEW e \in ResIds, ConfigRollback(e)
    PROVE  ResInv'
<1> DEFINE t == RollbackFiles(resReceipt[e], e)
           d == Disk
<1>1. /\ resRun = NoRes /\ resAnswer' = NoRes /\ e = CurrentEvent /\ resReceipt[e] # NoRes
      /\ resRun' = [op |-> "rollback", event |-> e, second |-> FALSE, was |-> d, tr |-> t]
      /\ resFile' = resFile /\ resEvents' = resEvents /\ resReceipt' = resReceipt
      /\ resMigrated' = resMigrated /\ resHistory' = resHistory /\ resTorn' = resTorn
  BY DEF ConfigRollback, ResIdle, Task, Receipts
<1>2. /\ resReceipt[e] \in ResStates /\ t \in ResTransitions /\ d \in ResDisks
      /\ resEvents \in Seq(ResEntries)
  <2>1. resReceipt[e] \in ResStates
    BY <1>1 DEF ResInv, ResTyped
  <2> QED BY <2>1, TransitionTyped, DiskTyped DEF ResInv, ResTyped
<1>3. /\ d.file = resFile /\ d.events = resEvents /\ d.receipt = resReceipt
      /\ d.migrated = resMigrated /\ d.history = resHistory
  BY DEF Disk
<1>4. /\ t.order = Backwards(ResFiles) /\ t.from = After(e) /\ t.to = resReceipt[e]
      /\ t.done = <<>> /\ t.phase = "preflight" /\ t.end = "restored"
  BY DEF RollbackFiles, Transition
<1> HIDE DEF t, d
<1>5. resRun' \in ResRuns /\ resRun' # NoRes
  BY <1>1, <1>2, InRuns
<1>6. /\ resRun'.was = d /\ resRun'.op = "rollback" /\ resRun'.event = e
      /\ resRun'.second = FALSE /\ resRun'.tr = t
  BY <1>1
<1>7. ResTyped' /\ ReceiptsClosed' /\ IdsOnce'
  BY <1>1, <1>5, SameRecord DEF ResInv, ResTyped, ReceiptsClosed, Explained
<1>8. ReceiptsChained' /\ EventsKeepReceipts'
  BY <1>1, SameRecord DEF ResInv, ReceiptsChained, EventsKeepReceipts
<1>9. CommandBegan'
  <2>1. ~resTorn /\ CurrentEvent # NoRes => \A f \in Files : resFile[f] \in {CurrentEvent, Edited}
    BY <1>1 DEF ResInv, MixturesExplained, ResIdle
  <2>2. resMigrated \subseteq resHistory
    BY DEF ResInv, EventsKeepReceipts
  <2> QED BY <1>1, <1>3, <1>6, <2>1, <2>2, SameRecord DEF CommandBegan
<1>10. e \in EventIds
  <2>1. CurrentOf(resEvents) # NoRes
    BY <1>1, CurrentIsOf, ResAssumption
  <2>2. PICK m \in StandingOf(resEvents) : CurrentOf(resEvents) = resEvents[m].id
    BY <1>2, <2>1, CurrentIs
  <2> QED BY <1>1, <2>2, CurrentIsOf DEF EventIds, StandingOf
<1>11. ApplyBegan' /\ RollbackBegan' /\ MigrateBegan'
  BY <1>1, <1>6, <1>10, SameRecord DEF ApplyBegan, RollbackBegan, MigrateBegan
<1>12. CommandMoves'
  <2>1. Towards(resRun.tr)'
    BY <1>1, <1>6, <1>4 DEF Towards
  <2> QED BY <1>1, <1>3, <1>4, <1>6, <2>1 DEF CommandMoves
<1>13. AllOrNothing' /\ MixturesExplained'
  <2>1. \A f \in Files : resFile[f] \in ResIds => resReceipt[resFile[f]] # NoRes
    BY DEF ResInv, ReceiptsClosed, Explained
  <2> QED BY <1>1, <1>5, <2>1, SameRecord DEF AllOrNothing, MixturesExplained, ResIdle
<1> QED BY <1>7, <1>8, <1>9, <1>11, <1>12, <1>13 DEF ResInv

LEMMA MigrateLegacySafe ==
    ASSUME ResInv, NEW e \in ResIds, MigrateLegacy(e)
    PROVE  ResInv'
<1> DEFINE d == Disk
<1>1. /\ resRun = NoRes /\ resAnswer' = NoRes /\ resHistory' = resHistory \cup {e}
      /\ resRun' = [op |-> "migrate", event |-> e, second |-> FALSE, was |-> d,
                    tr |-> [phase |-> "written"]]
      /\ resFile' = resFile /\ resEvents' = resEvents /\ resReceipt' = resReceipt
      /\ resMigrated' = resMigrated /\ resTorn' = resTorn
  BY DEF MigrateLegacy, ResIdle, Task
<1>2. d \in ResDisks
  BY DiskTyped DEF ResInv
<1>3. /\ d.file = resFile /\ d.events = resEvents /\ d.receipt = resReceipt
      /\ d.migrated = resMigrated /\ d.history = resHistory
  BY DEF Disk
<1> HIDE DEF d
<1>4. resRun' \in ResRuns /\ resRun' # NoRes
  BY <1>1, <1>2, InMigrations
<1>5. resRun'.was = d /\ resRun'.op = "migrate" /\ resRun'.event = e
  BY <1>1
<1>6. ResTyped' /\ ReceiptsClosed' /\ IdsOnce'
  BY <1>1, <1>4, SameRecord DEF ResInv, ResTyped, ReceiptsClosed, Explained
<1>7. ReceiptsChained' /\ EventsKeepReceipts'
  BY <1>1, SameRecord DEF ResInv, ReceiptsChained, EventsKeepReceipts
<1>8. CommandBegan'
  <2>1. ~resTorn /\ CurrentEvent # NoRes => \A f \in Files : resFile[f] \in {CurrentEvent, Edited}
    BY <1>1 DEF ResInv, MixturesExplained, ResIdle
  <2>2. resMigrated \subseteq resHistory
    BY DEF ResInv, EventsKeepReceipts
  <2> QED BY <1>1, <1>3, <1>5, <2>1, <2>2, SameRecord DEF CommandBegan
<1>9. ApplyBegan' /\ RollbackBegan' /\ MigrateBegan' /\ CommandMoves'
  BY <1>1, <1>3, <1>5 DEF ApplyBegan, RollbackBegan, MigrateBegan, CommandMoves
<1>10. AllOrNothing' /\ MixturesExplained'
  <2>1. \A f \in Files : resFile[f] \in ResIds => resReceipt[resFile[f]] # NoRes
    BY DEF ResInv, ReceiptsClosed, Explained
  <2> QED BY <1>1, <1>4, <2>1, SameRecord DEF AllOrNothing, MixturesExplained, ResIdle
<1> QED BY <1>6, <1>7, <1>8, <1>9, <1>10 DEF ResInv

-----------------------------------------------------------------------------
(* The files of a transition, one after the other *)

LEMMA OrderCovers ==
    ASSUME NEW o \in {ResFiles, Backwards(ResFiles)}
    PROVE  /\ o \in Seq(Files) /\ Len(o) \in Nat \ {0}
           /\ \A i, j \in 1 .. Len(o) : o[i] = o[j] => i = j
           /\ \A f \in Files : \E i \in 1 .. Len(o) : o[i] = f
<1> DEFINE n == Len(ResFiles)
<1>1. n \in Nat \ {0} /\ DOMAIN ResFiles = 1 .. n
  BY ListsTyped
<1>2. /\ \A i, j \in 1 .. n : ResFiles[i] = ResFiles[j] => i = j
      /\ \A f \in Files : \E i \in 1 .. n : ResFiles[i] = f
  BY <1>1, ResAssumption DEF Files
<1>3. CASE o = ResFiles
  BY <1>1, <1>2, <1>3, ListsTyped
<1>4. CASE o = Backwards(ResFiles)
  <2>1. Len(o) = n /\ \A i \in 1 .. n : o[i] = ResFiles[n + 1 - i] /\ n + 1 - i \in 1 .. n
    BY <1>1, <1>4, ListsTyped
  <2>2. \A i, j \in 1 .. n : o[i] = o[j] => i = j
    <3>1. ASSUME NEW i \in 1 .. n, NEW j \in 1 .. n, o[i] = o[j]
          PROVE  i = j
      <4>1. PICK k \in 1 .. n, m \in 1 .. n : k = n + 1 - i /\ m = n + 1 - j
        BY <2>1, Zenon
      <4>2. ResFiles[k] = ResFiles[m]
        BY <2>1, <3>1, <4>1
      <4>3. k = m
        BY <1>2, <4>2
      <4> QED BY <1>1, <4>1, <4>3
    <3> QED BY <3>1
  <2>3. ASSUME NEW f \in Files
        PROVE  \E i \in 1 .. n : o[i] = f
    <3>1. PICK k \in 1 .. n : ResFiles[k] = f
      BY <1>2
    <3>2. n + 1 - k \in 1 .. n /\ n + 1 - (n + 1 - k) = k
      BY <1>1
    <3>3. o[n + 1 - k] = f
      BY <2>1, <3>1, <3>2
    <3> QED BY <3>2, <3>3
  <2> QED BY <1>1, <1>4, <2>1, <2>2, <2>3, ListsTyped
<1> QED BY <1>3, <1>4

LEMMA TransitionParts ==
    ASSUME NEW t \in ResTransitions
    PROVE  /\ t.order \in {ResFiles, Backwards(ResFiles)} /\ t.done \in Seq(Files)
           /\ Len(t.done) \in Nat
           /\ t.from \in ResStates /\ t.to \in ResStates /\ t.end \in {"restored", "uncertain"}
           /\ t = [phase |-> t.phase, order |-> t.order, from |-> t.from, to |-> t.to,
                   done |-> t.done, end |-> t.end]
BY DEF ResTransitions

(* One more file is written.                                                *)
LEMMA PartialGrows ==
    ASSUME NEW t \in ResTransitions, Prefix(t), Len(t.done) < Len(t.order),
           NEW s \in ResStates, Partial(s, t),
           NEW f \in Files, f = t.order[Len(t.done) + 1],
           NEW u \in ResTransitions, u.done = Append(t.done, f),
           u.order = t.order, u.from = t.from, u.to = t.to
    PROVE  /\ Prefix(u) /\ Len(u.done) = Len(t.done) + 1
           /\ Partial([s EXCEPT ![f] = t.to[f]], u)
<1> DEFINE n == Len(t.done)
<1>1. n \in Nat /\ Len(t.order) \in Nat
  BY TransitionParts, OrderCovers
<1>2. /\ Len(u.done) = n + 1 /\ u.done[n + 1] = f
      /\ \A i \in 1 .. n : u.done[i] = t.done[i]
  BY TransitionParts
<1>3. Prefix(u)
  BY <1>1, <1>2 DEF Prefix
<1>4. ASSUME NEW g \in Files
      PROVE  (\E i \in 1 .. Len(u.done) : u.done[i] = g)
                 <=> (g = f \/ \E i \in 1 .. n : t.done[i] = g)
  BY <1>1, <1>2
<1>5. Partial([s EXCEPT ![f] = t.to[f]], u)
  <2> DEFINE r == [s EXCEPT ![f] = t.to[f]]
  <2>1. r[f] = t.to[f] /\ \A g \in Files \ {f} : r[g] = s[g]
    BY DEF ResStates
  <2> HIDE DEF r
  <2>2. Partial(r, u)
    BY <1>4, <2>1 DEF Partial
  <2> QED BY <2>2 DEF r
<1> QED BY <1>2, <1>3, <1>5

(* All of them are.                                                          *)
LEMMA PartialIsWhole ==
    ASSUME NEW t \in ResTransitions, Prefix(t), Len(t.done) = Len(t.order),
           NEW s \in ResStates, Partial(s, t)
    PROVE  s = t.to
<1>1. \A f \in Files : \E i \in 1 .. Len(t.done) : t.done[i] = f
  <2>1. t.order \in {ResFiles, Backwards(ResFiles)}
    BY TransitionParts
  <2>2. \A f \in Files : \E i \in 1 .. Len(t.order) : t.order[i] = f
    BY <2>1, OrderCovers
  <2> QED BY <2>2 DEF Prefix
<1>2. \A f \in Files : s[f] = t.to[f]
  BY <1>1 DEF Partial
<1> QED BY <1>2, TransitionParts DEF ResStates

(* None of them is.                                                          *)
LEMMA PartialIsNone ==
    ASSUME NEW t \in ResTransitions, t.done = <<>>, NEW s \in ResStates
    PROVE  Prefix(t) /\ (Partial(s, t) <=> s = t.from)
<1>1. Len(t.done) = 0
  OBVIOUS
<1>2. Partial(s, t) <=> \A f \in Files : s[f] = t.from[f]
  BY <1>1 DEF Partial
<1>3. Prefix(t)
  <2>1. Len(t.order) \in Nat
    BY TransitionParts, OrderCovers
  <2> QED BY <1>1, <2>1 DEF Prefix
<1>4. t.from \in ResStates
  BY TransitionParts
<1>5. (\A f \in Files : s[f] = t.from[f]) <=> s = t.from
  BY <1>4 DEF ResStates
<1> QED BY <1>2, <1>3, <1>5

(* The last one goes back.                                                   *)
LEMMA PartialShrinks ==
    ASSUME NEW t \in ResTransitions, Prefix(t), t.done # <<>>,
           NEW s \in ResStates, NEW u \in ResTransitions,
           u.done = SubSeq(t.done, 1, Len(t.done) - 1),
           u.order = t.order, u.from = t.from, u.to = t.to
    PROVE  LET f == t.done[Len(t.done)] IN
           /\ f \in Files /\ Prefix(u)
           /\ Partial(s, t) => Partial([s EXCEPT ![f] = t.from[f]], u)
<1> DEFINE n == Len(t.done)
           f == t.done[n]
<1>1. n \in Nat \ {0} /\ Len(t.order) \in Nat /\ n <= Len(t.order)
  <2>1. n # 0
    <3>1. \A x \in Seq(Files) : Len(x) = 0 => x = <<>>
      OBVIOUS
    <3> QED BY <3>1, TransitionParts
  <2> QED BY <2>1, TransitionParts, OrderCovers DEF Prefix
<1>2. f \in Files
  BY <1>1, TransitionParts
<1>3. Len(u.done) = n - 1 /\ \A i \in 1 .. n - 1 : u.done[i] = t.done[i]
  BY <1>1, TransitionParts
<1>4. Prefix(u)
  BY <1>1, <1>3 DEF Prefix
<1>5. \A i \in 1 .. n : t.done[i] = f => i = n
  <2>1. t.order \in {ResFiles, Backwards(ResFiles)}
    BY TransitionParts
  <2>2. \A i, j \in 1 .. Len(t.order) : t.order[i] = t.order[j] => i = j
    BY <2>1, OrderCovers
  <2> QED BY <1>1, <2>2 DEF Prefix
<1>6. ASSUME NEW g \in Files
      PROVE  (\E i \in 1 .. Len(u.done) : u.done[i] = g)
                 <=> (g # f /\ \E i \in 1 .. n : t.done[i] = g)
  <2>1. CASE g = f
    <3>1. \A i \in 1 .. n - 1 : t.done[i] # f
      BY <1>1, <1>5
    <3> QED BY <1>3, <2>1, <3>1
  <2>2. CASE g # f
    <3>1. \A i \in 1 .. n : i # n => i \in 1 .. n - 1
      BY <1>1
    <3>2. \A i \in 1 .. n - 1 : i \in 1 .. n
      BY <1>1
    <3> QED BY <1>3, <2>2, <3>1, <3>2
  <2> QED BY <2>1, <2>2
<1>7. Partial(s, t) => Partial([s EXCEPT ![f] = t.from[f]], u)
  <2> SUFFICES ASSUME Partial(s, t)
               PROVE  Partial([s EXCEPT ![f] = t.from[f]], u)
    OBVIOUS
  <2> DEFINE r == [s EXCEPT ![f] = t.from[f]]
  <2>1. r[f] = t.from[f] /\ \A g \in Files \ {f} : r[g] = s[g]
    BY <1>2 DEF ResStates
  <2> HIDE DEF r, f, n
  <2>2. Partial(r, u)
    BY <1>6, <2>1 DEF Partial, n
  <2> QED BY <2>2 DEF r
<1> QED BY <1>2, <1>4, <1>7

(* The receipt of a running event is there, and it explains its bytes.      *)
LEMMA RunningReceipt ==
    ASSUME ResInv, resRun # NoRes, resRun.op # "migrate"
    PROVE  /\ resRun.event \in ResIds /\ resReceipt[resRun.event] \in ResStates
           /\ Explained(resReceipt[resRun.event]) /\ Explained(After(resRun.event))
           /\ resRun.tr \in ResTransitions
           /\ Explained(resRun.tr.from) /\ Explained(resRun.tr.to)
<1>1. resRun.event \in ResIds /\ resRun.was.file \in ResStates /\ resRun.tr \in ResTransitions
      /\ resRun.op \in {"apply", "rollback"} /\ resRun.was \in ResDisks
  BY RunOf DEF ResInv, ResDisks
<1>2. resReceipt[resRun.event] # NoRes
  <2>1. CASE resRun.op = "apply"
    <3>1. resReceipt = [resRun.was.receipt EXCEPT ![resRun.event] = resRun.was.file]
      BY <2>1 DEF ResInv, ApplyBegan
    <3>2. resRun.was.receipt \in [ResIds -> ResStates \cup {NoRes}]
      BY <1>1 DEF ResDisks
    <3> QED BY <1>1, <3>1, <3>2, ResAssumption
  <2>2. CASE resRun.op = "rollback"
    BY <2>2 DEF ResInv, RollbackBegan, EventsKeepReceipts
  <2> QED BY <1>1, <2>1, <2>2
<1>3. resReceipt[resRun.event] \in ResStates
  BY <1>1, <1>2 DEF ResInv, ResTyped
<1>4. Explained(resReceipt[resRun.event])
  BY <1>1, <1>2 DEF ResInv, ReceiptsClosed
<1>5. Explained(After(resRun.event))
  BY <1>1, <1>2, AfterTyped DEF Explained
<1>6. Towards(resRun.tr)
  BY DEF ResInv, CommandMoves
<1> QED BY <1>1, <1>3, <1>4, <1>5, <1>6 DEF Towards

(* What a step of the files has to keep.                                    *)
MovesTo(s, t) ==
    /\ ~resRun.second /\ t.phase \in {"forward", "undo", "written"}
           => t.from = resRun.was.file
    /\ ~resRun.second /\ t.phase = "restored" => s = resRun.was.file
    /\ t.phase # "preflight"
    /\ t.phase = "forward" => Prefix(t) /\ Len(t.done) < Len(t.order) /\ Partial(s, t)
    /\ t.phase = "undo" => Prefix(t) /\ (t.end = "restored" => Partial(s, t))
    /\ t.phase = "written" => s = t.to

LEMMA FilesMove ==
    ASSUME ResInv, resRun # NoRes, resRun.op # "migrate",
           NEW t \in ResTransitions,
           t.order = resRun.tr.order, t.from = resRun.tr.from, t.to = resRun.tr.to,
           resRun' = [resRun EXCEPT !.tr = t],
           resFile' \in ResStates,
           \A f \in Files : resFile'[f] \in {resFile[f], t.from[f], t.to[f]},
           MovesTo(resFile', t),
           resEvents' = resEvents, resReceipt' = resReceipt, resMigrated' = resMigrated,
           resHistory' = resHistory, resAnswer' = resAnswer, resTorn' = resTorn
    PROVE  ResInv'
<1>1. /\ resRun.was \in ResDisks /\ resRun.event \in ResIds /\ resRun.second \in BOOLEAN
      /\ resRun.op \in {"apply", "rollback"}
      /\ resRun = [op |-> resRun.op, event |-> resRun.event, second |-> resRun.second,
                   was |-> resRun.was, tr |-> resRun.tr]
  BY RunOf DEF ResInv
<1>2. resRun' = [op |-> resRun.op, event |-> resRun.event, second |-> resRun.second,
                 was |-> resRun.was, tr |-> t]
  BY <1>1
<1>3. resRun' \in ResRuns /\ resRun' # NoRes
  BY <1>1, <1>2, InRuns
<1>4. /\ resRun'.op = resRun.op /\ resRun'.event = resRun.event
      /\ resRun'.second = resRun.second /\ resRun'.was = resRun.was /\ resRun'.tr = t
  BY <1>2
<1>5. ResTyped' /\ IdsOnce' /\ ReceiptsChained' /\ EventsKeepReceipts'
  BY <1>3, SameRecord DEF ResInv, ResTyped, ReceiptsChained, EventsKeepReceipts
<1>6. ReceiptsClosed'
  <2>1. Explained(t.from) /\ Explained(t.to) /\ Explained(resFile)
    BY RunningReceipt DEF ResInv, ReceiptsClosed
  <2>2. \A f \in Files : resFile'[f] \in ResIds => resReceipt[resFile'[f]] # NoRes
    BY <2>1 DEF Explained
  <2> QED BY <2>2 DEF ResInv, ReceiptsClosed, Explained
<1>7. CommandBegan' /\ ApplyBegan' /\ RollbackBegan' /\ MigrateBegan'
  BY <1>4, SameRecord DEF ResInv, CommandBegan, ApplyBegan, RollbackBegan, MigrateBegan
<1>8. CommandMoves'
  <2>1. Towards(resRun.tr)'
    BY <1>4 DEF ResInv, CommandMoves, Towards
  <2>2. resRun.second => t.to = resRun.was.file
    BY DEF ResInv, CommandMoves
  <2> QED BY <1>4, <2>1, <2>2 DEF CommandMoves, MovesTo, Prefix, Partial
<1>9. AllOrNothing'
  BY DEF ResInv, CommandBegan, AllOrNothing
<1>10. MixturesExplained'
  BY <1>3, <1>6 DEF MixturesExplained, ResIdle, ReceiptsClosed, Explained
<1> QED BY <1>5, <1>6, <1>7, <1>8, <1>9, <1>10 DEF ResInv

LEMMA FilePhase ==
    ASSUME ResInv, resRun # NoRes, resRun.tr.phase # "written"
    PROVE  resRun.op # "migrate"
<1>1. resRun.op = "migrate" => resRun.tr = [phase |-> "written"]
  BY RunOf DEF ResInv
<1> QED BY <1>1

LEMMA PreflightSafe ==
    ASSUME ResInv, Preflight
    PROVE  ResInv'
<1> DEFINE ph == IF OnDisk(Files, resRun.tr.from) THEN "forward" ELSE "restored"
           t == [resRun.tr EXCEPT !.phase = ph]
<1>1. /\ resRun # NoRes /\ resRun.tr.phase = "preflight" /\ resRun' = [resRun EXCEPT !.tr.phase = ph]
      /\ resFile' = resFile /\ resEvents' = resEvents /\ resReceipt' = resReceipt
      /\ resMigrated' = resMigrated /\ resHistory' = resHistory /\ resAnswer' = resAnswer
      /\ resTorn' = resTorn
  BY DEF Preflight, Phase, ResIdle, Enter, Task, Receipts
<1>2. resRun.op # "migrate" /\ resFile \in ResStates
  BY <1>1, FilePhase DEF ResInv, ResTyped
<1>3. resRun.tr \in ResTransitions /\ resRun.tr.done = <<>>
  BY <1>1, <1>2, RunOf DEF ResInv, CommandMoves
<1>4. /\ t \in ResTransitions /\ t.phase = ph /\ t.done = <<>> /\ t.order = resRun.tr.order
      /\ t.from = resRun.tr.from /\ t.to = resRun.tr.to
  BY <1>3 DEF ResTransitions
<1>5. resRun' = [resRun EXCEPT !.tr = t]
  BY <1>1
<1>6. MovesTo(resFile, t)
  <2>1. CASE ph = "forward"
    <3>1. resFile = t.from
      BY <1>2, <1>4, <2>1, TransitionParts DEF OnDisk, ResStates
    <3>2. Prefix(t) /\ Partial(resFile, t)
      BY <1>2, <1>4, <3>1, PartialIsNone
    <3>3. Len(t.done) < Len(t.order)
      <4>1. Len(t.order) \in Nat \ {0}
        <5>1. t.order \in {ResFiles, Backwards(ResFiles)}
          BY <1>4, TransitionParts
        <5> QED BY <5>1, OrderCovers
      <4>2. Len(t.done) = 0
        BY <1>4
      <4> QED BY <4>1, <4>2
    <3>4. ~resRun.second => resFile = resRun.was.file
      BY <1>1, <1>2 DEF ResInv, CommandMoves
    <3> QED BY <1>4, <2>1, <3>1, <3>2, <3>3, <3>4 DEF MovesTo
  <2>2. CASE ph = "restored"
    <3>1. ~resRun.second => resFile = resRun.was.file
      BY <1>1, <1>2 DEF ResInv, CommandMoves
    <3> QED BY <1>4, <2>2, <3>1 DEF MovesTo
  <2> QED BY <2>1, <2>2
<1> HIDE DEF t, ph
<1> QED BY <1>1, <1>2, <1>4, <1>5, <1>6, FilesMove

(* What a step forward finds.                                                *)
LEMMA ForwardFinds ==
    ASSUME ResInv, Phase("forward")
    PROVE  /\ resRun # NoRes /\ resRun.op # "migrate" /\ resFile \in ResStates
           /\ resRun.tr \in ResTransitions /\ Prefix(resRun.tr)
           /\ Len(resRun.tr.done) < Len(resRun.tr.order) /\ Partial(resFile, resRun.tr)
           /\ Target \in Files /\ Target = resRun.tr.order[Len(resRun.tr.done) + 1]
           /\ ~resRun.second => resRun.tr.from = resRun.was.file
<1>1. resRun # NoRes /\ resRun.tr.phase = "forward" /\ resFile \in ResStates
  BY DEF Phase, ResIdle, ResInv, ResTyped
<1>2. resRun.op # "migrate"
  BY <1>1, FilePhase
<1>3. resRun.tr \in ResTransitions
  BY <1>1, <1>2, RunOf DEF ResInv
<1>4. /\ Prefix(resRun.tr) /\ Len(resRun.tr.done) < Len(resRun.tr.order)
      /\ Partial(resFile, resRun.tr) /\ (~resRun.second => resRun.tr.from = resRun.was.file)
  BY <1>1, <1>2 DEF ResInv, CommandMoves
<1>5. Target \in Files
  <2>1. /\ Len(resRun.tr.done) \in Nat /\ Len(resRun.tr.order) \in Nat
        /\ resRun.tr.order \in Seq(Files)
    BY <1>3, TransitionParts, OrderCovers
  <2>2. Len(resRun.tr.done) + 1 \in 1 .. Len(resRun.tr.order)
    BY <1>4, <2>1
  <2> QED BY <2>1, <2>2 DEF Target
<1> QED BY <1>1, <1>2, <1>3, <1>4, <1>5 DEF Target

(* The files with their target replaced.                                     *)
LEMMA TargetWritten ==
    ASSUME NEW s \in ResStates, NEW r \in ResStates, NEW f \in Files
    PROVE  /\ [s EXCEPT ![f] = r[f]] \in ResStates
           /\ \A g \in Files : [s EXCEPT ![f] = r[f]][g] \in {s[g], r[g]}
<1>1. r[f] \in ResIds \cup {Original, Edited}
  BY DEF ResStates
<1> QED BY <1>1 DEF ResStates

LEMMA WriteTargetSafe ==
    ASSUME ResInv, WriteTarget
    PROVE  ResInv'
<1> DEFINE f == Target
           o == resRun.tr
           u == [o EXCEPT !.done = Append(@, f)]
           t == Moved(u)
<1>1. /\ Phase("forward") /\ resFile' = [resFile EXCEPT ![f] = o.to[f]]
      /\ resRun' = [resRun EXCEPT !.tr = t]
      /\ resEvents' = resEvents /\ resReceipt' = resReceipt
      /\ resMigrated' = resMigrated /\ resHistory' = resHistory /\ resAnswer' = resAnswer
      /\ resTorn' = resTorn
  BY DEF WriteTarget, Task, Receipts
<1>2. /\ resRun # NoRes /\ resRun.op # "migrate" /\ resFile \in ResStates
      /\ o \in ResTransitions /\ Prefix(o) /\ Len(o.done) < Len(o.order) /\ Partial(resFile, o)
      /\ f \in Files /\ f = o.order[Len(o.done) + 1] /\ (~resRun.second => o.from = resRun.was.file)
      /\ o.phase = "forward"
  BY <1>1, ForwardFinds DEF Phase
<1> HIDE DEF f, o
<1>3. /\ u \in ResTransitions /\ u.done = Append(o.done, f) /\ u.order = o.order
      /\ u.from = o.from /\ u.to = o.to /\ u.phase = "forward"
  <2>1. Append(o.done, f) \in Seq(Files)
    BY <1>2, TransitionParts
  <2> HIDE DEF f
  <2> QED BY <1>2, <2>1 DEF ResTransitions
<1> HIDE DEF u
<1>4. /\ Prefix(u) /\ Len(u.done) = Len(o.done) + 1 /\ Partial(resFile', u)
  BY <1>1, <1>2, <1>3, PartialGrows
<1>5. /\ t \in ResTransitions /\ t.done = u.done /\ t.order = o.order
      /\ t.from = o.from /\ t.to = o.to
      /\ t.phase = IF Len(u.done) = Len(u.order) THEN "written" ELSE "forward"
  BY <1>3 DEF Moved, ResTransitions
<1>6. /\ resFile' \in ResStates
      /\ \A g \in Files : resFile'[g] \in {resFile[g], t.from[g], t.to[g]}
  <2>1. o.to \in ResStates
    BY <1>2, TransitionParts
  <2>2. [resFile EXCEPT ![f] = o.to[f]] \in ResStates
    BY <1>2, <2>1, TargetWritten
  <2>3. \A g \in Files : [resFile EXCEPT ![f] = o.to[f]][g] \in {resFile[g], o.to[g]}
    BY <1>2, <2>1, TargetWritten
  <2> QED BY <1>1, <1>5, <2>2, <2>3
<1>7. MovesTo(resFile', t)
  <2>1. Len(o.done) \in Nat /\ Len(o.order) \in Nat
    BY <1>2, TransitionParts, OrderCovers
  <2>2. CASE Len(u.done) = Len(u.order)
    <3>1. resFile' = u.to
      BY <1>3, <1>4, <1>6, <2>2, PartialIsWhole
    <3> QED BY <1>2, <1>3, <1>5, <2>2, <3>1 DEF MovesTo
  <2>3. CASE Len(u.done) # Len(u.order)
    <3>1. Prefix(t) /\ Len(t.done) < Len(t.order) /\ Partial(resFile', t)
      BY <1>2, <1>3, <1>4, <1>5, <2>1, <2>3 DEF Prefix, Partial
    <3> QED BY <1>2, <1>5, <2>3, <3>1 DEF MovesTo
  <2> QED BY <2>2, <2>3
<1> HIDE DEF t
<1> QED BY <1>1, <1>2, <1>5, <1>6, <1>7, FilesMove DEF o

(* What the files may be when a write reported an error.                    *)
LEMMA MaybeWritten ==
    ASSUME NEW s \in ResStates, NEW r \in ResStates, NEW f \in Files, NEW b \in BOOLEAN
    PROVE  LET w == IF b THEN [s EXCEPT ![f] = r[f]] ELSE s IN
           w \in ResStates /\ \A g \in Files : w[g] \in {s[g], r[g]}
<1>1. CASE b
  BY <1>1, TargetWritten
<1>2. CASE ~b
  BY <1>2
<1> QED BY <1>1, <1>2

LEMMA WriteTargetFailsSafe ==
    ASSUME ResInv, WriteTargetFails
    PROVE  ResInv'
<1> DEFINE f == Target
           o == resRun.tr
<1>1. PICK reached \in BOOLEAN :
         /\ resFile' = IF reached THEN [resFile EXCEPT ![f] = o.to[f]] ELSE resFile
         /\ resRun' = [resRun EXCEPT !.tr.phase = "undo",
                                     !.tr.done = IF reached /\ o.to[f] # o.from[f]
                                                 THEN Append(@, f) ELSE @]
  BY DEF WriteTargetFails
<1>2. /\ Phase("forward")
      /\ resEvents' = resEvents /\ resReceipt' = resReceipt
      /\ resMigrated' = resMigrated /\ resHistory' = resHistory /\ resAnswer' = resAnswer
      /\ resTorn' = resTorn
  BY DEF WriteTargetFails, Task, Receipts
<1>3. /\ resRun # NoRes /\ resRun.op # "migrate" /\ resFile \in ResStates
      /\ o \in ResTransitions /\ Prefix(o) /\ Len(o.done) < Len(o.order) /\ Partial(resFile, o)
      /\ f \in Files /\ f = o.order[Len(o.done) + 1] /\ (~resRun.second => o.from = resRun.was.file)
  BY <1>2, ForwardFinds
<1> DEFINE d == IF reached /\ o.to[f] # o.from[f] THEN Append(o.done, f) ELSE o.done
           t == [o EXCEPT !.phase = "undo", !.done = d]
<1>4. resRun' = [resRun EXCEPT !.tr = t]
  <2>1. resRun = [op |-> resRun.op, event |-> resRun.event, second |-> resRun.second,
                  was |-> resRun.was, tr |-> resRun.tr]
    BY <1>3, RunOf DEF ResInv
  <2>2. o = [phase |-> o.phase, order |-> o.order, from |-> o.from, to |-> o.to,
             done |-> o.done, end |-> o.end]
    BY <1>3, TransitionParts
  <2> QED BY <1>1, <2>1, <2>2
<1> HIDE DEF f, o
<1>5. d \in Seq(Files) /\ o.to \in ResStates /\ o.from \in ResStates
  BY <1>3, TransitionParts
<1> HIDE DEF d
<1>6. /\ t \in ResTransitions /\ t.done = d /\ t.order = o.order /\ t.from = o.from
      /\ t.to = o.to /\ t.phase = "undo"
  BY <1>3, <1>5 DEF ResTransitions
<1>7. /\ resFile' \in ResStates
      /\ \A g \in Files : resFile'[g] \in {resFile[g], t.from[g], t.to[g]}
  <2>1. /\ resFile' \in ResStates
        /\ \A g \in Files : resFile'[g] \in {resFile[g], o.to[g]}
    BY <1>1, <1>3, <1>5, MaybeWritten
  <2> QED BY <1>6, <2>1
<1> HIDE DEF t
<1>8. Prefix(t) /\ Partial(resFile', t)
  <2>1. CASE reached /\ o.to[f] # o.from[f]
    <3>1. t.done = Append(o.done, f) /\ resFile' = [resFile EXCEPT ![f] = o.to[f]]
      BY <1>1, <1>6, <2>1 DEF d
    <3> QED BY <1>3, <1>6, <3>1, PartialGrows
  <2>2. CASE ~(reached /\ o.to[f] # o.from[f])
    <3>1. t.done = o.done
      BY <1>6, <2>2 DEF d
    <3>2. resFile' = resFile
      <4>1. CASE reached
        <5>1. resFile[f] = o.from[f] \/ resFile[f] = o.to[f]
          BY <1>3 DEF Partial
        <5> QED BY <1>1, <1>3, <2>2, <4>1, <5>1 DEF ResStates
      <4>2. CASE ~reached
        BY <1>1, <4>2
      <4> QED BY <4>1, <4>2
    <3> QED BY <1>3, <1>6, <3>1, <3>2 DEF Prefix, Partial
  <2> QED BY <2>1, <2>2
<1>9. MovesTo(resFile', t)
  BY <1>3, <1>6, <1>8 DEF MovesTo
<1> QED BY <1>2, <1>3, <1>4, <1>6, <1>7, <1>9, FilesMove DEF o

LEMMA WriteTargetUnreadableSafe ==
    ASSUME ResInv, WriteTargetUnreadable
    PROVE  ResInv'
<1> DEFINE f == Target
           o == resRun.tr
           t == [o EXCEPT !.phase = "undo", !.end = "uncertain"]
<1>1. PICK reached \in BOOLEAN :
         resFile' = IF reached THEN [resFile EXCEPT ![f] = o.to[f]] ELSE resFile
  BY DEF WriteTargetUnreadable
<1>2. /\ Phase("forward")
      /\ resRun' = [resRun EXCEPT !.tr.phase = "undo", !.tr.end = "uncertain"]
      /\ resEvents' = resEvents /\ resReceipt' = resReceipt
      /\ resMigrated' = resMigrated /\ resHistory' = resHistory /\ resAnswer' = resAnswer
      /\ resTorn' = resTorn
  BY DEF WriteTargetUnreadable, Task, Receipts
<1>3. /\ resRun # NoRes /\ resRun.op # "migrate" /\ resFile \in ResStates
      /\ o \in ResTransitions /\ Prefix(o) /\ f \in Files
      /\ (~resRun.second => o.from = resRun.was.file)
  BY <1>2, ForwardFinds
<1>4. resRun' = [resRun EXCEPT !.tr = t]
  <2>1. resRun = [op |-> resRun.op, event |-> resRun.event, second |-> resRun.second,
                  was |-> resRun.was, tr |-> resRun.tr]
    BY <1>3, RunOf DEF ResInv
  <2>2. o = [phase |-> o.phase, order |-> o.order, from |-> o.from, to |-> o.to,
             done |-> o.done, end |-> o.end]
    BY <1>3, TransitionParts
  <2> QED BY <1>2, <2>1, <2>2
<1> HIDE DEF f, o
<1>5. /\ t \in ResTransitions /\ t.done = o.done /\ t.order = o.order /\ t.from = o.from
      /\ t.to = o.to /\ t.phase = "undo" /\ t.end = "uncertain"
  BY <1>3 DEF ResTransitions
<1>6. /\ resFile' \in ResStates
      /\ \A g \in Files : resFile'[g] \in {resFile[g], t.from[g], t.to[g]}
  <2>1. o.to \in ResStates
    BY <1>3, TransitionParts
  <2> QED BY <1>1, <1>3, <1>5, <2>1, MaybeWritten
<1>7. MovesTo(resFile', t)
  BY <1>3, <1>5 DEF MovesTo, Prefix
<1> HIDE DEF t
<1> QED BY <1>2, <1>3, <1>4, <1>5, <1>6, <1>7, FilesMove DEF o

LEMMA UndoFinds ==
    ASSUME ResInv, Phase("undo")
    PROVE  /\ resRun # NoRes /\ resRun.op # "migrate" /\ resFile \in ResStates
           /\ resRun.tr \in ResTransitions /\ Prefix(resRun.tr)
           /\ resRun.tr.end = "restored" => Partial(resFile, resRun.tr)
           /\ ~resRun.second => resRun.tr.from = resRun.was.file
<1>1. resRun # NoRes /\ resRun.tr.phase = "undo" /\ resFile \in ResStates
  BY DEF Phase, ResIdle, ResInv, ResTyped
<1>2. resRun.op # "migrate"
  BY <1>1, FilePhase
<1> QED BY <1>1, <1>2, RunOf DEF ResInv, CommandMoves

(* One file goes back.                                                       *)
LEMMA UndoOneSafe ==
    ASSUME ResInv, Phase("undo"), resRun.tr.done # <<>>,
           resFile' = [resFile EXCEPT ![LastDone] = resRun.tr.from[LastDone]],
           resRun' = [resRun EXCEPT !.tr.done = SubSeq(@, 1, Len(@) - 1)],
           resEvents' = resEvents, resReceipt' = resReceipt, resMigrated' = resMigrated,
           resHistory' = resHistory, resAnswer' = resAnswer, resTorn' = resTorn
    PROVE  ResInv'
<1> DEFINE o == resRun.tr
           f == o.done[Len(o.done)]
           d == SubSeq(o.done, 1, Len(o.done) - 1)
           t == [o EXCEPT !.done = d]
<1>1. /\ resRun # NoRes /\ resRun.op # "migrate" /\ resFile \in ResStates
      /\ o \in ResTransitions /\ Prefix(o) /\ (o.end = "restored" => Partial(resFile, o))
      /\ (~resRun.second => o.from = resRun.was.file) /\ o.phase = "undo"
  BY UndoFinds DEF Phase
<1>2. resRun' = [resRun EXCEPT !.tr = t]
  <2>1. resRun = [op |-> resRun.op, event |-> resRun.event, second |-> resRun.second,
                  was |-> resRun.was, tr |-> resRun.tr]
    BY <1>1, RunOf DEF ResInv
  <2> QED BY <2>1
<1>3. resFile' = [resFile EXCEPT ![f] = o.from[f]] /\ o.done # <<>>
  BY DEF LastDone
<1> HIDE DEF o
<1>4. d \in Seq(Files) /\ o.from \in ResStates /\ o.to \in ResStates
  <2>1. o.done \in Seq(Files) /\ Len(o.done) \in Nat
    BY <1>1, TransitionParts
  <2>2. \A x \in Seq(Files) : \A n \in Int : n <= Len(x) => SubSeq(x, 1, n) \in Seq(Files)
    OBVIOUS
  <2> QED BY <1>1, <2>1, <2>2, TransitionParts
<1> HIDE DEF d
<1>5. /\ t \in ResTransitions /\ t.done = d /\ t.order = o.order /\ t.from = o.from
      /\ t.to = o.to /\ t.phase = "undo" /\ t.end = o.end
  BY <1>1, <1>4 DEF ResTransitions
<1> HIDE DEF t, f
<1>6. /\ f \in Files /\ Prefix(t) /\ (Partial(resFile, o) => Partial(resFile', t))
  BY <1>1, <1>3, <1>5, PartialShrinks DEF d, f
<1>7. /\ resFile' \in ResStates
      /\ \A g \in Files : resFile'[g] \in {resFile[g], t.from[g], t.to[g]}
  <2>1. [resFile EXCEPT ![f] = o.from[f]] \in ResStates
    BY <1>1, <1>4, <1>6, TargetWritten
  <2>2. \A g \in Files : [resFile EXCEPT ![f] = o.from[f]][g] \in {resFile[g], o.from[g]}
    BY <1>1, <1>4, <1>6, TargetWritten
  <2> QED BY <1>3, <1>5, <2>1, <2>2
<1>8. MovesTo(resFile', t)
  BY <1>1, <1>5, <1>6 DEF MovesTo
<1> QED BY <1>1, <1>2, <1>5, <1>7, <1>8, FilesMove DEF o

(* Or it is over.                                                            *)
LEMMA UndoEndsSafe ==
    ASSUME ResInv, Phase("undo"), NEW p \in {"restored", "uncertain"},
           p = "restored" => resRun.tr.done = <<>> /\ resRun.tr.end = "restored",
           resRun' = [resRun EXCEPT !.tr.phase = p],
           resFile' = resFile, resEvents' = resEvents, resReceipt' = resReceipt,
           resMigrated' = resMigrated, resHistory' = resHistory, resAnswer' = resAnswer,
           resTorn' = resTorn
    PROVE  ResInv'
<1> DEFINE o == resRun.tr
           t == [o EXCEPT !.phase = p]
<1>1. /\ resRun # NoRes /\ resRun.op # "migrate" /\ resFile \in ResStates
      /\ o \in ResTransitions /\ (o.end = "restored" => Partial(resFile, o))
      /\ (~resRun.second => o.from = resRun.was.file)
  BY UndoFinds
<1>2. resRun' = [resRun EXCEPT !.tr = t]
  OBVIOUS
<1>3. /\ t \in ResTransitions /\ t.order = o.order /\ t.from = o.from
      /\ t.to = o.to /\ t.phase = p
  BY <1>1 DEF ResTransitions
<1>4. p = "restored" => resFile = o.from
  BY <1>1, PartialIsNone
<1>5. MovesTo(resFile', t)
  BY <1>1, <1>3, <1>4 DEF MovesTo
<1> HIDE DEF t
<1> QED BY <1>1, <1>2, <1>3, <1>5, FilesMove

LEMMA UndoTargetSafe ==
    ASSUME ResInv, UndoTarget
    PROVE  ResInv'
<1>1. /\ Phase("undo")
      /\ resEvents' = resEvents /\ resReceipt' = resReceipt
      /\ resMigrated' = resMigrated /\ resHistory' = resHistory /\ resAnswer' = resAnswer
      /\ resTorn' = resTorn
  BY DEF UndoTarget, Task, Receipts
<1>2. CASE resRun.tr.done = <<>>
  <2>1. resFile' = resFile /\ resRun' = [resRun EXCEPT !.tr.phase = resRun.tr.end]
    BY <1>2 DEF UndoTarget, Enter
  <2>2. resRun.tr.end \in {"restored", "uncertain"}
    BY <1>1, UndoFinds, TransitionParts
  <2> QED BY <1>1, <1>2, <2>1, <2>2, UndoEndsSafe
<1>3. CASE resRun.tr.done # <<>>
  BY <1>1, <1>3, UndoOneSafe DEF UndoTarget
<1> QED BY <1>2, <1>3

LEMMA UndoTargetFailsSafe ==
    ASSUME ResInv, UndoTargetFails
    PROVE  ResInv'
<1>1. /\ Phase("undo") /\ resRun.tr.done # <<>>
      /\ resEvents' = resEvents /\ resReceipt' = resReceipt
      /\ resMigrated' = resMigrated /\ resHistory' = resHistory /\ resAnswer' = resAnswer
      /\ resTorn' = resTorn
  BY DEF UndoTargetFails, Task, Receipts
<1>2. CASE /\ resFile' = [resFile EXCEPT ![LastDone] = resRun.tr.from[LastDone]]
           /\ resRun' = [resRun EXCEPT !.tr.done = SubSeq(@, 1, Len(@) - 1)]
  BY <1>1, <1>2, UndoOneSafe
<1>3. CASE resFile' = resFile /\ resRun' = Enter("uncertain")
  BY <1>1, <1>3, UndoEndsSafe DEF Enter
<1> QED BY <1>2, <1>3 DEF UndoTargetFails

-----------------------------------------------------------------------------
(* How a command ends *)

(* Restored: the store is the one the command found.                        *)
LEMMA EndsFailed ==
    ASSUME ResInv, resRun # NoRes, ResAnswer("failed"),
           resFile' = resFile, resEvents' = resEvents, resMigrated' = resMigrated,
           resFile = resRun.was.file, resReceipt' = resRun.was.receipt,
           resHistory' = resRun.was.history
    PROVE  ResInv'
<1>1. /\ resRun' = NoRes /\ resTorn' = resTorn
      /\ resAnswer' = [says |-> "failed", op |-> resRun.op, event |-> resRun.event,
                       was |-> resRun.was]
  <2>1. resTorn' = (resTorn \/ "failed" = "uncertain")
    BY DEF ResAnswer
  <2>2. resTorn' = resTorn
    BY <2>1 DEF ResInv, ResTyped
  <2> QED BY <2>2 DEF ResAnswer
<1>2. /\ resRun.was \in ResDisks /\ resRun.event \in ResIds
      /\ resRun.op \in {"apply", "rollback", "migrate"}
  BY RunOf DEF ResInv
<1>3. /\ resRun.was.receipt \in [ResIds -> ResStates \cup {NoRes}]
      /\ resRun.was.history \in SUBSET ResIds /\ resFile \in ResStates
      /\ resRun.was = [file |-> resRun.was.file, events |-> resRun.was.events,
                       receipt |-> resRun.was.receipt, migrated |-> resRun.was.migrated,
                       history |-> resRun.was.history]
  BY <1>2 DEF ResDisks, ResInv, ResTyped
<1>4. resRun.was.events = resEvents /\ resRun.was.migrated = resMigrated
      /\ resMigrated \subseteq resRun.was.history
  BY DEF ResInv, CommandBegan
<1>5. /\ \A x \in ResIds \ {resRun.event} : resReceipt'[x] = resReceipt[x]
      /\ resRun.op # "apply" => resReceipt' = resReceipt
      /\ resRun.op = "apply" => resReceipt'[resRun.event] = NoRes
  <2>1. CASE resRun.op = "apply"
    <3>1. /\ resReceipt = [resRun.was.receipt EXCEPT ![resRun.event] = resRun.was.file]
          /\ resRun.was.receipt[resRun.event] = NoRes
      BY <2>1 DEF ResInv, ApplyBegan
    <3> QED BY <1>2, <1>3, <2>1, <3>1
  <2>2. CASE resRun.op # "apply"
    BY <2>2 DEF ResInv, CommandBegan
  <2> QED BY <2>1, <2>2
<1>6. \A s \in ResStates :
          Explained(s) /\ (resRun.op = "apply" => \A f \in Files : s[f] # resRun.event)
              => \A f \in Files : s[f] \in ResIds => resReceipt'[s[f]] # NoRes
  <2>1. CASE resRun.op = "apply"
    BY <1>5, <2>1 DEF Explained
  <2>2. CASE resRun.op # "apply"
    BY <1>5, <2>2 DEF Explained
  <2> QED BY <2>1, <2>2
<1>7. ReceiptsClosed'
  <2>1. resRun.op = "apply" => \A f \in Files : resFile[f] # resRun.event
    <3>1. ASSUME resRun.op = "apply", NEW f \in Files
          PROVE  resFile[f] # resRun.event
      <4>1. resReceipt[resRun.event] = resRun.was.file
        BY <1>2, <1>3, <3>1 DEF ResInv, ApplyBegan
      <4>2. resReceipt[resRun.event] # NoRes
        BY <1>3, <4>1, ResAssumption
      <4> QED BY <1>2, <3>1, <4>1, <4>2 DEF ResInv, ApplyBegan
    <3> QED BY <3>1
  <2>2. \A f \in Files : resFile[f] \in ResIds => resReceipt'[resFile[f]] # NoRes
    BY <1>3, <1>6, <2>1 DEF ResInv, ReceiptsClosed
  <2>3. ASSUME NEW x \in ResIds, resReceipt'[x] # NoRes
        PROVE  \A f \in Files : resReceipt'[x][f] \in ResIds => resReceipt'[resReceipt'[x][f]] # NoRes
    <3>1. resReceipt'[x] = resReceipt[x]
      BY <1>5, <2>3
    <3>2. resReceipt[x] \in ResStates /\ Explained(resReceipt[x])
      BY <2>3, <3>1 DEF ResInv, ResTyped, ReceiptsClosed
    <3>3. resRun.op = "apply" => \A f \in Files : resReceipt[x][f] # resRun.event
      BY <2>3, <3>1 DEF ResInv, ApplyBegan
    <3> QED BY <1>6, <3>1, <3>2, <3>3
  <2> QED BY <2>2, <2>3 DEF ReceiptsClosed, Explained
<1>8. ResTyped'
  BY <1>1, <1>3 DEF ResInv, ResTyped
<1>9. \A x \in EventIds : x \in ResIds /\ resReceipt'[x] = resReceipt[x]
  <2>2. \A x \in EventIds : x \in ResIds
    BY EntriesTyped
  <2>3. resRun.op = "apply" => resRun.event \notin EventIds
    BY DEF ResInv, ApplyBegan
  <2> QED BY <1>5, <2>2, <2>3
<1>10. EventsKeepReceipts'
  BY <1>4, <1>9, SameRecord DEF ResInv, EventsKeepReceipts
<1>11. ReceiptsChained'
  <2>1. \A i \in Standing : resReceipt'[resEvents[i].id] = resReceipt[resEvents[i].id]
    BY <1>9 DEF Standing, EventIds
  <2> QED BY <1>1, <2>1, SameRecord DEF ResInv, ReceiptsChained
<1>12. MixturesExplained'
  <2>1. ~resTorn /\ CurrentEvent # NoRes => \A f \in Files : resFile[f] \in {CurrentEvent, Edited}
    BY DEF ResInv, CommandBegan
  <2> QED BY <1>1, <1>7, <2>1, SameRecord DEF MixturesExplained, ReceiptsClosed, Explained
<1>13. AllOrNothing'
  <2>1. Disk' = resRun.was
    BY <1>3, <1>4 DEF Disk
  <2> QED BY <1>1, <2>1 DEF AllOrNothing
<1>14. (CommandBegan /\ ApplyBegan /\ RollbackBegan /\ MigrateBegan /\ CommandMoves)'
  BY <1>1 DEF CommandBegan, ApplyBegan, RollbackBegan, MigrateBegan, CommandMoves
<1> QED BY <1>7, <1>8, <1>10, <1>11, <1>12, <1>13, <1>14, SameRecord DEF ResInv

(* Restored, but for a receipt that stays or whose removal may not last.     *)
LEMMA EndsUnclean ==
    ASSUME ResInv, resRun # NoRes, ResAnswer("unclean"), resRun.op # "rollback",
           resFile' = resFile, resEvents' = resEvents, resMigrated' = resMigrated,
           resFile = resRun.was.file, resReceipt' = resReceipt,
           resHistory' = resHistory
               \/ (resRun.op = "migrate" /\ resHistory' = resRun.was.history)
    PROVE  ResInv'
<1>1. /\ resRun' = NoRes /\ resTorn' = resTorn
      /\ resAnswer' = [says |-> "unclean", op |-> resRun.op, event |-> resRun.event,
                       was |-> resRun.was]
  <2>1. resTorn' = (resTorn \/ "unclean" = "uncertain")
    BY DEF ResAnswer
  <2>2. resTorn' = resTorn
    BY <2>1 DEF ResInv, ResTyped
  <2> QED BY <2>2 DEF ResAnswer
<1>2. resRun.was \in ResDisks /\ resRun.op \in {"apply", "rollback", "migrate"}
  BY RunOf DEF ResInv
<1>3. /\ resRun.was.events = resEvents /\ resRun.was.migrated = resMigrated
      /\ resMigrated \subseteq resRun.was.history
      /\ ~resTorn /\ CurrentEvent # NoRes => \A f \in Files : resFile[f] \in {CurrentEvent, Edited}
  BY DEF ResInv, CommandBegan
<1>4. resHistory' \in SUBSET ResIds /\ resMigrated \subseteq resHistory'
  BY <1>2, <1>3 DEF ResInv, ResTyped, ResDisks, EventsKeepReceipts
<1>5. /\ resHistory' \in {resRun.was.history, resRun.was.history \cup {resRun.event}}
      /\ resReceipt \in {resRun.was.receipt,
                         [resRun.was.receipt EXCEPT ![resRun.event] = resRun.was.file]}
  <2>1. CASE resRun.op = "apply"
    BY <2>1 DEF ResInv, CommandBegan, ApplyBegan
  <2>2. CASE resRun.op = "migrate"
    BY <2>2 DEF ResInv, CommandBegan, MigrateBegan
  <2> QED BY <1>2, <2>1, <2>2
<1>6. ResTyped'
  BY <1>1, <1>4 DEF ResInv, ResTyped
<1>7. ReceiptsClosed' /\ ReceiptsChained' /\ EventsKeepReceipts'
  BY <1>1, <1>4, SameRecord DEF ResInv, ReceiptsClosed, Explained, ReceiptsChained,
     EventsKeepReceipts
<1>8. MixturesExplained'
  BY <1>1, <1>3, <1>7, SameRecord DEF MixturesExplained, ReceiptsClosed, Explained
<1>9. AllOrNothing'
  BY <1>1, <1>3, <1>5 DEF AllOrNothing
<1>10. (CommandBegan /\ ApplyBegan /\ RollbackBegan /\ MigrateBegan /\ CommandMoves)'
  BY <1>1 DEF CommandBegan, ApplyBegan, RollbackBegan, MigrateBegan, CommandMoves
<1> QED BY <1>6, <1>7, <1>8, <1>9, <1>10, SameRecord DEF ResInv

(* Killed, or unable to say: the store stays as it is, except that the      *)
(* record may have been replaced.                                            *)
LEMMA EndsTorn ==
    ASSUME ResInv, resRun # NoRes, resRun' = NoRes, resTorn' = TRUE,
           resAnswer' = NoRes \/ resAnswer'.says = "uncertain",
           resFile' = resFile, resReceipt' = resReceipt, resHistory' = resHistory,
           resEvents' \in Seq(ResEntries), IdsOnce',
           EventIds' \subseteq EventIds, resMigrated' \in SUBSET resHistory
    PROVE  ResInv'
<1>1. ResTyped'
  BY DEF ResInv, ResTyped
<1>2. ReceiptsClosed' /\ ReceiptsChained' /\ EventsKeepReceipts'
  BY DEF ResInv, ReceiptsClosed, Explained, ReceiptsChained, EventsKeepReceipts
<1>3. MixturesExplained'
  BY DEF ResInv, ReceiptsClosed, Explained, MixturesExplained
<1>4. AllOrNothing'
  BY DEF AllOrNothing
<1>5. (CommandBegan /\ ApplyBegan /\ RollbackBegan /\ MigrateBegan /\ CommandMoves)'
  BY DEF CommandBegan, ApplyBegan, RollbackBegan, MigrateBegan, CommandMoves
<1> QED BY <1>1, <1>2, <1>3, <1>4, <1>5 DEF ResInv

(* The record replaced by a command that reached its target.                *)
LEMMA RecordReplaced ==
    ASSUME ResInv, Publishing, Published
    PROVE  /\ resEvents' \in Seq(ResEntries) /\ IdsOnce'
           /\ resRun.op # "apply" => EventIds' = EventIds
           /\ resRun.op = "apply" =>
                 /\ resEvents' = Append(resEvents, [id |-> resRun.event, status |-> "applied"])
                 /\ EventIds' = EventIds \cup {resRun.event}
           /\ resRun.op # "migrate" => resMigrated' = resMigrated
           /\ resRun.op = "migrate" =>
                 /\ resEvents' = resEvents /\ resMigrated' = resMigrated \cup {resRun.event}
                 /\ resRun.event \in resHistory
<1>1. /\ resRun # NoRes /\ resRun.event \in ResIds
      /\ resRun.op \in {"apply", "rollback", "migrate"} /\ resEvents \in Seq(ResEntries)
  BY RunOf DEF Publishing, Phase, ResIdle, ResInv, ResTyped
<1>2. CASE resRun.op = "apply"
  <2> DEFINE x == [id |-> resRun.event, status |-> "applied"]
  <2>1. x \in ResEntries /\ x.id = resRun.event
    BY <1>1 DEF ResEntries
  <2>2. resEvents' = Append(resEvents, x) /\ resMigrated' = resMigrated
    BY <1>2 DEF Published
  <2> HIDE DEF x
  <2>3. /\ resEvents' \in Seq(ResEntries) /\ Len(resEvents') = Len(resEvents) + 1
        /\ DOMAIN resEvents = 1 .. Len(resEvents) /\ DOMAIN resEvents' = 1 .. Len(resEvents) + 1
        /\ Len(resEvents) \in Nat
        /\ resEvents'[Len(resEvents) + 1] = x
        /\ \A i \in DOMAIN resEvents : resEvents'[i] = resEvents[i]
    BY <1>1, <2>1, <2>2
  <2>4. EventIds' = EventIds \cup {resRun.event}
    <3>1. \A i \in DOMAIN resEvents' : i \in DOMAIN resEvents \/ i = Len(resEvents) + 1
      BY <2>3
    <3>2. \A i \in DOMAIN resEvents : i \in DOMAIN resEvents'
      BY <2>3
    <3>3. Len(resEvents) + 1 \in DOMAIN resEvents'
      BY <2>3
    <3>4. EventIds' \subseteq EventIds \cup {resRun.event}
      BY <2>1, <2>3, <3>1 DEF EventIds
    <3>5. EventIds \subseteq EventIds'
      BY <2>3, <3>2 DEF EventIds
    <3>6. resRun.event \in EventIds'
      BY <2>1, <2>3, <3>3 DEF EventIds
    <3> QED BY <3>4, <3>5, <3>6
  <2>5. resRun.event \notin EventIds
    BY <1>1, <1>2 DEF ResInv, ApplyBegan
  <2>6. IdsOnce'
    <3>1. \A i \in DOMAIN resEvents : resEvents[i].id # resRun.event
      BY <2>5 DEF EventIds
    <3> QED BY <2>1, <2>3, <3>1 DEF ResInv, IdsOnce
  <2> QED BY <1>2, <2>1, <2>2, <2>3, <2>4, <2>6 DEF x
<1>3. CASE resRun.op = "rollback"
  <2>1. /\ resEvents' = [i \in DOMAIN resEvents |->
                IF resEvents[i].id = resRun.event
                THEN [resEvents[i] EXCEPT !.status = "rolled_back"] ELSE resEvents[i]]
        /\ resMigrated' = resMigrated
    BY <1>3 DEF Published
  <2>2. /\ DOMAIN resEvents = 1 .. Len(resEvents) /\ Len(resEvents) \in Nat
        /\ \A i \in DOMAIN resEvents : resEvents[i] \in ResEntries
    BY <1>1
  <2>3. \A i \in DOMAIN resEvents : resEvents'[i] \in ResEntries /\ resEvents'[i].id = resEvents[i].id
    BY <2>1, <2>2 DEF ResEntries
  <2>4. DOMAIN resEvents' = DOMAIN resEvents
    BY <2>1
  <2>5. resEvents' \in [1 .. Len(resEvents) -> ResEntries]
    BY <2>1, <2>2, <2>3
  <2>6. resEvents' \in Seq(ResEntries)
    <3>1. \A n \in Nat : \A g \in [1 .. n -> ResEntries] : g \in Seq(ResEntries)
      OBVIOUS
    <3> QED BY <2>2, <2>5, <3>1
  <2>7. EventIds' = EventIds
    BY <2>3, <2>4 DEF EventIds
  <2>8. IdsOnce'
    BY <2>3, <2>4 DEF ResInv, IdsOnce
  <2> QED BY <1>3, <2>1, <2>6, <2>7, <2>8
<1>4. CASE resRun.op = "migrate"
  <2>1. resEvents' = resEvents /\ resMigrated' = resMigrated \cup {resRun.event}
    BY <1>4 DEF Published
  <2>2. resRun.event \in resHistory
    BY <1>1, <1>4 DEF ResInv, MigrateBegan
  <2> QED BY <1>1, <1>4, <2>1, <2>2, SameRecord DEF ResInv
<1> QED BY <1>1, <1>2, <1>3, <1>4

(* What a command that reached its target left in the files.                *)
LEMMA TargetReached ==
    ASSUME ResInv, Phase("written")
    PROVE  /\ resRun.op = "migrate" => resFile = resRun.was.file
           /\ resRun.op = "apply" /\ ~resRun.second => resFile = After(resRun.event)
           /\ resRun.op = "rollback" /\ ~resRun.second => resFile = resReceipt[resRun.event]
           /\ resRun.second => resFile = resRun.was.file
<1>1. resRun # NoRes /\ resRun.tr.phase = "written"
  BY DEF Phase, ResIdle
<1>2. resRun.op = "migrate" => resRun.second = FALSE
  BY <1>1, RunOf DEF ResInv
<1>3. resRun.op # "migrate" =>
          /\ resFile = resRun.tr.to /\ Towards(resRun.tr)
          /\ resRun.second => resRun.tr.to = resRun.was.file
  BY <1>1 DEF ResInv, CommandMoves
<1>4. resRun.second \in BOOLEAN
  BY <1>1, RunOf DEF ResInv
<1>5. resRun.op = "migrate" => resFile = resRun.was.file
  BY <1>1 DEF ResInv, MigrateBegan
<1>6. resRun.op = "apply" /\ ~resRun.second => resRun.tr.to = After(resRun.event)
  BY <1>3, <1>4 DEF Towards
<1>7. resRun.op = "rollback" /\ ~resRun.second => resRun.tr.to = resReceipt[resRun.event]
  BY <1>3, <1>4 DEF Towards
<1> QED BY <1>2, <1>3, <1>5, <1>6, <1>7

(* The answer of a command whose record was replaced, and what is effective *)
(* after it.                                                                 *)
LEMMA EndsDone ==
    ASSUME ResInv, Publishing, Published, NEW a \in {"done", "published"}, ResAnswer(a),
           resFile' = resFile, resReceipt' = resReceipt, resHistory' = resHistory
    PROVE  ResInv'
<1> DEFINE e == resRun.event
<1>1. /\ resRun # NoRes /\ resRun.was \in ResDisks /\ e \in ResIds
      /\ resRun.op \in {"apply", "rollback", "migrate"} /\ ~resRun.second /\ Phase("written")
  BY RunOf DEF Publishing, Phase, ResIdle, ResInv
<1>2. /\ resRun' = NoRes /\ resTorn' = resTorn
      /\ resAnswer' = [says |-> a, op |-> resRun.op, event |-> e, was |-> resRun.was]
  <2>1. resTorn' = (resTorn \/ a = "uncertain") /\ a # "uncertain"
    BY DEF ResAnswer
  <2>2. resTorn' = resTorn
    BY <2>1 DEF ResInv, ResTyped
  <2> QED BY <2>2 DEF ResAnswer
<1>3. /\ resEvents \in Seq(ResEntries) /\ resEvents' \in Seq(ResEntries)
      /\ Len(resEvents) \in Nat /\ DOMAIN resEvents = 1 .. Len(resEvents)
      /\ \A i \in DOMAIN resEvents : resEvents[i] \in ResEntries /\ resEvents[i].id \in ResIds
  BY RecordReplaced, EntriesTyped
<1>4. ResTyped'
  <2>1. resMigrated' \in SUBSET ResIds
    <3>1. CASE resRun.op = "migrate"
      BY <1>1, <3>1, RecordReplaced DEF ResInv, ResTyped
    <3>2. CASE resRun.op # "migrate"
      BY <3>2, RecordReplaced DEF ResInv, ResTyped
    <3> QED BY <3>1, <3>2
  <2> QED BY <1>2, <1>3, <2>1 DEF ResInv, ResTyped
<1>5. ReceiptsClosed' /\ IdsOnce'
  BY RecordReplaced DEF ResInv, ReceiptsClosed, Explained
<1>6. EventsKeepReceipts'
  <2>1. resRun.op = "apply" => resReceipt[e] # NoRes
    <3>1. resRun.op # "migrate" => resReceipt[e] \in ResStates
      BY <1>1, RunningReceipt
    <3> QED BY <3>1, ResAssumption
  <2>2. CASE resRun.op = "apply"
    BY <2>1, <2>2, RecordReplaced DEF ResInv, EventsKeepReceipts
  <2>3. CASE resRun.op = "rollback"
    BY <2>3, RecordReplaced DEF ResInv, EventsKeepReceipts
  <2>4. CASE resRun.op = "migrate"
    BY <2>4, RecordReplaced DEF ResInv, EventsKeepReceipts
  <2> QED BY <1>1, <2>2, <2>3, <2>4
<1>7. (CommandBegan /\ ApplyBegan /\ RollbackBegan /\ MigrateBegan /\ CommandMoves)'
  BY <1>2 DEF CommandBegan, ApplyBegan, RollbackBegan, MigrateBegan, CommandMoves
<1>8. ~resTorn /\ CurrentEvent # NoRes => \A f \in Files : resRun.was.file[f] \in {CurrentEvent, Edited}
  BY <1>1 DEF ResInv, CommandBegan
<1>9. \A f \in Files : resFile[f] \in ResIds => resReceipt'[resFile[f]] # NoRes
  BY DEF ResInv, ReceiptsClosed, Explained
<1>10. CASE resRun.op = "migrate"
  <2>1. resEvents' = resEvents /\ e \in resMigrated' /\ resFile = resRun.was.file
    BY <1>1, <1>10, RecordReplaced, TargetReached
  <2>2. ReceiptsChained'
    BY <1>2, <2>1, SameRecord DEF ResInv, ReceiptsChained
  <2>3. MixturesExplained'
    BY <1>2, <1>8, <1>9, <2>1, SameRecord DEF MixturesExplained
  <2>4. AllOrNothing'
    BY <1>2, <1>10, <2>1 DEF AllOrNothing
  <2> QED BY <1>4, <1>5, <1>6, <1>7, <2>2, <2>3, <2>4 DEF ResInv
<1>11. CASE resRun.op = "apply"
  <2> DEFINE n == Len(resEvents) + 1
             x == [id |-> e, status |-> "applied"]
  <2>1. x \in ResEntries /\ x.id = e /\ x.status = "applied" /\ resEvents' = Append(resEvents, x)
    BY <1>1, <1>11, RecordReplaced DEF ResEntries
  <2>2. resFile = After(e)
    BY <1>1, <1>11, TargetReached
  <2> HIDE DEF x
  <2>3. /\ DOMAIN resEvents' = 1 .. n /\ resEvents'[n] = x /\ n \in 1 .. n
        /\ \A i \in DOMAIN resEvents : resEvents'[i] = resEvents[i] /\ i < n /\ i \in 1 .. n
        /\ \A i \in 1 .. n : i \in DOMAIN resEvents \/ i = n
    BY <1>3, <2>1
  <2>4. StandingOf(resEvents') = StandingOf(resEvents) \cup {n} /\ n \notin StandingOf(resEvents)
    BY <2>1, <2>3 DEF StandingOf
  <2>5. CurrentEvent' = e
    <3>1. n \in StandingOf(resEvents') /\ \A j \in StandingOf(resEvents') : j <= n
      BY <1>3, <2>3, <2>4 DEF StandingOf
    <3>2. CurrentOf(resEvents') = resEvents'[n].id
      BY <1>3, <3>1, CurrentFrom
    <3> QED BY <2>1, <2>3, <3>2, CurrentIsOf
  <2>6. ReceiptsChained'
    <3> SUFFICES ASSUME ~resTorn, NEW i \in StandingOf(resEvents'), NEW j \in StandingOf(resEvents'),
                        j < i, \A k \in StandingOf(resEvents') : k <= j \/ i <= k
                 PROVE  \A f \in Files :
                           resReceipt[resEvents'[i].id][f] \in {resEvents'[j].id, Edited}
      BY <1>2, CurrentIsOf DEF ReceiptsChained
    <3>1. CASE i \in StandingOf(resEvents)
      <4>1. j \in StandingOf(resEvents)
        BY <2>3, <2>4, <3>1 DEF StandingOf
      <4>2. \A k \in StandingOf(resEvents) : k <= j \/ i <= k
        BY <2>4
      <4>3. resEvents'[i] = resEvents[i] /\ resEvents'[j] = resEvents[j]
        BY <2>3, <3>1, <4>1 DEF StandingOf
      <4> QED BY <3>1, <4>1, <4>2, <4>3, CurrentIsOf DEF ResInv, ReceiptsChained
    <3>2. CASE i \notin StandingOf(resEvents)
      <4>1. i = n /\ j \in StandingOf(resEvents)
        BY <2>3, <2>4, <3>2
      <4>2. \A k \in StandingOf(resEvents) : k <= j
        BY <2>3, <2>4, <4>1 DEF StandingOf
      <4>3. CurrentEvent = resEvents[j].id /\ resEvents[j].id # NoRes
        <5>1. CurrentOf(resEvents) = resEvents[j].id
          BY <1>3, <4>1, <4>2, CurrentFrom
        <5> QED BY <1>3, <4>1, <5>1, CurrentIsOf, ResAssumption DEF StandingOf
      <4>4. resEvents'[i].id = e /\ resEvents'[j] = resEvents[j]
        BY <2>1, <2>3, <4>1 DEF StandingOf
      <4>5. resReceipt[e] = resRun.was.file
        <5>1. /\ resReceipt = [resRun.was.receipt EXCEPT ![e] = resRun.was.file]
              /\ resRun.was.receipt \in [ResIds -> ResStates \cup {NoRes}]
          BY <1>1, <1>11 DEF ResInv, ApplyBegan, ResDisks
        <5> QED BY <1>1, <5>1
      <4> QED BY <1>8, <4>3, <4>4, <4>5
    <3> QED BY <3>1, <3>2
  <2>7. MixturesExplained'
    <3>1. \A f \in Files : resFile[f] = e
      BY <1>1, <2>2, AfterTyped
    <3> QED BY <1>2, <1>9, <2>5, <3>1 DEF MixturesExplained
  <2>8. AllOrNothing'
    BY <1>2, <1>11, <2>2, <2>5 DEF AllOrNothing
  <2> QED BY <1>4, <1>5, <1>6, <1>7, <2>6, <2>7, <2>8 DEF ResInv
<1>12. CASE resRun.op = "rollback"
  <2>1. /\ resEvents' = [i \in DOMAIN resEvents |->
                IF resEvents[i].id = e
                THEN [resEvents[i] EXCEPT !.status = "rolled_back"] ELSE resEvents[i]]
        /\ e = CurrentEvent /\ e # NoRes
    BY <1>1, <1>12, ResAssumption DEF Published, ResInv, RollbackBegan
  <2>2. resFile = resReceipt[e]
    BY <1>1, <1>12, TargetReached
  <2>3. PICK m \in StandingOf(resEvents) :
            (\A j \in StandingOf(resEvents) : j <= m) /\ e = resEvents[m].id
    BY <1>3, <2>1, CurrentIs, CurrentIsOf
  <2>4. \A i \in DOMAIN resEvents : resEvents[i].id = e => i = m
    BY <2>3 DEF ResInv, IdsOnce, StandingOf
  <2>5. /\ DOMAIN resEvents' = DOMAIN resEvents
        /\ \A i \in DOMAIN resEvents : resEvents'[i].id = resEvents[i].id
        /\ \A i \in DOMAIN resEvents : i # m => resEvents'[i] = resEvents[i]
        /\ m \in DOMAIN resEvents /\ resEvents'[m].status = "rolled_back"
        /\ resEvents'[m].id = e
    <3>1. m \in DOMAIN resEvents /\ resEvents[m] \in ResEntries
      BY <1>3, <2>3 DEF StandingOf
    <3>2. [resEvents[m] EXCEPT !.status = "rolled_back"].status = "rolled_back"
          /\ [resEvents[m] EXCEPT !.status = "rolled_back"].id = resEvents[m].id
      BY <3>1 DEF ResEntries
    <3>3. resEvents'[m] = [resEvents[m] EXCEPT !.status = "rolled_back"]
      BY <2>1, <2>3, <3>1
    <3>4. \A i \in DOMAIN resEvents : i # m => resEvents'[i] = resEvents[i]
      BY <2>1, <2>4
    <3>5. \A i \in DOMAIN resEvents : resEvents'[i].id = resEvents[i].id
      BY <3>2, <3>3, <3>4
    <3> QED BY <2>1, <2>3, <3>1, <3>2, <3>3, <3>4, <3>5
  <2>6. StandingOf(resEvents') = StandingOf(resEvents) \ {m}
    BY <2>5 DEF StandingOf
  <2>7. ReceiptsChained'
    <3> SUFFICES ASSUME ~resTorn, NEW i \in StandingOf(resEvents'), NEW j \in StandingOf(resEvents'),
                        j < i, \A k \in StandingOf(resEvents') : k <= j \/ i <= k
                 PROVE  \A f \in Files :
                           resReceipt[resEvents'[i].id][f] \in {resEvents'[j].id, Edited}
      BY <1>2, CurrentIsOf DEF ReceiptsChained
    <3>1. i \in StandingOf(resEvents) /\ j \in StandingOf(resEvents)
      BY <2>6
    <3>2. \A k \in StandingOf(resEvents) : k <= j \/ i <= k
      BY <2>3, <2>6, <3>1
    <3>3. resEvents'[i].id = resEvents[i].id /\ resEvents'[j].id = resEvents[j].id
      BY <2>5, <3>1 DEF StandingOf
    <3> QED BY <3>1, <3>2, <3>3, CurrentIsOf DEF ResInv, ReceiptsChained
  <2>8. MixturesExplained'
    <3> SUFFICES ASSUME ~resTorn, CurrentEvent' # NoRes, NEW f \in Files
                 PROVE  resFile[f] \in {CurrentEvent', Edited}
      BY <1>2, <1>9 DEF MixturesExplained
    <3>1. PICK j \in StandingOf(resEvents') :
              (\A k \in StandingOf(resEvents') : k <= j) /\ CurrentEvent' = resEvents'[j].id
      BY <1>3, CurrentIs, CurrentIsOf
    <3>2. j \in StandingOf(resEvents) /\ j # m /\ j <= m /\ j \in Nat /\ m \in Nat
      BY <1>3, <2>3, <2>6 DEF StandingOf
    <3>3. \A k \in StandingOf(resEvents) : k <= j \/ m <= k
      BY <1>3, <2>3, <2>6, <3>1 DEF StandingOf
    <3>4. \A g \in Files : resReceipt[resEvents[m].id][g] \in {resEvents[j].id, Edited}
      <4>1. m \in Standing /\ j \in Standing /\ j < m
        BY <2>3, <3>2, CurrentIsOf
      <4>2. \A k \in Standing : k <= j \/ m <= k
        BY <3>3, CurrentIsOf
      <4> QED BY <4>1, <4>2 DEF ResInv, ReceiptsChained
    <3>5. resEvents'[j].id = resEvents[j].id
      BY <2>5, <3>2 DEF StandingOf
    <3> QED BY <2>2, <2>3, <3>1, <3>4, <3>5
  <2>9. AllOrNothing'
    <3>1. e \in RolledBack'
      BY <2>5 DEF RolledBack, EventIds
    <3> QED BY <1>2, <1>12, <2>2, <3>1 DEF AllOrNothing
  <2> QED BY <1>4, <1>5, <1>6, <1>7, <2>7, <2>8, <2>9 DEF ResInv
<1> QED BY <1>1, <1>10, <1>11, <1>12

(* The files go back as the second transition of the same command.          *)
LEMMA GoBackSafe ==
    ASSUME ResInv, Publishing, resRun.op # "migrate", resRun' = GoBack,
           resFile' = resFile, resEvents' = resEvents, resReceipt' = resReceipt,
           resMigrated' = resMigrated, resHistory' = resHistory, resAnswer' = resAnswer,
           resTorn' = resTorn
    PROVE  ResInv'
<1> DEFINE e == resRun.event
           t == IF resRun.op = "apply" THEN RollbackFiles(resReceipt[e], e)
                ELSE ApplyFiles(resReceipt[e], e)
<1>1. /\ resRun # NoRes /\ resRun.was \in ResDisks /\ e \in ResIds
      /\ resRun.op \in {"apply", "rollback"} /\ ~resRun.second /\ Phase("written")
      /\ resRun.tr.phase = "written"
      /\ resRun = [op |-> resRun.op, event |-> e, second |-> resRun.second,
                   was |-> resRun.was, tr |-> resRun.tr]
  BY RunOf DEF Publishing, Phase, ResIdle, ResInv
<1>2. resReceipt[e] \in ResStates /\ t \in ResTransitions
  BY <1>1, RunningReceipt, TransitionTyped
<1>3. resRun' = [op |-> resRun.op, event |-> e, second |-> TRUE, was |-> resRun.was, tr |-> t]
  BY <1>1 DEF GoBack
<1>4. /\ t.done = <<>> /\ t.phase = "preflight"
      /\ resRun.op = "apply" => t.order = Backwards(ResFiles) /\ t.from = After(e) /\ t.to = resReceipt[e]
      /\ resRun.op = "rollback" => t.order = ResFiles /\ t.from = resReceipt[e] /\ t.to = After(e)
  BY <1>1 DEF ApplyFiles, RollbackFiles, Transition
<1> HIDE DEF t
<1>5. resRun' \in ResRuns /\ resRun' # NoRes
  BY <1>1, <1>2, <1>3, InRuns
<1>6. /\ resRun'.op = resRun.op /\ resRun'.event = e /\ resRun'.second = TRUE
      /\ resRun'.was = resRun.was /\ resRun'.tr = t
  BY <1>3
<1>7. ResTyped' /\ ReceiptsClosed' /\ IdsOnce' /\ ReceiptsChained' /\ EventsKeepReceipts'
  BY <1>5, SameRecord DEF ResInv, ResTyped, ReceiptsClosed, Explained, ReceiptsChained,
                          EventsKeepReceipts
<1>8. CommandBegan' /\ ApplyBegan' /\ RollbackBegan' /\ MigrateBegan'
  <2>1. /\ Standing' = Standing /\ CurrentEvent' = CurrentEvent
        /\ EventIds' = EventIds
    BY SameRecord
  <2>2. CommandBegan'
    BY <1>1, <1>6, <2>1 DEF ResInv, CommandBegan
  <2>3. ApplyBegan'
    BY <1>1, <1>6, <2>1 DEF ResInv, ApplyBegan
  <2>4. RollbackBegan' /\ MigrateBegan'
    BY <1>1, <1>6, <2>1 DEF ResInv, RollbackBegan, MigrateBegan
  <2> QED BY <2>2, <2>3, <2>4
<1>9. t.to = resRun.was.file
  <2>1. CASE resRun.op = "apply"
    <3>1. /\ resReceipt = [resRun.was.receipt EXCEPT ![e] = resRun.was.file]
          /\ resRun.was.receipt \in [ResIds -> ResStates \cup {NoRes}]
      BY <1>1, <2>1 DEF ResInv, ApplyBegan, ResDisks
    <3> QED BY <1>1, <1>4, <2>1, <3>1
  <2>2. CASE resRun.op = "rollback"
    <3>1. resRun.tr.from = resRun.was.file /\ Towards(resRun.tr)
      BY <1>1 DEF ResInv, CommandMoves
    <3>2. resRun.second \in BOOLEAN
      BY <1>1, RunOf DEF ResInv
    <3>3. resRun.tr.from = After(e)
      BY <1>1, <2>2, <3>1, <3>2 DEF Towards
    <3> QED BY <1>4, <2>2, <3>1, <3>3
  <2> QED BY <1>1, <2>1, <2>2
<1>10. CommandMoves'
  <2>1. Towards(resRun.tr)'
    BY <1>1, <1>4, <1>6 DEF Towards
  <2> QED BY <1>4, <1>6, <1>9, <2>1 DEF CommandMoves
<1>11. AllOrNothing' /\ MixturesExplained'
  <2>1. \A f \in Files : resFile[f] \in ResIds => resReceipt[resFile[f]] # NoRes
    BY DEF ResInv, ReceiptsClosed, Explained
  <2>2. resAnswer' = NoRes
    BY <1>1 DEF ResInv, CommandBegan
  <2> QED BY <1>5, <2>1, <2>2 DEF AllOrNothing, MixturesExplained, ResIdle
<1> QED BY <1>7, <1>8, <1>10, <1>11 DEF ResInv

LEMMA UnpublishedSafe ==
    ASSUME ResInv, Publishing, Unpublished,
           resFile' = resFile, resEvents' = resEvents, resReceipt' = resReceipt,
           resMigrated' = resMigrated
    PROVE  ResInv'
<1>1. resRun # NoRes /\ Phase("written")
  BY DEF Publishing, Phase, ResIdle
<1>2. CASE resRun.op = "migrate"
  <2>1. resFile = resRun.was.file /\ resReceipt = resRun.was.receipt
    BY <1>1, <1>2, TargetReached DEF ResInv, CommandBegan
  <2>2. ResAnswer("failed") /\ resHistory' = resRun.was.history
    BY <1>2 DEF Unpublished
  <2> QED BY <1>1, <2>1, <2>2, EndsFailed
<1>3. CASE resRun.op # "migrate"
  <2>1. resRun' = GoBack /\ resHistory' = resHistory /\ resAnswer' = resAnswer /\ resTorn' = resTorn
    BY <1>3 DEF Unpublished
  <2> QED BY <1>3, <2>1, GoBackSafe
<1> QED BY <1>2, <1>3

(* What a failed command leaves of the receipts.                            *)
LEMMA FailedReceipts ==
    ASSUME ResInv, resRun # NoRes
    PROVE  /\ WithoutReceipt = resRun.was.receipt
           /\ resRun.op # "migrate" => resRun.was.history = resHistory
<1>1. /\ resRun.was \in ResDisks /\ resRun.event \in ResIds
      /\ resRun.op \in {"apply", "rollback", "migrate"}
  BY RunOf DEF ResInv
<1>2. resRun.was.receipt \in [ResIds -> ResStates \cup {NoRes}]
  BY <1>1 DEF ResDisks
<1>3. CASE resRun.op = "apply"
  <2>1. /\ resReceipt = [resRun.was.receipt EXCEPT ![resRun.event] = resRun.was.file]
        /\ resRun.was.receipt[resRun.event] = NoRes
    BY <1>3 DEF ResInv, ApplyBegan
  <2>2. WithoutReceipt = [resReceipt EXCEPT ![resRun.event] = NoRes]
    BY <1>3 DEF WithoutReceipt
  <2> DEFINE w == resRun.was.receipt
             e == resRun.event
  <2>3. \A x \in ResIds : WithoutReceipt[x] = w[x]
    BY <1>1, <1>2, <2>1, <2>2
  <2>4. WithoutReceipt = [x \in ResIds |-> WithoutReceipt[x]] /\ w = [x \in ResIds |-> w[x]]
    BY <1>2, <2>1, <2>2
  <2>5. WithoutReceipt = w
    BY <2>3, <2>4
  <2> QED BY <1>3, <2>5 DEF ResInv, CommandBegan
<1>4. CASE resRun.op # "apply"
  <2>1. WithoutReceipt = resReceipt
    BY <1>1, <1>4 DEF WithoutReceipt
  <2> QED BY <1>4, <2>1 DEF ResInv, CommandBegan
<1> QED BY <1>3, <1>4

LEMMA FailsSafe ==
    ASSUME ResInv, FailsAsAWhole, resRun # NoRes, resRun.op # "migrate",
           resFile' = resFile, resEvents' = resEvents, resMigrated' = resMigrated,
           resHistory' = resHistory, resFile = resRun.was.file
    PROVE  ResInv'
<1>1. CASE ResAnswer("failed") /\ resReceipt' = WithoutReceipt
  BY <1>1, FailedReceipts, EndsFailed
<1>2. CASE resRun.op = "apply" /\ ResAnswer("unclean") /\ resReceipt' = resReceipt
  BY <1>2, EndsUnclean
<1> QED BY <1>1, <1>2 DEF FailsAsAWhole

LEMMA TransitionRestoredSafe ==
    ASSUME ResInv, TransitionRestored
    PROVE  ResInv'
<1>1. /\ resRun # NoRes /\ resRun.tr.phase = "restored"
      /\ resFile' = resFile /\ resEvents' = resEvents /\ resMigrated' = resMigrated
      /\ resHistory' = resHistory
  BY DEF TransitionRestored, Phase, ResIdle, Task
<1>2. resRun.op # "migrate" /\ resRun.second \in BOOLEAN
  BY <1>1, FilePhase, RunOf DEF ResInv
<1>3. CASE resRun.second
  <2>0. ResAnswer("uncertain") /\ resReceipt' = resReceipt
    BY <1>3 DEF TransitionRestored
  <2>1. /\ resRun' = NoRes /\ resTorn' = TRUE /\ resAnswer'.says = "uncertain"
        /\ resReceipt' = resReceipt
    BY <2>0 DEF ResAnswer
  <2>2. resMigrated \in SUBSET resHistory /\ resEvents \in Seq(ResEntries)
    BY DEF ResInv, EventsKeepReceipts, ResTyped
  <2> QED BY <1>1, <2>1, <2>2, EndsTorn, SameRecord DEF ResInv
<1>4. CASE ~resRun.second
  <2>1. FailsAsAWhole
    BY <1>4 DEF TransitionRestored
  <2>2. resFile = resRun.was.file
    BY <1>1, <1>2, <1>4 DEF ResInv, CommandMoves
  <2> QED BY <1>1, <1>2, <2>1, <2>2, FailsSafe
<1> QED BY <1>2, <1>3, <1>4

LEMMA TransitionUncertainSafe ==
    ASSUME ResInv, TransitionUncertain
    PROVE  ResInv'
<1>1. /\ resRun # NoRes /\ resRun' = NoRes /\ resTorn' = TRUE /\ resAnswer'.says = "uncertain"
      /\ resFile' = resFile /\ resEvents' = resEvents /\ resMigrated' = resMigrated
      /\ resReceipt' = resReceipt /\ resHistory' = resHistory
  BY DEF TransitionUncertain, Phase, ResIdle, ResAnswer, Task, Receipts
<1>2. resMigrated \in SUBSET resHistory /\ resEvents \in Seq(ResEntries)
  BY DEF ResInv, EventsKeepReceipts, ResTyped
<1> QED BY <1>1, <1>2, EndsTorn, SameRecord DEF ResInv

LEMMA TransitionReturnedSafe ==
    ASSUME ResInv, TransitionReturned
    PROVE  ResInv'
<1>1. /\ resRun # NoRes /\ Phase("written") /\ resRun.second /\ FailsAsAWhole
      /\ resFile' = resFile /\ resEvents' = resEvents /\ resMigrated' = resMigrated
      /\ resHistory' = resHistory
  BY DEF TransitionReturned, Phase, ResIdle, Task
<1>2. resRun.op # "migrate"
  BY <1>1, RunOf DEF ResInv
<1>3. resFile = resRun.was.file
  BY <1>1, TargetReached
<1> QED BY <1>1, <1>2, <1>3, FailsSafe

LEMMA PublishTaskSafe ==
    ASSUME ResInv, PublishTask \/ PublishRefused \/ PublishTaskFails
    PROVE  ResInv'
<1>1. CASE PublishTask
  <2>1. /\ Publishing /\ Published /\ ResAnswer("done")
        /\ resFile' = resFile /\ resReceipt' = resReceipt /\ resHistory' = resHistory
    BY <1>1 DEF PublishTask, Receipts
  <2> QED BY <2>1, EndsDone
<1>2. CASE PublishRefused
  <2>1. /\ Publishing /\ Unpublished
        /\ resFile' = resFile /\ resEvents' = resEvents /\ resReceipt' = resReceipt
        /\ resMigrated' = resMigrated
    BY <1>2 DEF PublishRefused, Task
  <2> QED BY <2>1, UnpublishedSafe
<1>3. CASE PublishTaskFails
  <2>1. Publishing /\ resFile' = resFile /\ resReceipt' = resReceipt
    BY <1>3 DEF PublishTaskFails
  <2>2. CASE UNCHANGED Task /\ Unpublished
    <3>1. resEvents' = resEvents /\ resMigrated' = resMigrated
      BY <2>2 DEF Task
    <3> QED BY <2>1, <2>2, <3>1, UnpublishedSafe
  <2>3. CASE Published /\ ResAnswer("published") /\ resHistory' = resHistory
    BY <2>1, <2>3, EndsDone
  <2> QED BY <1>3, <2>2, <2>3 DEF PublishTaskFails
<1> QED BY <1>1, <1>2, <1>3

LEMMA PublishTaskUncleanSafe ==
    ASSUME ResInv, PublishTaskUnclean
    PROVE  ResInv'
<1>1. /\ resRun # NoRes /\ Phase("written") /\ resRun.op = "migrate" /\ ResAnswer("unclean")
      /\ resHistory' \in {resHistory, resRun.was.history}
      /\ resFile' = resFile /\ resEvents' = resEvents /\ resMigrated' = resMigrated
      /\ resReceipt' = resReceipt
  BY DEF PublishTaskUnclean, Publishing, Phase, ResIdle, Task
<1>2. resFile = resRun.was.file
  BY <1>1, TargetReached
<1> QED BY <1>1, <1>2, EndsUnclean

LEMMA PublishTaskUnknownSafe ==
    ASSUME ResInv, "apply" \notin ResProbes, PublishTaskUnknown
    PROVE  ResInv'
<1>1. /\ Publishing /\ resRun # NoRes /\ resRun.op # "apply"
      /\ Published \/ UNCHANGED Task
      /\ ResAnswer("uncertain") /\ resHistory' = resHistory
      /\ resFile' = resFile /\ resReceipt' = resReceipt
  BY DEF PublishTaskUnknown, Publishing, Phase, ResIdle
<1>2. resRun' = NoRes /\ resTorn' = TRUE /\ resAnswer'.says = "uncertain"
  BY <1>1 DEF ResAnswer
<1>3. resMigrated \in SUBSET resHistory /\ resEvents \in Seq(ResEntries) /\ IdsOnce
  BY DEF ResInv, EventsKeepReceipts, ResTyped
<1>4. CASE Published
  <2>1. /\ resEvents' \in Seq(ResEntries) /\ IdsOnce' /\ EventIds' = EventIds
        /\ resRun.op # "migrate" => resMigrated' = resMigrated
        /\ resRun.op = "migrate" =>
              resMigrated' = resMigrated \cup {resRun.event} /\ resRun.event \in resHistory
    BY <1>1, <1>4, RecordReplaced
  <2>2. resMigrated' \in SUBSET resHistory
    BY <1>3, <2>1
  <2> QED BY <1>1, <1>2, <2>1, <2>2, EndsTorn
<1>5. CASE UNCHANGED Task
  <2>1. resEvents' = resEvents /\ resMigrated' = resMigrated
    BY <1>5 DEF Task
  <2> QED BY <1>1, <1>2, <1>3, <2>1, SameRecord, EndsTorn
<1> QED BY <1>1, <1>4, <1>5

LEMMA ResKillSafe ==
    ASSUME ResInv, ResKill
    PROVE  ResInv'
<1>1. /\ resRun # NoRes /\ resRun' = NoRes /\ resTorn' = TRUE /\ resAnswer' = NoRes
      /\ resFile' = resFile /\ resEvents' = resEvents /\ resMigrated' = resMigrated
      /\ resReceipt' = resReceipt /\ resHistory' = resHistory
  BY DEF ResKill, ResIdle, Task, Receipts
<1>2. resMigrated \in SUBSET resHistory /\ resEvents \in Seq(ResEntries)
  BY DEF ResInv, EventsKeepReceipts, ResTyped
<1> QED BY <1>1, <1>2, EndsTorn, SameRecord DEF ResInv

(* Overrides and plans touch nothing that the invariant speaks of.          *)
LEMMA OverridesQuiet ==
    ASSUME ResInv,
           \/ OverrideRequest \/ OverrideArbitrate \/ OverrideRevoke \/ OverrideExpires
           \/ \E e \in ResIds : ConfigPlan(e)
    PROVE  ResInv'
<1>1. /\ resFile' = resFile /\ resEvents' = resEvents /\ resReceipt' = resReceipt
      /\ resMigrated' = resMigrated /\ resHistory' = resHistory /\ resRun' = resRun
      /\ resAnswer' = resAnswer /\ resTorn' = resTorn
  BY DEF OverrideRequest, OverrideArbitrate, OverrideRevoke, OverrideExpires, ConfigPlan,
         Receipts, Task
<1> QED BY <1>1, ResourceQuiet

LEMMA ResInitInv ==
    ASSUME ResInit
    PROVE  ResInv
<1>1. ResTyped
  <2>1. <<>> \in Seq(ResEntries)
    OBVIOUS
  <2>2. resFile \in ResStates
    BY DEF ResInit, ResStates
  <2> QED BY <2>1, <2>2 DEF ResInit, ResTyped
<1>2. DOMAIN resEvents = {}
  <2>1. DOMAIN <<>> = {}
    OBVIOUS
  <2> QED BY <2>1 DEF ResInit
<1>3. Standing = {} /\ EventIds = {} /\ CurrentEvent = NoRes /\ IdsOnce
  BY <1>2 DEF Standing, EventIds, CurrentEvent, IdsOnce
<1>4. ReceiptsClosed
  <2>1. \A f \in Files : resFile[f] \notin ResIds
    BY ResAssumption DEF ResInit
  <2> QED BY <2>1 DEF ResInit, ReceiptsClosed, Explained
<1>5. ReceiptsChained /\ EventsKeepReceipts
  BY <1>3 DEF ResInit, ReceiptsChained, EventsKeepReceipts
<1>6. MixturesExplained
  BY <1>3, <1>4 DEF MixturesExplained, ReceiptsClosed, Explained
<1>7. CommandBegan /\ ApplyBegan /\ RollbackBegan /\ MigrateBegan /\ CommandMoves /\ AllOrNothing
  BY DEF ResInit, CommandBegan, ApplyBegan, RollbackBegan, MigrateBegan, CommandMoves,
         AllOrNothing
<1> QED BY <1>1, <1>3, <1>4, <1>5, <1>6, <1>7 DEF ResInv

LEMMA ResNextInv ==
    ASSUME ResInv, "apply" \notin ResProbes, [ResNext]_resVars
    PROVE  ResInv'
<1>1. CASE UNCHANGED resVars
  <2>1. /\ resFile' = resFile /\ resEvents' = resEvents /\ resReceipt' = resReceipt
        /\ resMigrated' = resMigrated /\ resHistory' = resHistory /\ resRun' = resRun
        /\ resAnswer' = resAnswer /\ resTorn' = resTorn
    BY <1>1 DEF resVars
  <2> QED BY <2>1, ResourceQuiet
<1>2. CASE \/ OverrideRequest \/ OverrideArbitrate \/ OverrideRevoke \/ OverrideExpires
           \/ \E e \in ResIds : ConfigPlan(e)
  BY <1>2, OverridesQuiet
<1>3. CASE \E f \in Files : EditFile(f)
  BY <1>3, EditFileSafe
<1>4. CASE \E e \in ResIds : ConfigApply(e)
  BY <1>4, ConfigApplySafe
<1>5. CASE \E e \in ResIds : ConfigRollback(e)
  BY <1>5, ConfigRollbackSafe
<1>6. CASE \E e \in ResIds : MigrateLegacy(e)
  BY <1>6, MigrateLegacySafe
<1>7. CASE Preflight
  BY <1>7, PreflightSafe
<1>8. CASE WriteTarget
  BY <1>8, WriteTargetSafe
<1>9. CASE WriteTargetFails
  BY <1>9, WriteTargetFailsSafe
<1>10. CASE WriteTargetUnreadable
  BY <1>10, WriteTargetUnreadableSafe
<1>11. CASE UndoTarget
  BY <1>11, UndoTargetSafe
<1>12. CASE UndoTargetFails
  BY <1>12, UndoTargetFailsSafe
<1>13. CASE TransitionRestored
  BY <1>13, TransitionRestoredSafe
<1>14. CASE TransitionUncertain
  BY <1>14, TransitionUncertainSafe
<1>15. CASE TransitionReturned
  BY <1>15, TransitionReturnedSafe
<1>16. CASE PublishTask \/ PublishRefused \/ PublishTaskFails
  BY <1>16, PublishTaskSafe
<1>17. CASE PublishTaskUnknown
  BY <1>17, PublishTaskUnknownSafe
<1>18. CASE ResKill
  BY <1>18, ResKillSafe
<1>19. CASE PublishTaskUnclean
  BY <1>19, PublishTaskUncleanSafe
<1> QED BY <1>1, <1>2, <1>3, <1>4, <1>5, <1>6, <1>7, <1>8, <1>9, <1>10, <1>11, <1>12, <1>13,
           <1>14, <1>15, <1>16, <1>17, <1>18, <1>19 DEF ResNext

(* Whatever fails, is killed or lapses, a command that says it failed has   *)
(* undone everything, one that succeeded has changed everything, and every  *)
(* receipt an event or a file needs is there.  An apply that cannot see     *)
(* whether its record was published takes it for unpublished: there the     *)
(* code breaks this, and the hypothesis leaves that one look out            *)
(* (cmd_codex_config_apply, cmd_codex_config_rollback,                      *)
(* _transition_resource_files).                                             *)
THEOREM ReceiptsAreExplained ==
    "apply" \notin ResProbes => (ResSpec => []ReceiptsExplain)
<1> SUFFICES ASSUME "apply" \notin ResProbes
             PROVE  ResSpec => []ReceiptsExplain
  OBVIOUS
<1>1. ResInit => ResInv
  BY ResInitInv
<1>2. ResInv /\ [ResNext]_resVars => ResInv'
  BY ResNextInv
<1>3. ResInv => ReceiptsExplain
  BY DEF ResInv, ReceiptsExplain
<1> QED BY <1>1, <1>2, <1>3, PTL DEF ResSpec
=============================================================================
