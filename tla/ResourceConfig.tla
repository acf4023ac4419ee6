--------------------------- MODULE ResourceConfig ---------------------------
(***************************************************************************)
(* Applying, rolling back and migrating a Codex resource configuration: an  *)
(* event that replaces several files of the worktree, a receipt that holds  *)
(* their bytes before and after, and the task's record of the event.  The   *)
(* state lock is held over each command, so what interferes is a failing    *)
(* system call, a kill, and an editor that does not take the lock between   *)
(* commands.                                                                *)
(*                                                                          *)
(* The bytes an event writes are named by the event.  A file write replaces *)
(* the file atomically and may report an error before or after it did.  One *)
(* override stands for the single-use approval an event may need; plans,    *)
(* locks and sessions that the commands verify under the lock, and that     *)
(* nothing here changes, are left out.                                      *)
(***************************************************************************)
EXTENDS Naturals, Sequences, FiniteSets

CONSTANTS
    ResFiles,       \* the files in the order of the plan
    ResIds,         \* event ids
    ResGated,       \* the event that needs the override
    ResFaults,      \* bound: failing system calls
    ResProbes,      \* commands whose look at the published state may fail
    ResKills,       \* bound: kills
    ResEdits,       \* bound: edits by somebody else, approvals that lapse
    Original,       \* bytes no event wrote
    Edited,         \* bytes an editor wrote
    NoRes

VARIABLES
    resFile,      \* bytes of each file
    resEvents,    \* the task's resource events, in the order of their apply
    resReceipt,   \* event -> the bytes before it, when its receipt is there
    resMigrated,  \* rolled-back events whose migration the task records
    resHistory,   \* events with a migration receipt
    resOverride,  \* the override: requested, approved, consumed, revoked...
    resPlan,      \* the plan the Chief reviewed
    resRun,       \* the command that holds the state lock
    resAnswer,    \* the last command's answer, and what there was before it
    resTorn,      \* a command was killed or answered that it left a mixture
    resSpent      \* faults, kills and edits so far

resVars == <<resFile, resEvents, resReceipt, resMigrated, resHistory, resOverride,
             resPlan, resRun, resAnswer, resTorn, resSpent>>

Files == {ResFiles[i] : i \in DOMAIN ResFiles}
Backwards(s) == [i \in DOMAIN s |-> s[Len(s) + 1 - i]]

(* The bytes of all files, an entry of the task's record, and what a command *)
(* found and holds while it runs.                                            *)
ResStates == [Files -> ResIds \cup {Original, Edited}]
ResEntries == [id : ResIds, status : {"applied", "rolled_back"}]
ResDisks ==
    [file : ResStates, events : Seq(ResEntries), receipt : [ResIds -> ResStates \cup {NoRes}],
     migrated : SUBSET ResIds, history : SUBSET ResIds]
ResTransitions ==
    [phase : {"preflight", "forward", "undo", "written", "restored", "uncertain"},
     order : {ResFiles, Backwards(ResFiles)}, from : ResStates, to : ResStates,
     done : Seq(Files), end : {"restored", "uncertain"}]
ResRuns ==
    [op : {"apply", "rollback"}, event : ResIds, second : BOOLEAN, was : ResDisks,
     tr : ResTransitions]
    \cup [op : {"migrate"}, event : ResIds, second : {FALSE}, was : ResDisks,
          tr : [phase : {"written"}]]

(* The plan names some files and each once.                                 *)
ASSUME ResAssumption ==
    /\ {ResFaults, ResKills, ResEdits} \subseteq Nat
    /\ ResProbes \subseteq {"apply", "rollback", "migrate"}
    /\ {Original, Edited, NoRes} \cap ResIds = {}
    /\ ResFiles \in Seq(Files) /\ ResFiles # <<>>
    /\ \A i, j \in DOMAIN ResFiles : ResFiles[i] = ResFiles[j] => i = j
    /\ NoRes \notin ResStates /\ NoRes \notin ResRuns

EventIds == {resEvents[i].id : i \in DOMAIN resEvents}
Standing == {i \in DOMAIN resEvents : resEvents[i].status = "applied"}
CurrentEvent ==
    IF Standing = {} THEN NoRes
    ELSE resEvents[CHOOSE i \in Standing : \A j \in Standing : j <= i].id
RolledBack == {e \in EventIds : \E i \in DOMAIN resEvents :
                  resEvents[i].id = e /\ resEvents[i].status = "rolled_back"}
After(e) == [f \in Files |-> e]

Disk == [file |-> resFile, events |-> resEvents, receipt |-> resReceipt,
         migrated |-> resMigrated, history |-> resHistory]

ResInit ==
    /\ resFile = [f \in Files |-> Original]
    /\ resEvents = <<>> /\ resReceipt = [e \in ResIds |-> NoRes]
    /\ resMigrated = {} /\ resHistory = {}
    /\ resOverride = "none" /\ resPlan = NoRes /\ resRun = NoRes
    /\ resAnswer = NoRes /\ resTorn = FALSE
    /\ resSpent = [faults |-> 0, kills |-> 0, edits |-> 0]

ResIdle == resRun = NoRes
Task == <<resEvents, resMigrated, resOverride>>
Receipts == <<resReceipt, resHistory>>

MayFail == resSpent.faults < ResFaults
Failing == resSpent' = [resSpent EXCEPT !.faults = @ + 1]

(* Overrides.                                                                *)
OverrideRequest ==
    /\ ResIdle /\ resOverride = "none" /\ resOverride' = "awaiting_chief"
    /\ UNCHANGED <<resFile, resEvents, Receipts, resMigrated, resPlan, resRun,
                   resAnswer, resTorn, resSpent>>

OverrideArbitrate ==
    /\ ResIdle /\ resOverride = "awaiting_chief" /\ resOverride' \in {"approved", "rejected"}
    /\ UNCHANGED <<resFile, resEvents, Receipts, resMigrated, resPlan, resRun,
                   resAnswer, resTorn, resSpent>>

OverrideRevoke ==
    /\ ResIdle /\ resOverride = "approved" /\ resOverride' = "revoked"
    /\ UNCHANGED <<resFile, resEvents, Receipts, resMigrated, resPlan, resRun,
                   resAnswer, resTorn, resSpent>>

(* An approval lapses with time, even while a command is writing.           *)
OverrideExpires ==
    /\ resOverride = "approved" /\ resOverride' = "expired"
    /\ resSpent.edits < ResEdits /\ resSpent' = [resSpent EXCEPT !.edits = @ + 1]
    /\ UNCHANGED <<resFile, resEvents, Receipts, resMigrated, resPlan, resRun,
                   resAnswer, resTorn>>

Approved(e) == e = ResGated => resOverride = "approved"

(* A session edits a managed file without AOI.                               *)
EditFile(f) ==
    /\ ResIdle /\ resSpent.edits < ResEdits
    /\ resFile' = [resFile EXCEPT ![f] = Edited]
    /\ resSpent' = [resSpent EXCEPT !.edits = @ + 1]
    /\ resAnswer' = NoRes
    /\ UNCHANGED <<Task, Receipts, resPlan, resRun, resTorn>>

ConfigPlan(e) ==
    /\ ResIdle /\ Approved(e)
    /\ resPlan' = [event |-> e, before |-> resFile]
    /\ UNCHANGED <<resFile, Task, Receipts, resRun, resAnswer, resTorn, resSpent>>

(* One exact transition of all files, from one state to another.            *)
Transition(order, from, to) ==
    [phase |-> "preflight", order |-> order, from |-> from, to |-> to,
     done |-> <<>>, end |-> "restored"]

ApplyFiles(before, e) == Transition(ResFiles, before, After(e))
RollbackFiles(before, e) == Transition(Backwards(ResFiles), After(e), before)

(* The command begins.  The receipt is created before any file changes.     *)
ConfigApply(e) ==
    /\ ResIdle /\ e \notin EventIds /\ resReceipt[e] = NoRes
    /\ resPlan = [event |-> e, before |-> resFile] /\ Approved(e)
    /\ resReceipt' = [resReceipt EXCEPT ![e] = resFile]
    /\ resRun' = [op |-> "apply", event |-> e, second |-> FALSE, was |-> Disk,
                  tr |-> ApplyFiles(resFile, e)]
    /\ resAnswer' = NoRes
    /\ UNCHANGED <<resFile, Task, resHistory, resPlan, resTorn, resSpent>>

ConfigRollback(e) ==
    /\ ResIdle /\ e = CurrentEvent /\ resReceipt[e] # NoRes
    /\ resRun' = [op |-> "rollback", event |-> e, second |-> FALSE, was |-> Disk,
                  tr |-> RollbackFiles(resReceipt[e], e)]
    /\ resAnswer' = NoRes
    /\ UNCHANGED <<resFile, Task, Receipts, resPlan, resTorn, resSpent>>

(* The exact orphan of an interrupted migration is adopted, else created.   *)
MigrateLegacy(e) ==
    /\ ResIdle /\ e \in RolledBack \ resMigrated /\ resReceipt[e] # NoRes
    /\ resHistory' = resHistory \cup {e}
    /\ resRun' = [op |-> "migrate", event |-> e, second |-> FALSE, was |-> Disk,
                  tr |-> [phase |-> "written"]]
    /\ resAnswer' = NoRes
    /\ UNCHANGED <<resFile, Task, resReceipt, resPlan, resTorn, resSpent>>

(* _transition_resource_files.                                               *)
Phase(p) == ~ResIdle /\ resRun.tr.phase = p
Enter(p) == [resRun EXCEPT !.tr.phase = p]
OnDisk(fs, s) == \A f \in fs : resFile[f] = s[f]
Done == {resRun.tr.done[i] : i \in DOMAIN resRun.tr.done}
Target == resRun.tr.order[Len(resRun.tr.done) + 1]

Preflight ==
    /\ Phase("preflight")
    /\ resRun' = Enter(IF OnDisk(Files, resRun.tr.from) THEN "forward" ELSE "restored")
    /\ UNCHANGED <<resFile, Task, Receipts, resPlan, resAnswer, resTorn, resSpent>>

Moved(t) == IF Len(t.done) = Len(t.order) THEN [t EXCEPT !.phase = "written"] ELSE t

WriteTarget ==
    /\ Phase("forward")
    /\ resFile' = [resFile EXCEPT ![Target] = resRun.tr.to[Target]]
    /\ resRun' = [resRun EXCEPT !.tr = Moved([resRun.tr EXCEPT !.done = Append(@, Target)])]
    /\ UNCHANGED <<Task, Receipts, resPlan, resAnswer, resTorn, resSpent>>

(* Fault: only the targets whose write returned are undone.                 *)
WriteTargetFailsUnseen ==
    /\ Phase("forward") /\ MayFail /\ Failing
    /\ \E reached \in BOOLEAN :
         resFile' = IF reached THEN [resFile EXCEPT ![Target] = resRun.tr.to[Target]] ELSE resFile
    /\ resRun' = Enter("undo")
    /\ UNCHANGED <<Task, Receipts, resPlan, resAnswer, resTorn>>

(* The write reports an error; the file tells whether it was replaced.      *)
WriteTargetFails ==
    /\ Phase("forward") /\ MayFail /\ Failing
    /\ \E reached \in BOOLEAN :
         /\ resFile' = IF reached THEN [resFile EXCEPT ![Target] = resRun.tr.to[Target]] ELSE resFile
         /\ resRun' = [resRun EXCEPT !.tr.phase = "undo",
                                     !.tr.done = IF reached /\ resRun.tr.to[Target] # resRun.tr.from[Target]
                                                 THEN Append(@, Target) ELSE @]
    /\ UNCHANGED <<Task, Receipts, resPlan, resAnswer, resTorn>>

(* ... or cannot be read: the others go back, this one is reported.         *)
WriteTargetUnreadable ==
    /\ Phase("forward")
    /\ resSpent.faults + 2 <= ResFaults
    /\ resSpent' = [resSpent EXCEPT !.faults = @ + 2]
    /\ \E reached \in BOOLEAN :
         resFile' = IF reached THEN [resFile EXCEPT ![Target] = resRun.tr.to[Target]] ELSE resFile
    /\ resRun' = [resRun EXCEPT !.tr.phase = "undo", !.tr.end = "uncertain"]
    /\ UNCHANGED <<Task, Receipts, resPlan, resAnswer, resTorn>>

LastDone == resRun.tr.done[Len(resRun.tr.done)]

UndoTarget ==
    /\ Phase("undo")
    /\ IF resRun.tr.done = <<>>
       THEN resRun' = Enter(resRun.tr.end) /\ UNCHANGED <<resFile, resSpent>>
       ELSE /\ resFile' = [resFile EXCEPT ![LastDone] = resRun.tr.from[LastDone]]
            /\ resRun' = [resRun EXCEPT !.tr.done = SubSeq(@, 1, Len(@) - 1)]
            /\ UNCHANGED resSpent
    /\ UNCHANGED <<Task, Receipts, resPlan, resAnswer, resTorn>>

UndoTargetFails ==
    /\ Phase("undo") /\ resRun.tr.done # <<>> /\ MayFail /\ Failing
    /\ \/ /\ resFile' = [resFile EXCEPT ![LastDone] = resRun.tr.from[LastDone]]
          /\ resRun' = [resRun EXCEPT !.tr.done = SubSeq(@, 1, Len(@) - 1)]
       \/ /\ resRun' = Enter("uncertain") /\ UNCHANGED resFile
    /\ UNCHANGED <<Task, Receipts, resPlan, resAnswer, resTorn>>

(* The command's end: its answer, and what there was when it began.         *)
ResAnswer(a) ==
    /\ resRun' = NoRes
    /\ resAnswer' = [says |-> a, op |-> resRun.op, event |-> resRun.event, was |-> resRun.was]
    /\ resTorn' = (resTorn \/ a = "uncertain")

WithoutReceipt ==
    CASE resRun.op = "apply"   -> [resReceipt EXCEPT ![resRun.event] = NoRes]
      [] OTHER                 -> resReceipt

(* A command fails as a whole, and a failed apply takes its receipt with it. *)
(* When the receipt cannot be removed it stays, and that error is reported.  *)
FailsAsAWhole ==
    \/ ResAnswer("failed") /\ resReceipt' = WithoutReceipt /\ UNCHANGED resSpent
    \/ /\ resRun.op = "apply" /\ MayFail /\ Failing
       /\ ResAnswer("unclean") /\ UNCHANGED resReceipt

(* The transition ended short of its target.                                *)
TransitionRestored ==
    /\ Phase("restored")
    /\ IF resRun.second
       THEN ResAnswer("uncertain") /\ UNCHANGED <<resReceipt, resSpent>>
       ELSE FailsAsAWhole
    /\ UNCHANGED <<resFile, Task, resHistory, resPlan>>

TransitionUncertain ==
    /\ Phase("uncertain") /\ ResAnswer("uncertain")
    /\ UNCHANGED <<resFile, Task, Receipts, resPlan, resSpent>>

(* The second transition, back, reached its target.                         *)
TransitionReturned ==
    /\ Phase("written") /\ resRun.second
    /\ FailsAsAWhole
    /\ UNCHANGED <<resFile, Task, resHistory, resPlan>>

(* write_task.                                                               *)
Published ==
    CASE resRun.op = "apply" ->
            /\ resEvents' = Append(resEvents, [id |-> resRun.event, status |-> "applied"])
            /\ resOverride' = IF resRun.event = ResGated THEN "consumed" ELSE resOverride
            /\ UNCHANGED resMigrated
      [] resRun.op = "rollback" ->
            /\ resEvents' = [i \in DOMAIN resEvents |->
                   IF resEvents[i].id = resRun.event
                   THEN [resEvents[i] EXCEPT !.status = "rolled_back"] ELSE resEvents[i]]
            /\ UNCHANGED <<resMigrated, resOverride>>
      [] OTHER ->
            /\ resMigrated' = resMigrated \cup {resRun.event}
            /\ UNCHANGED <<resEvents, resOverride>>

Publishing == Phase("written") /\ ~resRun.second
MayPublish == resRun.op = "apply" => Approved(resRun.event)

PublishTask ==
    /\ Publishing /\ MayPublish /\ Published
    /\ ResAnswer("done")
    /\ UNCHANGED <<resFile, Receipts, resPlan, resSpent>>

(* The files go back: an apply rolls back, a rollback applies again.        *)
GoBack ==
    [resRun EXCEPT !.second = TRUE,
                   !.tr = IF resRun.op = "apply"
                          THEN RollbackFiles(resReceipt[resRun.event], resRun.event)
                          ELSE ApplyFiles(resReceipt[resRun.event], resRun.event)]

(* What the failed command does once it knows nothing was published.        *)
Unpublished ==
    IF resRun.op = "migrate"
    THEN /\ ResAnswer("failed")
         /\ resHistory' = resRun.was.history
    ELSE /\ resRun' = GoBack
         /\ UNCHANGED <<resHistory, resAnswer, resTorn>>

(* The override lapsed while the files were written: nothing is published.  *)
PublishRefused ==
    /\ Publishing /\ ~MayPublish
    /\ Unpublished
    /\ UNCHANGED <<resFile, Task, resReceipt, resPlan, resSpent>>

(* write_task reports an error: before, or after it replaced the record.    *)
PublishTaskFails ==
    /\ Publishing /\ MayPublish /\ MayFail /\ Failing
    /\ \/ UNCHANGED Task /\ Unpublished
       \/ Published /\ ResAnswer("published") /\ UNCHANGED resHistory
    /\ UNCHANGED <<resFile, resReceipt, resPlan>>

(* ... before, and the receipt the migration created cannot be removed, or   *)
(* only not durably.                                                        *)
PublishTaskUnclean ==
    /\ Publishing /\ resRun.op = "migrate" /\ resRun.event \notin resRun.was.history
    /\ resSpent.faults + 2 <= ResFaults
    /\ resSpent' = [resSpent EXCEPT !.faults = @ + 2]
    /\ ResAnswer("unclean")
    /\ resHistory' \in {resHistory, resRun.was.history}
    /\ UNCHANGED <<resFile, Task, resReceipt, resPlan>>

(* ... and the record cannot be read back either.  A rollback and a         *)
(* migration stop there; an apply takes it for unpublished.                 *)
PublishTaskUnknown ==
    /\ Publishing /\ MayPublish /\ resRun.op \in ResProbes
    /\ resSpent.faults + 2 <= ResFaults
    /\ resSpent' = [resSpent EXCEPT !.faults = @ + 2]
    /\ Published \/ UNCHANGED Task
    /\ IF resRun.op = "apply" THEN Unpublished
       ELSE ResAnswer("uncertain") /\ UNCHANGED resHistory
    /\ UNCHANGED <<resFile, resReceipt, resPlan>>

ResKill ==
    /\ ~ResIdle
    /\ resSpent.kills < ResKills /\ resSpent' = [resSpent EXCEPT !.kills = @ + 1]
    /\ resRun' = NoRes /\ resAnswer' = NoRes /\ resTorn' = TRUE
    /\ UNCHANGED <<resFile, Task, Receipts, resPlan>>

ResNext ==
    \/ OverrideRequest \/ OverrideArbitrate \/ OverrideRevoke \/ OverrideExpires
    \/ \E f \in Files : EditFile(f)
    \/ \E e \in ResIds : ConfigPlan(e) \/ ConfigApply(e) \/ ConfigRollback(e) \/ MigrateLegacy(e)
    \/ Preflight \/ WriteTarget \/ WriteTargetFails \/ WriteTargetUnreadable
    \/ UndoTarget \/ UndoTargetFails
    \/ TransitionRestored \/ TransitionUncertain \/ TransitionReturned
    \/ PublishTask \/ PublishRefused \/ PublishTaskFails
    \/ PublishTaskUnclean \/ PublishTaskUnknown
    \/ ResKill

ResSpec == ResInit /\ [][ResNext]_resVars

(* Properties.                                                               *)

(* A command that answers with a plain failure has undone everything: the    *)
(* files, the task's record and the receipts are those it began with, but    *)
(* for its own receipt when just that could not be removed.  One that        *)
(* succeeds has changed all of them                                          *)
(* (cmd_codex_config_apply, cmd_codex_config_rollback,                       *)
(* _remove_new_legacy_resource_migration_receipt).                           *)
AllOrNothing ==
    resAnswer # NoRes =>
        /\ resAnswer.says = "failed" => Disk = resAnswer.was
        /\ resAnswer.says = "unclean" =>
              LET was == resAnswer.was
                  own == resAnswer.event IN
              /\ resFile = was.file /\ resEvents = was.events /\ resMigrated = was.migrated
              /\ resReceipt \in {was.receipt, [was.receipt EXCEPT ![own] = was.file]}
              /\ resHistory \in {was.history, was.history \cup {own}}
        /\ resAnswer.says \in {"done", "published"} =>
              CASE resAnswer.op = "apply"    -> /\ resFile = After(resAnswer.event)
                                                /\ CurrentEvent = resAnswer.event
                [] resAnswer.op = "rollback" -> /\ resFile = resReceipt[resAnswer.event]
                                                /\ resAnswer.event \in RolledBack
                [] OTHER                     -> /\ resFile = resAnswer.was.file
                                                /\ resAnswer.event \in resMigrated

(* Whatever failed or was killed, every file a command changed is still      *)
(* explained: its bytes are the ones before any event, an editor's, or those *)
(* of an event whose receipt is there, and the files differ from the         *)
(* effective event only when a command was killed, said it was uncertain, or *)
(* an editor wrote ("inspect targets before retry", resource_config.py).     *)
MixturesExplained ==
    /\ \A f \in Files : resFile[f] \in ResIds => resReceipt[resFile[f]] # NoRes
    /\ ResIdle /\ ~resTorn /\ CurrentEvent # NoRes
           => \A f \in Files : resFile[f] \in {CurrentEvent, Edited}

(* An event of the task, standing or rolled back, keeps its receipt, and a   *)
(* recorded migration keeps its own (docs/resource_control.md:333: "Ambiguous *)
(* or doubly failed recovery retains the receipt and fails closed").         *)
EventsKeepReceipts ==
    /\ \A e \in EventIds : resReceipt[e] # NoRes
    /\ resMigrated \subseteq resHistory

(* The three together.                                                       *)
ReceiptsExplain == AllOrNothing /\ MixturesExplained /\ EventsKeepReceipts
=============================================================================
