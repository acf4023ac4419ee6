--------------------------- MODULE MiniCompletion ---------------------------
(***************************************************************************)
(* finish-mini: one command that takes a verified mini task through its own *)
(* record, its delivery, the release of its one claim, a checkpoint, the    *)
(* close and the removal of its session mapping.  Each of these is a        *)
(* durable write of its own; all are made under one hold of the state lock, *)
(* a kill may come between any two, and the same request may then be made   *)
(* again while other commands have run in between.                          *)
(*                                                                          *)
(* The claimed files' bytes are one value, 0 when the claim was made.  A    *)
(* checkpoint is current when its file has the digest the task's record     *)
(* names at its present revision.  The evidence, plan and worktree checks   *)
(* of the close gate read nothing that these commands change and are left   *)
(* out.  The editor of the claimed files does not edit while finish-mini    *)
(* runs.                                                                    *)
(***************************************************************************)
EXTENDS Naturals, Sequences

CONSTANTS
    MiniRequests,   \* request -> its delivery mode, "none" or "local-only"
    MiniKills,      \* bound: kills
    MiniEdits,      \* bound: edits and other commands
    NoMini

ASSUME MiniAssumption ==
    /\ {MiniKills, MiniEdits} \subseteq Nat
    /\ \A r \in DOMAIN MiniRequests : MiniRequests[r] \in {"none", "local-only"}
    /\ NoMini \notin DOMAIN MiniRequests

VARIABLES
    miniTask,     \* the task's record
    miniClaim,    \* which records of the claim there are: active, archived
    miniFinal,    \* the bytes the release found
    miniBytes,    \* the claimed files' bytes
    miniFile,     \* the checkpoint file matches the task's record
    miniMap,      \* the task the session mapping names
    miniRun,      \* the finish-mini that holds the state lock
    miniAnswer,   \* the request that was answered with success last
    miniSpent     \* kills and edits so far

miniVars == <<miniTask, miniClaim, miniFinal, miniBytes, miniFile, miniMap,
              miniRun, miniAnswer, miniSpent>>

MiniInit ==
    /\ miniTask = [status |-> "active", finish |-> NoMini, delivery |-> "pending",
                   checkpointed |-> FALSE, changed |-> FALSE, blocked |-> FALSE]
    /\ miniClaim = {"active"} /\ miniFinal = 0 /\ miniBytes = 0
    /\ miniFile = FALSE /\ miniMap = "own"
    /\ miniRun = NoMini /\ miniAnswer = NoMini
    /\ miniSpent = [kills |-> 0, edits |-> 0]

MiniIdle == miniRun = NoMini
MiniOpen == miniTask.status = "active"
Archived == miniClaim = {"archived"}
CheckpointMatches == miniTask.checkpointed /\ miniFile

(* bump_task and write_task: the checkpoint of the revision before is stale. *)
Bumped(t) == [t EXCEPT !.checkpointed = FALSE]

Others == MiniIdle /\ miniSpent.edits < MiniEdits
          /\ miniSpent' = [miniSpent EXCEPT !.edits = @ + 1]

(* What others do between two attempts.                                      *)
EditClaimed(b) ==
    /\ Others /\ miniBytes' = b
    /\ UNCHANGED <<miniTask, miniClaim, miniFinal, miniFile, miniMap, miniRun, miniAnswer>>

SetDelivery(r) ==
    /\ Others /\ MiniOpen
    /\ miniTask' = Bumped([miniTask EXCEPT !.delivery = r])
    /\ UNCHANGED <<miniClaim, miniFinal, miniBytes, miniFile, miniMap, miniRun, miniAnswer>>

ReleaseClaim ==
    /\ Others /\ miniClaim = {"active"}
    /\ miniTask' = Bumped(miniTask)
    /\ miniClaim' = {"archived"} /\ miniFinal' = miniBytes
    /\ UNCHANGED <<miniBytes, miniFile, miniMap, miniRun, miniAnswer>>

Checkpoint(blocked) ==
    /\ Others /\ MiniOpen
    /\ miniTask' = [miniTask EXCEPT !.checkpointed = TRUE, !.blocked = @ \/ blocked]
    /\ miniFile' = TRUE
    /\ UNCHANGED <<miniClaim, miniFinal, miniBytes, miniMap, miniRun, miniAnswer>>

MiniCloseGate ==
    CheckpointMatches /\ Archived /\ miniTask.delivery # "pending" /\ ~miniTask.blocked

CloseTask ==
    /\ Others /\ MiniOpen /\ MiniCloseGate
    /\ miniTask' = [miniTask EXCEPT !.status = "done"]
    /\ miniMap' = IF miniMap = "own" THEN "none" ELSE miniMap
    /\ UNCHANGED <<miniClaim, miniFinal, miniBytes, miniFile, miniRun, miniAnswer>>

(* A session mapped to a closed task may be bound to a later one.           *)
BindSession ==
    /\ Others /\ ~MiniOpen /\ miniMap' = "other"
    /\ UNCHANGED <<miniTask, miniClaim, miniFinal, miniBytes, miniFile, miniRun, miniAnswer>>

(* finish-mini.                                                              *)
FinishBound(r) == miniTask.finish \in {NoMini, r}

(* Fault: an archived claim is refused even to the attempt that archived it. *)
SoleClaimActive == miniClaim = {"active"}

SoleClaim ==
    \/ miniClaim = {"active"}
    \/ Archived /\ miniTask.finish # NoMini

(* Fault: the archived claim is not looked at again.                        *)
BaselineUnchecked == TRUE

(* The files may not have changed after the claim was released.             *)
BaselineHolds == Archived => miniBytes = miniFinal

Changed == (IF Archived THEN miniFinal ELSE miniBytes) # 0

DeliveryAllowed(r) ==
    /\ MiniRequests[r] = "none" => ~Changed /\ ~miniTask.changed
    /\ MiniRequests[r] = "local-only" => Changed
    /\ miniTask.delivery \in {"pending", r}

MiniPreflight(r) ==
    MiniOpen /\ FinishBound(r) /\ SoleClaim /\ BaselineHolds /\ DeliveryAllowed(r)

(* The writes, in order; those an earlier attempt made are left out.        *)
MiniWrites(r) ==
    (IF miniTask.finish = NoMini THEN <<"record">> ELSE <<>>)
    \o ((IF miniTask.delivery = "pending" THEN <<"deliver">> ELSE <<>>)
        \o ((IF Archived THEN <<>> ELSE <<"stale", "archive", "unlink">>)
            \o <<"checkpoint file", "checkpoint", "close file", "close", "unbind">>))

FinishMini(r) ==
    /\ MiniIdle /\ MiniPreflight(r)
    /\ miniRun' = [request |-> r, changed |-> Changed, left |-> MiniWrites(r)]
    /\ UNCHANGED <<miniTask, miniClaim, miniFinal, miniBytes, miniFile, miniMap,
                   miniAnswer, miniSpent>>

Writing(w) == ~MiniIdle /\ miniRun.left # <<>> /\ Head(miniRun.left) = w
Wrote == miniRun' = [miniRun EXCEPT !.left = Tail(@)]

RecordFinish ==
    /\ Writing("record") /\ Wrote
    /\ miniTask' = Bumped([miniTask EXCEPT !.finish = miniRun.request])
    /\ UNCHANGED <<miniClaim, miniFinal, miniBytes, miniFile, miniMap, miniAnswer, miniSpent>>

Deliver ==
    /\ Writing("deliver") /\ Wrote
    /\ miniTask' = Bumped([miniTask EXCEPT !.delivery = miniRun.request])
    /\ UNCHANGED <<miniClaim, miniFinal, miniBytes, miniFile, miniMap, miniAnswer, miniSpent>>

ReleaseStep ==
    /\ \/ /\ Writing("stale")
          /\ miniTask' = Bumped(miniTask)
          /\ UNCHANGED <<miniClaim, miniFinal>>
       \/ /\ Writing("archive")
          /\ miniClaim' = miniClaim \cup {"archived"} /\ miniFinal' = miniBytes
          /\ UNCHANGED miniTask
       \/ /\ Writing("unlink")
          /\ miniClaim' = {"archived"}
          /\ UNCHANGED <<miniTask, miniFinal>>
    /\ Wrote
    /\ UNCHANGED <<miniBytes, miniFile, miniMap, miniAnswer, miniSpent>>

(* commit_checkpoint: the file first, then the record that names it.        *)
CheckpointFile ==
    /\ Writing("checkpoint file") \/ (Writing("close file") /\ MiniCloseGate)
    /\ Wrote
    /\ miniFile' = FALSE
    /\ UNCHANGED <<miniTask, miniClaim, miniFinal, miniBytes, miniMap, miniAnswer, miniSpent>>

CheckpointRecord ==
    /\ Writing("checkpoint") /\ Wrote
    /\ miniTask' = [miniTask EXCEPT !.checkpointed = TRUE, !.changed = @ \/ miniRun.changed]
    /\ miniFile' = TRUE
    /\ UNCHANGED <<miniClaim, miniFinal, miniBytes, miniMap, miniAnswer, miniSpent>>

(* The close gate refuses a task with blockers, after all that was done.    *)
CloseRefused ==
    /\ Writing("close file") /\ ~MiniCloseGate
    /\ miniRun' = NoMini
    /\ UNCHANGED <<miniTask, miniClaim, miniFinal, miniBytes, miniFile, miniMap,
                   miniAnswer, miniSpent>>

CloseRecord ==
    /\ Writing("close") /\ Wrote
    /\ miniTask' = [miniTask EXCEPT !.status = "done", !.checkpointed = TRUE]
    /\ miniFile' = TRUE
    /\ UNCHANGED <<miniClaim, miniFinal, miniBytes, miniMap, miniAnswer, miniSpent>>

FinalizedMap == IF miniMap = "own" THEN "none" ELSE miniMap

(* close-task's own unbinding and the verified tail, then the answer.       *)
Finalize ==
    /\ Writing("unbind")
    /\ miniTask.delivery = miniRun.request /\ Archived /\ CheckpointMatches
    /\ miniMap' = FinalizedMap
    /\ miniRun' = NoMini /\ miniAnswer' = miniRun.request
    /\ UNCHANGED <<miniTask, miniClaim, miniFinal, miniBytes, miniFile, miniSpent>>

(* The same request for a task that is done.                                *)
FinishAgain(r) ==
    /\ MiniIdle /\ ~MiniOpen /\ miniTask.finish = r
    /\ Archived /\ miniTask.delivery = r /\ CheckpointMatches
    /\ miniMap' = FinalizedMap
    /\ miniAnswer' = r
    /\ UNCHANGED <<miniTask, miniClaim, miniFinal, miniBytes, miniFile, miniRun, miniSpent>>

MiniKill ==
    /\ ~MiniIdle
    /\ miniSpent.kills < MiniKills /\ miniSpent' = [miniSpent EXCEPT !.kills = @ + 1]
    /\ miniRun' = NoMini
    /\ UNCHANGED <<miniTask, miniClaim, miniFinal, miniBytes, miniFile, miniMap, miniAnswer>>

MiniNext ==
    \/ \E b \in 0 .. 1 : EditClaimed(b)
    \/ \E r \in DOMAIN MiniRequests : SetDelivery(r) \/ FinishMini(r) \/ FinishAgain(r)
    \/ \E blocked \in BOOLEAN : Checkpoint(blocked)
    \/ ReleaseClaim \/ CloseTask \/ BindSession
    \/ RecordFinish \/ Deliver \/ ReleaseStep \/ CheckpointFile \/ CheckpointRecord
    \/ CloseRefused \/ CloseRecord \/ Finalize \/ MiniKill

MiniSpec == MiniInit /\ [][MiniNext]_miniVars

(* Properties.                                                               *)

(* However often finish-mini is interrupted and made again, it closes the    *)
(* task on the bytes its claim was released with, answers success only for   *)
(* the request the task recorded first, with its delivery, and never takes   *)
(* a session from a later task (cmd_finish_mini, _finalize_terminal_mini).   *)
FinishSound ==
    [][ /\ miniRun # NoMini /\ miniTask.status # miniTask'.status =>
              miniBytes = miniFinal /\ miniClaim = {"archived"}
        /\ miniAnswer' # miniAnswer =>
              /\ miniTask'.status = "done" /\ miniTask'.finish = miniAnswer'
              /\ miniTask'.delivery = miniAnswer' /\ miniTask'.checkpointed /\ miniFile'
              /\ miniMap' # "own"
        /\ miniMap = "other" => miniMap' = "other" ]_miniVars

(* After an interruption the recorded request finishes the task, unless the  *)
(* kill left both records of the claim (which the code asks to repair by     *)
(* hand), the files drifted after the release, or the task got a blocker or  *)
(* another delivery meanwhile: nothing finish-mini wrote itself stands in    *)
(* the way of its retry (_sole_claim, _validate_existing_finish).            *)
FinishResumable ==
    LET r == miniTask.finish
    IN  r # NoMini /\ MiniIdle /\ miniClaim # {"active", "archived"}
            /\ miniTask.delivery \in {"pending", r} /\ ~miniTask.blocked =>
          IF MiniOpen
          THEN BaselineHolds /\ (MiniRequests[r] = "none" <=> ~Changed) => MiniPreflight(r)
          ELSE Archived /\ CheckpointMatches
=============================================================================
