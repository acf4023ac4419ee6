--------------------------- MODULE SemanticLedger ---------------------------
(***************************************************************************)
(* One task's semantic store: the hash chain of events that is its          *)
(* authority, the projection of it in state.json, the birth of a native     *)
(* task, the migration of a legacy one and the rollback of that migration.  *)
(* Every command is a run of durable writes under one hold of the state     *)
(* lock and may be killed between two of them; its author read the head it  *)
(* names before, and may make it again.                                     *)
(*                                                                          *)
(* An event is named by its command; its digest binds the chain before it,  *)
(* so a head is the sequence of commands up to it.  Snapshot, receipt,      *)
(* marker and completion are as large as their content needs: the legacy    *)
(* changes in the snapshot, the command in the marker.                      *)
(***************************************************************************)
EXTENDS SequencesExt

CONSTANTS
    LedgerChanges,     \* command -> "close" when it passes the close gate, else "record"
    LedgerLegacy,      \* changes of the legacy writers
    LedgerMigrations, LedgerRollbacks,   \* their command ids
    LedgerInit,        \* the command id of the native birth
    LedgerKills,       \* bound: kills
    NoLedger

VARIABLES
    ledgerDisk,   \* the private directory tree
    ledgerState,  \* state.json
    ledgerBase,   \* command -> the head its author read, and the history there
    ledgerRun,    \* the command that holds the state lock
    ledgerTold,   \* the changes that were acknowledged
    ledgerKills

ledgerVars == <<ledgerDisk, ledgerState, ledgerBase, ledgerRun, ledgerTold, ledgerKills>>

LedgerCommands ==
    DOMAIN LedgerChanges \cup LedgerMigrations \cup LedgerRollbacks

(* What a chain and a legacy file hold.                                      *)
Events     == DOMAIN LedgerChanges \cup LedgerMigrations \cup {LedgerInit}
LegacyLogs == Seq(LedgerLegacy)
StateFiles == [form : {"legacy"}, changes : LegacyLogs]
              \cup [form : {"projection"}, changes : Seq(Events)]

(* A command id names one command.                                           *)
ASSUME LedgerAssumption ==
    /\ LedgerKills \in Nat
    /\ \A c \in DOMAIN LedgerChanges : LedgerChanges[c] \in {"close", "record"}
    /\ Events \cap (LedgerLegacy \cup LedgerRollbacks) = {}
    /\ LedgerInit \notin DOMAIN LedgerChanges \cup LedgerMigrations
    /\ DOMAIN LedgerChanges \cap LedgerMigrations = {}
    /\ NoLedger \notin LedgerCommands \cup LegacyLogs \cup Seq(Events) \cup StateFiles

LegacyFile(s) == [form |-> "legacy", changes |-> s]
Projection(s) == [form |-> "projection", changes |-> s]

SemInit ==
    /\ ledgerDisk = [dirs |-> "none", events |-> <<>>, snapshot |-> NoLedger,
                     receipt |-> FALSE, marker |-> NoLedger, done |-> FALSE]
    /\ ledgerState \in {NoLedger, LegacyFile(<<>>)}
    /\ ledgerBase = [c \in LedgerCommands |-> [head |-> NoLedger, history |-> <<>>]]
    /\ ledgerRun = NoLedger /\ ledgerTold = {} /\ ledgerKills = 0

LedgerIdle == ledgerRun = NoLedger
Chain == ledgerDisk.events
Migrated == Chain # <<>> /\ Head(Chain) \in LedgerMigrations

(* The domain that the chain replays to.                                     *)
Replayable == IF Migrated THEN ledgerDisk.snapshot \o Tail(Chain) ELSE Chain

(* has_semantic_ledger: TRUE until the completed rollback.                   *)
LedgerActive == ledgerDisk.dirs = "events" /\ ~ledgerDisk.done

(* validate_semantic_migration and the marker's own validation.             *)
MigrationValid == Migrated /\ ledgerDisk.receipt
MarkerValid == ledgerDisk.marker # NoLedger => MigrationValid /\ Len(Chain) = 1

ProjectionValid ==
    /\ Chain # <<>>
    /\ ledgerState # NoLedger =>
           ledgerState.form = "projection" /\ IsPrefix(ledgerState.changes, Chain)

ProjectionCurrent == ledgerState = Projection(Chain)

(* load_task succeeds.                                                       *)
Loads ==
    /\ MarkerValid
    /\ IF LedgerActive THEN ProjectionValid
       ELSE ledgerState # NoLedger /\ ledgerState.form = "legacy"

History ==
    IF Chain # <<>> /\ ~ledgerDisk.done THEN Replayable
    ELSE IF ledgerState = NoLedger THEN <<>> ELSE ledgerState.changes

LedgerHead == IF LedgerActive THEN Chain ELSE ledgerState.changes

(* An author reads the head that a later command will name.                 *)
ReadHead(c) ==
    /\ LedgerIdle /\ Loads
    /\ ledgerBase' = [ledgerBase EXCEPT ![c] = [head |-> LedgerHead, history |-> History]]
    /\ UNCHANGED <<ledgerDisk, ledgerState, ledgerRun, ledgerTold, ledgerKills>>

(* A legacy command loads and writes the task under one hold of the lock.    *)
LegacyWrite(w) ==
    /\ LedgerIdle /\ Loads /\ ~LedgerActive
    /\ ~Contains(ledgerState.changes, w)
    /\ ledgerState' = LegacyFile(Append(ledgerState.changes, w))
    /\ ledgerTold' = ledgerTold \cup {w}
    /\ UNCHANGED <<ledgerDisk, ledgerBase, ledgerRun, ledgerKills>>

StartCommand(c, writes) ==
    /\ LedgerIdle
    /\ ledgerRun' = [command |-> c, left |-> writes]
    /\ UNCHANGED <<ledgerDisk, ledgerState, ledgerBase, ledgerTold, ledgerKills>>

(* Of a write and the rest, what is not on the disk yet.                     *)
Missing(there, w, rest) == IF there THEN rest ELSE <<w>> \o rest

ProjectWrites == Missing(ProjectionCurrent, "project", <<>>)
BirthWrites(rest) ==
    Missing(ledgerDisk.dirs # "none", "root", Missing(LedgerActive, "events", rest))

(* initialize_semantic_task.                                                 *)
InitAllowed ==
    \/ ledgerDisk.dirs # "events" /\ ledgerState = NoLedger
    \/ LedgerActive /\ Chain = <<>> /\ ledgerState = NoLedger
    \/ LedgerActive /\ Chain # <<>> /\ Head(Chain) = LedgerInit /\ Loads

InitWrites == BirthWrites(Missing(Chain # <<>>, "genesis", ProjectWrites))

InitTask ==
    /\ InitAllowed
    /\ StartCommand(LedgerInit, InitWrites)

(* migrate_legacy_task.  Fault: the retry takes the projection for granted.  *)
MigrateAgainProjected(m) ==
    Chain # <<>> /\ Head(Chain) = m /\ ledgerBase[m].head = ledgerDisk.snapshot /\ ProjectionValid

MigrateAgain(m) ==
    /\ Chain # <<>> /\ Head(Chain) = m /\ ledgerBase[m].head = ledgerDisk.snapshot
    /\ ledgerState # LegacyFile(ledgerDisk.snapshot) => ProjectionValid

MigrateFirst(m) ==
    /\ Chain = <<>> /\ ledgerState # NoLedger
    /\ ledgerBase[m].head = ledgerState.changes
    /\ ledgerDisk.snapshot \in {NoLedger, ledgerState.changes}

MigrateAllowed(m) ==
    ledgerDisk.marker = NoLedger /\ (MigrateAgain(m) \/ MigrateFirst(m))

MigrateWrites ==
    BirthWrites(Missing(ledgerDisk.snapshot # NoLedger, "snapshot",
                Missing(Chain # <<>>, "genesis",
                Missing(ledgerDisk.receipt, "receipt", ProjectWrites))))

Migrate(m) == MigrateAllowed(m) /\ StartCommand(m, MigrateWrites)

(* rollback_semantic_migration.                                              *)
RollbackAllowed(r) ==
    /\ MigrationValid /\ Len(Chain) = 1 /\ ledgerBase[r].head = Chain
    /\ ledgerDisk.marker \in {NoLedger, r}

RollbackWrites ==
    Missing(ledgerDisk.marker # NoLedger, "marker",
    IF ledgerDisk.done THEN <<>>
    ELSE Missing(ledgerState = LegacyFile(ledgerDisk.snapshot), "restore", <<"completion">>))

Rollback(r) == RollbackAllowed(r) /\ StartCommand(r, RollbackWrites)

(* append_semantic_transition and recover_published_semantic_transition.     *)
CloseGate ==
    /\ ProjectionCurrent /\ (Migrated => ledgerDisk.receipt)
    /\ ledgerDisk.marker = NoLedger

(* Fault: any head will do.                                                  *)
HeadHoldsAny(c) == ledgerBase[c].head # NoLedger

HeadHolds(c) == ledgerBase[c].head = Chain

AppendFirst(c) ==
    /\ ~Contains(Chain, c) /\ HeadHolds(c)
    /\ LedgerChanges[c] = "close" =>
           CloseGate /\ \A i \in 2 .. Len(Chain) : LedgerChanges[Chain[i]] # "close"

AppendAgain(c) == Last(Chain) = c /\ ledgerBase[c].head = Front(Chain)

AppendChange(c) ==
    /\ LedgerActive /\ Loads
    /\ \/ /\ AppendFirst(c)
          /\ StartCommand(c, Missing(ProjectionCurrent, "project", <<"event", "project">>))
       \/ /\ AppendAgain(c)
          /\ StartCommand(c, ProjectWrites)

(* The writes.                                                               *)
LedgerWrite ==
    /\ ~LedgerIdle /\ ledgerRun.left # <<>>
    /\ LET w == Head(ledgerRun.left)  c == ledgerRun.command  d == ledgerDisk
       IN  \/ /\ w = "project" /\ ledgerState' = Projection(Chain) /\ UNCHANGED ledgerDisk
           \/ /\ w = "restore" /\ ledgerState' = LegacyFile(d.snapshot)
              /\ UNCHANGED ledgerDisk
           \/ /\ w \notin {"project", "restore"} /\ UNCHANGED ledgerState
              /\ ledgerDisk' =
                   CASE w \in {"root", "events"}   -> [d EXCEPT !.dirs = w]
                     [] w \in {"genesis", "event"} -> [d EXCEPT !.events = Append(@, c)]
                     [] w = "snapshot"   -> [d EXCEPT !.snapshot = ledgerState.changes]
                     [] w = "receipt"    -> [d EXCEPT !.receipt = TRUE]
                     [] w = "marker"     -> [d EXCEPT !.marker = c]
                     [] w = "completion" -> [d EXCEPT !.done = TRUE]
    /\ ledgerRun' = [ledgerRun EXCEPT !.left = Tail(@)]
    /\ UNCHANGED <<ledgerBase, ledgerTold, ledgerKills>>

LedgerAnswer ==
    /\ ~LedgerIdle /\ ledgerRun.left = <<>>
    /\ ledgerTold' = IF ledgerRun.command \in DOMAIN LedgerChanges \cup {LedgerInit}
                     THEN ledgerTold \cup {ledgerRun.command} ELSE ledgerTold
    /\ ledgerRun' = NoLedger
    /\ UNCHANGED <<ledgerDisk, ledgerState, ledgerBase, ledgerKills>>

LedgerKill ==
    /\ ~LedgerIdle
    /\ ledgerKills < LedgerKills /\ ledgerKills' = ledgerKills + 1
    /\ ledgerRun' = NoLedger
    /\ UNCHANGED <<ledgerDisk, ledgerState, ledgerBase, ledgerTold>>

SemNext ==
    \/ \E c \in LedgerCommands : ReadHead(c)
    \/ \E w \in LedgerLegacy : LegacyWrite(w)
    \/ InitTask
    \/ \E m \in LedgerMigrations : Migrate(m)
    \/ \E r \in LedgerRollbacks : Rollback(r)
    \/ \E c \in DOMAIN LedgerChanges : AppendChange(c)
    \/ LedgerWrite \/ LedgerAnswer \/ LedgerKill

SemSpec == SemInit /\ [][SemNext]_ledgerVars

(* Properties.                                                               *)

(* Through births, migrations, rollbacks, kills and retries the task has one *)
(* history that only grows at its end: a change is made once, on the head    *)
(* its author named, no fork, no legacy write and no acknowledged event is   *)
(* lost when the form of the store changes (append_semantic_transition,      *)
(* migrate_legacy_task, rollback_semantic_migration).                        *)
Fenced == DOMAIN LedgerChanges
Histories ==
    INSTANCE TaskHistory WITH
        Changes <- Fenced \cup LedgerLegacy \cup {LedgerInit},
        history <- History, told <- ledgerTold,
        seen <- [c \in Fenced \cup LedgerLegacy \cup {LedgerInit} |->
                   IF c \in Fenced THEN ledgerBase[c].history ELSE <<>>]
ImplementsHistory == Histories!Spec

(* Whatever was killed, the task can be read, or the command that was killed *)
(* can be made again with the same arguments (an absent task can be born),   *)
(* unless a change that no gate holds back was recorded on a migration that  *)
(* is being rolled back.                                                     *)
CanRetry ==
    \/ Loads \/ InitAllowed
    \/ \E m \in LedgerMigrations : MigrateAllowed(m)
    \/ \E r \in LedgerRollbacks : RollbackAllowed(r)

LedgerNeverStuck ==
    \/ CanRetry
    \/ /\ ledgerDisk.marker # NoLedger
       /\ \E i \in 2 .. Len(Chain) : LedgerChanges[Chain[i]] = "record"

(* While a rollback has begun and is not complete, its retry can finish it   *)
(* (has_semantic_ledger keeps the semantic boundary for it).                 *)
RollbackCanFinish ==
    ledgerDisk.marker # NoLedger /\ ~ledgerDisk.done =>
        RollbackAllowed(ledgerDisk.marker)
=============================================================================
