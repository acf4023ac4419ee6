----------------------------- MODULE TaskClaims -----------------------------
(***************************************************************************)
(* Tasks, their claims and the work that runs under the claims: the claim   *)
(* files of .aoi/claims/active, archive and legacy_pending, the decisions   *)
(* on legacy rows, and in each task document its status and the tokens it   *)
(* references.                                                              *)
(*                                                                          *)
(* A command holds the project state lock from its checks to its last       *)
(* write, so at most one command is under way; op is what it has left to    *)
(* write.  Its checks and its first write are one step: no one else runs in *)
(* between and a kill before the first write leaves nothing.  A kill, or an *)
(* exception, after that leaves the files as they are.  start-mini alone    *)
(* catches the exception and removes what it published.                     *)
(*                                                                          *)
(* "open" stands for the statuses active and blocked, which every guard     *)
(* treats alike; "final" stands for done, released and stale.  Work is a    *)
(* packet (ready, armed, dispatched) or a job (queued, running, unknown)    *)
(* that names locks.                                                        *)
(***************************************************************************)
EXTENDS PathLocks, FiniteSets

CONSTANTS
    Tasks,      \* task ids
    Minis,      \* those that start-mini creates
    Tokens,     \* claim tokens
    Works,      \* packet ids and run ids
    LockSets,   \* the sets of locks a command line may name
    Rows,       \* tokens with a non-terminal row in the legacy table
    RowLocks,   \* the locks parsed from each row
    Unclear,    \* rows with scope components that did not parse
    None        \* no file

Reserving == {"active", "blocked"}
Terminal  == {"final"}                    \* done, released or stale
Settled   == {"adopted_structured", "final"}  \* final: released or stale

Claims == [task : Tasks, locks : LockSets, status : Reserving \cup Terminal]
WorkRecords == [task : Tasks, locks : LockSets]

ASSUME ClaimsAssumption ==
    /\ Minis \subseteq Tasks
    /\ \A L \in LockSets : L # {} /\ L \subseteq Lock
    /\ Rows \subseteq Tokens
    /\ Unclear \subseteq Rows
    /\ RowLocks \in [Rows -> SUBSET UNION LockSets]
    /\ None \notin Claims \cup WorkRecords

VARIABLES
    task,       \* status of each task document
    refs,       \* the tokens each task document references
    active,     \* claims/active
    archive,    \* claims/archive
    pending,    \* tokens with a file in claims/legacy_pending
    decided,    \* claims/legacy_decisions
    work,       \* the packets and jobs not yet in a final status
    op          \* the command under way and its next write

vars == <<task, refs, active, archive, pending, decided, work, op>>

Steps == {"refer", "decide", "unpend", "unlink",
          "mini-task", "mini-rest", "undo-claim", "undo-task"}
Ops == [step : Steps, task : Tasks \cup {None}, token : Tokens, adopts : BOOLEAN]

Idle == op = None
Doing(s) == op # None /\ op.step = s
Then(s, t, k) == [step |-> s, task |-> t, token |-> k, adopts |-> FALSE]

-----------------------------------------------------------------------------
(* Reading the claim files *)

Reserved(k) == active[k] # None /\ active[k].status \in Reserving

(* validate_claim_lock_identities loads the owning task of every reserving  *)
(* claim; one whose task document does not exist makes the scan raise.      *)
Readable == \A k \in Tokens : Reserved(k) => task[active[k].task] \notin {"none", "debris"}

(* Fault: only active claims compared, pending legacy rows forgotten *)
ConflictsIgnoringRows(L, ignored) ==
    \E k \in Tokens \ ignored : Reserved(k) /\ ~Disjoint(L, active[k].locks)

(* find_conflicts *)
Conflicts(L, ignored) ==
    \/ \E k \in Tokens \ ignored : Reserved(k) /\ ~Disjoint(L, active[k].locks)
    \/ \E k \in pending \ ignored : ~Disjoint(L, RowLocks[k])

(* claims_owned_by_task: every structured record that names the task *)
OwnedLocks(t) == UNION {active[k].locks :
                     k \in {x \in Tokens : Reserved(x) /\ active[x].task = t}}

(* Fault: the released claim still counted among those that remain *)
RemainingLocksWithToken(t, token) ==
    UNION {active[k].locks : k \in {x \in refs[t] : Reserved(x)}}

(* claims_for_task, without the token about to be released: only what the   *)
(* task document references counts.                                         *)
RemainingLocks(t, token) ==
    UNION {active[k].locks : k \in {x \in refs[t] \ {token} : Reserved(x)}}

(* uncovered_dependencies_after_release is empty *)
StaysCovered(t, token) ==
    \A w \in Works : work[w] # None /\ work[w].task = t
        => \A l \in work[w].locks : CoveredBy(l, RemainingLocks(t, token))

-----------------------------------------------------------------------------
Init ==
    /\ task = [t \in Tasks |-> "none"]
    /\ refs = [t \in Tasks |-> {}]
    /\ active = [k \in Tokens |-> None]
    /\ archive = [k \in Tokens |-> None]
    /\ pending = {}
    /\ decided = [k \in Tokens |-> "undecided"]
    /\ work = [w \in Works |-> None]
    /\ op = None

(* cmd_init_task: the task document is its last write that matters here *)
InitTask(t) ==
    /\ Idle /\ t \notin Minis /\ task[t] = "none"
    /\ task' = [task EXCEPT ![t] = "open"]
    /\ UNCHANGED <<refs, active, archive, pending, decided, work, op>>

(* import_legacy writes one pending file per undecided row; a kill leaves   *)
(* some of them unwritten.                                                  *)
ImportLegacy(S) ==
    /\ Idle /\ S # {}
    /\ S \subseteq {k \in Rows : decided[k] \notin Settled}
    /\ pending' = pending \cup S
    /\ UNCHANGED <<task, refs, active, archive, decided, work, op>>

(* The checks every new claim passes whoever makes it: an unused token and  *)
(* locks free of every other reservation.                                   *)
TokenFree(k) == active[k] = None /\ archive[k] = None

Grantable(L, ignored) ==
    /\ Readable
    /\ pending \cap Unclear \subseteq ignored
    /\ ~Conflicts(L, ignored)

(* cmd_claim without --adopt-legacy *)
Claim(t, k, L) ==
    /\ Idle /\ task[t] = "open" /\ t \notin Minis
    /\ TokenFree(k) /\ k \notin pending /\ Grantable(L, {})
    /\ active' = [active EXCEPT ![k] = [task |-> t, locks |-> L, status |-> "active"]]
    /\ op' = Then("refer", t, k)
    /\ UNCHANGED <<task, refs, archive, pending, decided, work>>

(* Fault: adoption without the comparison of the two scopes *)
AdoptUncovering(t, k, L) ==
    /\ Idle /\ task[t] = "open" /\ t \notin Minis
    /\ TokenFree(k) /\ k \in pending /\ RowLocks[k] # {}
    /\ Grantable(L, {k})
    /\ active' = [active EXCEPT ![k] = [task |-> t, locks |-> L, status |-> "active"]]
    /\ op' = [Then("refer", t, k) EXCEPT !.adopts = TRUE]
    /\ UNCHANGED <<task, refs, archive, pending, decided, work>>

(* cmd_claim --adopt-legacy, its ambiguity acknowledged where the row has   *)
(* one: the new locks cover every lock of the row with the same token.      *)
Adopt(t, k, L) ==
    /\ Idle /\ task[t] = "open" /\ t \notin Minis
    /\ TokenFree(k) /\ k \in pending /\ RowLocks[k] # {}
    /\ \A l \in RowLocks[k] : CoveredBy(l, L)
    /\ Grantable(L, {k})
    /\ active' = [active EXCEPT ![k] = [task |-> t, locks |-> L, status |-> "active"]]
    /\ op' = [Then("refer", t, k) EXCEPT !.adopts = TRUE]
    /\ UNCHANGED <<task, refs, archive, pending, decided, work>>

(* write_task after the claim file *)
Refer ==
    /\ Doing("refer")
    /\ refs' = [refs EXCEPT ![op.task] = @ \cup {op.token}]
    /\ op' = IF op.adopts THEN Then("decide", op.task, op.token) ELSE None
    /\ UNCHANGED <<task, active, archive, pending, decided, work>>

(* record_legacy_decision of an adoption *)
Decide ==
    /\ Doing("decide")
    /\ decided' = [decided EXCEPT ![op.token] = "adopted_structured"]
    /\ op' = Then("unpend", None, op.token)
    /\ UNCHANGED <<task, refs, active, archive, pending, work>>

(* pending_legacy_path.unlink() *)
Unpend ==
    /\ Doing("unpend")
    /\ pending' = pending \ {op.token}
    /\ op' = None
    /\ UNCHANGED <<task, refs, active, archive, decided, work>>

(* cmd_set_claim_status *)
SetClaimStatus(k, s) ==
    /\ Idle /\ active[k] # None /\ task[active[k].task] \in {"open", "closed"}
    /\ active' = [active EXCEPT ![k].status = s]
    /\ UNCHANGED <<task, refs, archive, pending, decided, work, op>>

(* Fault: the active file removed before the archive copy exists *)
ReleaseUnlinkingFirst(k, s) ==
    /\ Idle /\ active[k] # None /\ task[active[k].task] \in {"open", "closed"}
    /\ StaysCovered(active[k].task, k)
    /\ active' = [active EXCEPT ![k] = None]
    /\ UNCHANGED <<task, refs, archive, pending, decided, work, op>>

(* cmd_release_claim: the archive copy first, then the active file *)
Release(k, s) ==
    /\ Idle /\ active[k] # None /\ task[active[k].task] \in {"open", "closed"}
    /\ StaysCovered(active[k].task, k)
    /\ archive' = [archive EXCEPT ![k] = [active[k] EXCEPT !.status = s]]
    /\ op' = Then("unlink", active[k].task, k)
    /\ UNCHANGED <<task, refs, active, pending, decided, work>>

Unlink ==
    /\ Doing("unlink")
    /\ active' = [active EXCEPT ![op.token] = None]
    /\ op' = None
    /\ UNCHANGED <<task, refs, archive, pending, decided, work>>

(* cmd_audit_legacy *)
Audit(k, d) ==
    /\ Idle /\ k \in pending
    /\ decided' = [decided EXCEPT ![k] = d]
    /\ op' = IF d = "still-active" THEN None
             ELSE Then("unpend", None, k)
    /\ UNCHANGED <<task, refs, active, archive, pending, work>>

-----------------------------------------------------------------------------
(* Work under the claims, and the end of a task *)

(* Fault: the check skipped for a task that holds some claim *)
StartWorkUncovered(t, w, L) ==
    /\ Idle /\ task[t] = "open" /\ t \notin Minis /\ work[w] = None
    /\ OwnedLocks(t) # {}
    /\ work' = [work EXCEPT ![w] = [task |-> t, locks |-> L]]
    /\ UNCHANGED <<task, refs, active, archive, pending, decided, op>>

(* cmd_create_packet and cmd_job_start: every lock the work needs is        *)
(* covered by one reserving claim of its task.                              *)
StartWork(t, w, L) ==
    /\ Idle /\ task[t] = "open" /\ t \notin Minis /\ work[w] = None
    /\ \A l \in L : CoveredBy(l, OwnedLocks(t))
    /\ work' = [work EXCEPT ![w] = [task |-> t, locks |-> L]]
    /\ UNCHANGED <<task, refs, active, archive, pending, decided, op>>

(* cmd_packet_update and cmd_job_update with a final status *)
EndWork(w) ==
    /\ Idle /\ work[w] # None
    /\ work' = [work EXCEPT ![w] = None]
    /\ UNCHANGED <<task, refs, active, archive, pending, decided, op>>

RecordsOf(t) ==
    {k \in Tokens : \/ active[k] # None /\ active[k].task = t
                    \/ archive[k] # None /\ archive[k].task = t}

HoldsNothing(t) ==
    /\ \A k \in Tokens : Reserved(k) => active[k].task # t
    /\ \A w \in Works : work[w] # None => work[w].task # t

(* cmd_close_task behind close_gate: the referenced tokens are exactly the  *)
(* recorded ones, every record is terminal and no work is left.             *)
CloseTask(t) ==
    /\ Idle /\ task[t] = "open"
    /\ refs[t] = RecordsOf(t) /\ HoldsNothing(t)
    /\ task' = [task EXCEPT ![t] = "closed"]
    /\ UNCHANGED <<refs, active, archive, pending, decided, work, op>>

(* cmd_cancel_task does not compare references with records *)
CancelTask(t) ==
    /\ Idle /\ task[t] = "open" /\ HoldsNothing(t)
    /\ task' = [task EXCEPT ![t] = "closed"]
    /\ UNCHANGED <<refs, active, archive, pending, decided, work, op>>

-----------------------------------------------------------------------------
(* start-mini: task and claim published together *)

(* The task directory, then the claim; the task document comes after.  A    *)
(* kill between the first two leaves an empty directory, which only keeps   *)
(* the id from being used again.                                            *)
StartMini(t, k, L) ==
    /\ Idle /\ t \in Minis /\ task[t] = "none"
    /\ \A l \in L : l.kind = "file"
    /\ TokenFree(k) /\ Grantable(L, {})
    /\ task' = [task EXCEPT ![t] = "debris"]
    /\ active' = [active EXCEPT ![k] = [task |-> t, locks |-> L, status |-> "active"]]
    /\ op' = Then("mini-task", t, k)
    /\ UNCHANGED <<refs, archive, pending, decided, work>>

MiniTask ==
    /\ Doing("mini-task")
    /\ task' = [task EXCEPT ![op.task] = "open"]
    /\ refs' = [refs EXCEPT ![op.task] = {op.token}]
    /\ op' = Then("mini-rest", op.task, op.token)
    /\ UNCHANGED <<active, archive, pending, decided, work>>

(* checkpoint, session mapping and index *)
MiniRest ==
    /\ Doing("mini-rest")
    /\ op' = None
    /\ UNCHANGED <<task, refs, active, archive, pending, decided, work>>

(* An exception before the last write starts the rollback. *)
MiniFail ==
    /\ Doing("mini-task") \/ Doing("mini-rest")
    /\ op' = Then("undo-claim", op.task, op.token)
    /\ UNCHANGED <<task, refs, active, archive, pending, decided, work>>

(* unlink the session mapping and the claim; an OSError is swallowed *)
MiniUndoClaim ==
    /\ Doing("undo-claim")
    /\ active' \in {active, [active EXCEPT ![op.token] = None]}
    /\ op' = Then("undo-task", op.task, op.token)
    /\ UNCHANGED <<task, refs, archive, pending, decided, work>>

(* rmtree of the task directory, which a kill may leave half done *)
MiniUndoTask ==
    /\ Doing("undo-task")
    /\ \E left \in {"none", "debris"} : task' = [task EXCEPT ![op.task] = left]
    /\ refs' = [refs EXCEPT ![op.task] = {}]
    /\ op' = None
    /\ UNCHANGED <<active, archive, pending, decided, work>>

(* The process is killed, or any other handler raises, between two writes. *)
Crash ==
    /\ ~Idle
    /\ op' = None
    /\ UNCHANGED <<task, refs, active, archive, pending, decided, work>>

Start ==
    \/ \E t \in Tasks : InitTask(t) \/ CloseTask(t) \/ CancelTask(t)
    \/ \E S \in SUBSET Rows : ImportLegacy(S)
    \/ \E t \in Tasks, k \in Tokens, L \in LockSets :
           Claim(t, k, L) \/ Adopt(t, k, L) \/ StartMini(t, k, L)
    \/ \E k \in Tokens : \/ \E s \in Reserving : SetClaimStatus(k, s)
                         \/ \E s \in Terminal : Release(k, s)
                         \/ \E d \in {"still-active", "final"} : Audit(k, d)
    \/ \E t \in Tasks, w \in Works, L \in LockSets : StartWork(t, w, L)
    \/ \E w \in Works : EndWork(w)

Proceed ==
    \/ Refer \/ Decide \/ Unpend \/ Unlink
    \/ MiniTask \/ MiniRest \/ MiniFail \/ MiniUndoClaim \/ MiniUndoTask

Next == Start \/ Proceed \/ Crash

Spec == Init /\ [][Next]_vars

-----------------------------------------------------------------------------
(* Every file and document keeps its shape, and a command under way has the *)
(* record it writes about.                                                  *)
TypeOK ==
    /\ task \in [Tasks -> {"none", "debris", "open", "closed"}]
    /\ refs \in [Tasks -> SUBSET Tokens]
    /\ active \in [Tokens -> Claims \cup {None}]
    /\ archive \in [Tokens -> Claims \cup {None}]
    /\ pending \subseteq Rows
    /\ decided \in [Tokens -> Settled \cup {"undecided", "still-active"}]
    /\ work \in [Works -> WorkRecords \cup {None}]
    /\ op \in Ops \cup {None}

(* Two claims that reserve never overlap, whatever crashes left behind      *)
(* (find_conflicts scans every active file, referenced or not).             *)
ClaimExclusion ==
    \A k, m \in Tokens : k # m /\ Reserved(k) /\ Reserved(m)
        => Disjoint(active[k].locks, active[m].locks)

(* Running work stays inside the reserving claims of its task: create-packet *)
(* counts every record that names the task, release-claim only what the     *)
(* task references.                                                         *)
WorkCovered ==
    \A w \in Works : work[w] # None
        => \A l \in work[w].locks : CoveredBy(l, OwnedLocks(work[w].task))

(* What the two give together: packets and jobs of different tasks never    *)
(* run on overlapping locks.                                                *)
WorkExclusion ==
    \A v, w \in Works :
        work[v] # None /\ work[w] # None /\ work[v].task # work[w].task
            => Disjoint(work[v].locks, work[w].locks)

(* A closed or cancelled task owns no reservation and no running work, even *)
(* when an earlier command of it was cut short.                             *)
ClosedHoldsNothing ==
    /\ \A k \in Tokens : Reserved(k) => task[active[k].task] # "closed"
    /\ \A w \in Works : work[w] # None => task[work[w].task] # "closed"

(* A row decided as adopted has left its scope to a claim of the same token *)
(* that covers all of it (cmd_claim writes the claim before the decision).  *)
AdoptionKeepsScope ==
    \A k \in Rows : decided[k] = "adopted_structured" =>
        \E r \in {active[k], archive[k]} \ {None} :
            \A l \in RowLocks[k] : CoveredBy(l, r.locks)

(* A token an ordinary task references has a record that names the task:    *)
(* a kill leaves duplicates, never a reference to nothing.                  *)
ReferencesBacked ==
    \A t \in Tasks \ Minis : refs[t] \subseteq RecordsOf(t)

(* A claim is granted clear of every other reservation, structured or       *)
(* legacy; only the row it adopts may overlap it.                           *)
GrantClear ==
    [][\A k \in Tokens : active[k] = None /\ active'[k] # None =>
          /\ \A m \in Tokens \ {k} :
                Reserved(m) => Disjoint(active'[k].locks, active[m].locks)
          /\ \A m \in pending : ~Disjoint(active'[k].locks, RowLocks[m])
                => m = k /\ op'.adopts]_vars

(* A reservation ends only when its final copy is in the archive, or when   *)
(* start-mini takes back the claim it just made: "never an early lock       *)
(* release".                                                                *)
NoEarlyRelease ==
    [][\A k \in Tokens : active[k] # None /\ active'[k] = None =>
          \/ archive[k] # None /\ archive[k].status \in Terminal
             /\ archive[k].locks = active[k].locks
          \/ Doing("undo-claim") /\ op.token = k]_vars

(* The claim files implement the table of owned locks.                      *)
EntryOf(k) == IF Reserved(k) THEN [task |-> active[k].task, locks |-> active[k].locks]
              ELSE None

Table == INSTANCE LockTable WITH
    Keys <- Tokens, Jobs <- Works, Vacant <- None, LockSet <- UNION LockSets,
    table <- [k \in Tokens |-> EntryOf(k)],
    running <- work

ImplementsTable == Table!Spec
=============================================================================
