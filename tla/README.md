# AOI orgware: a TLA+ development

This directory holds TLA+ models of the AOI orgware coordination program
(`src/src/aoi_orgware`), the TLC configurations that check them on small
instances, and TLAPS proofs of their most important properties. Paths below are
relative to `src/src/aoi_orgware/`.

## 1. The system

AOI orgware keeps the governance state of a software project worked on by
several AI agent sessions. It has no server of its own in its file-based core:
every command is a short-lived CLI process (`aoi …`) that takes one project-wide
operating-system lock, reads JSON documents under `.aoi/`, checks its
preconditions, writes new documents by atomic replacement and leaves. Later
versions add a resident single writer over an append-only SQLite ledger
(`company/`), a second event journal (semantic v2) and a transport that launches
agent processes on behalf of the Chief.

### Inventory

| Component | State it keeps | Operations | Hard behaviour | What makes it correct |
|---|---|---|---|---|
| Chief authority, state lock (`harnesslib.py`, `commands/task_lifecycle.py`, `cli.py`) | `chief-authority.json`, credential files outside the repository, the `.state.lock` file lock | acquire, takeover, renew, release, every fenced command | races for the lock with arguments read earlier; crash between staging a credential and publishing the record; failed or ambiguous writes; a wall clock set back | handlers run only under the current lease; one grant per epoch; the live lease is never left without its secret; every record written can be read back |
| Tasks and path claims (`commands/task_lifecycle.py`, `harnesslib.py`) | task documents, `claims/active`, `claims/archive`, the index | init-task, claim, set-claim-status, release-claim, close, cancel, block | one command is several file writes; a kill between two of them leaves duplicates; release must not uncover a running packet or job | no two live claims overlap; a dependency of live work stays covered; a crash never releases a lock early; retry completes |
| Packet dispatch, arms, jobs (`cli.py`, `dispatch_protocol.py`, `packet_integrity.py`, `job_integrity.py`) | packets, one-use arms, dispatch incidents, job records | create, arm, dispatch (hook or manual), result, block, cancel, jobs | the hook consumes an arm concurrently with the CLI; a lost or repeated hook; expiry racing consumption | an arm starts at most one subagent; terminal states are final; incidents block closing |
| Atomic publication (`harnesslib.py` 2540-3081, `commands/temporary_recovery.py`) | temp files beside a target | write, create-exclusive, copy, recover-temporaries | a kill at every system call | readers see the old or the new document; recovery never deletes a published one |
| Company ledger, state owner, read model (`company/ledger.py`, `state.py`, `readmodel.py`, `process_lock.py`) | SQLite event log, head digest, replaceable read model, owner lock | append with expected head, replay, rebuild, open, close | two writers, a crash between append and projection, stale heads, fork inheritance | events are never rewritten; a projection equals the replay of the log; one owner |
| Resident service (`company/service.py`), checkpoints, blobs | a bounded priority queue, the owner thread, waiting workers | admit, wait, execute, stop | a wait ends while its request is queued or executed; a stop or a failure of the loop | no client is told a wrong effect; every admitted worker is answered |
| Company supervisor (`company/supervisor.py`, `invariants.py`) | the fold of company events: dispatches, carriers, executions, departments, the Chief's term | enqueue, admit, begin, succeed, fail, effect unknown, stop, park, take over | launches of unknown effect, replaced carriers that still run, losers of a takeover | no more agents than slots; a parked department is quiet |
| Codex transport (`codex_transport_*.py`, `codex_app_server_stdio.py`) | issuance markers, journal objects, bindings, the launch's row in the semantic projection | issue, reserve, run (probe, process, thread, turn), reconcile, terminal receipt | a kill or a lost answer between an effect on the agent and its record; a write of three that fails | an arm starts at most one agent and one turn; no verdict denies a turn that may be running; a launch can be brought to its receipt |
| Transition permits (`permit_runtime.py`, `transition_permits.py`, `semantic_objects.py`) | objects, issuance markers, bindings, events of the task | issue, consume | a kill between the binding and its event; expiry and a change of Chief before the retry; two permits of one nonce | a permit takes effect at most once, on the head and under the Chief it was decided on; a reserved one can always be finished |
| Semantic store and workflows (`semantic_*.py`) | hash-chained events, projection, snapshot, migration receipt, rollback marker; objects and bindings | native birth, migrate, rollback, append, load | each is several writes, killed and made again, with legacy writers between; stale heads | one history that grows at its end; the task stays readable or the killed command can be made again |
| Routing (`routing_persistence.py`, `routing_authority.py`) | routing decisions | plan, commit, settle | retry of a committed decision | one decision per request |
| Hook receipts (`commands/codex_hook_receipt_store*.py`, `codex_hook_receipts.py`) | receipt generations, intents, seals, `control.json` | store, preview, apply, adopt the flat store | a rotation killed half staged; two hooks at its boundary | no receipt is lost, changed or counted twice; a killed rotation can be finished |
| Resource configuration (`resource_config.py`, `commands/resource.py`) | managed files, receipts with the bytes before, the task's events, overrides | plan, apply, rollback, migrate-legacy | a failing write, a failing undo, a kill, a foreign edit | a plain failure has undone everything; every changed byte is explained by a receipt |
| Legacy bridge (`company/legacy_bridge*.py`) | prepared documents and receipts per scope; what the Company ingested | prepare, send, classify, query | answers lost or late, a kill around a send or a receipt | a preparation is sent once; a receipt's verdict is true |
| Write admission, QoS (`company/write_admission*.py`, `scheduling/qos.py`) | admissions, owners | admit, release | ownership hand-over | one owner per write scope |
| Coordination, capacity, lanes, improvement, cohorts (`commands/*.py`, `cohorts.py`) | their documents | their lifecycles | long sequences | only legal transitions |
| Release runtime (`release_runtime.py`, `commands/release.py`) | manifests and receipts as objects, bindings, events | promote, abandon, show | a kill in a promotion, then another Chief | a promotion happens once, in the name of its own Chief only, or is ended by a later one |
| Runtime policy, file governance (`company/runtime_policy*.py`) | active policy | ready, activate | stale readiness | activate only what is ready |

Everything above shares two mechanisms: the project state lock and the atomic
replacement of a file. The Chief lease fences every mutating command of the CLI
core, so its model comes first; tasks and claims, dispatch and jobs are the
handlers that run inside that fence. The Company writer replaces the lock-per-
command discipline by one resident owner; the bridge carries the core's events
to it.

Pure validation, rendering, installers, scanners and wrappers over external
tools are listed in `PROJECT.json` with the reason they are not modelled.

## 2. The plan

The order follows the weight of what can go wrong: first the fence every
command passes, then what commands do inside it, then the file protocol under
both, then the Company side, then the protocols around them.

| # | Module (abstract promise) | State |
|---|---|---|
| 1 | `ChiefAuthority` (`FencedLease`) | modelled, checked, proved |
| 2 | `PathLocks`, `TaskClaims` (`LockTable`) | modelled, checked, proved |
| 3 | `PacketDispatch` (`OneShotOffers`) | modelled, checked, proved |
| 4 | `AtomicPublication` (`PublishedFile`) | modelled, checked, proved |
| 5 | `CompanyState` | modelled, checked, proved |
| 6 | `MiniCompletion`: finish-mini as a run of writes, killed and made again | modelled, checked, proved |
| 7 | `TransportLaunch`: the launches of one packet through the Codex transport | modelled, checked, proved |
| 8 | `SemanticLedger` (`TaskHistory`): birth, migration, rollback, appends | modelled, checked, proved |
| 9 | `HookReceipts` (`ReceiptLog`): generations, rotation at the limit | modelled, checked, proved |
| 10 | `ResourceConfig`: apply, rollback, migrate-legacy | modelled, checked, proved |
| 11 | `LegacyBridge`: one scope's attempts and their receipts | modelled, checked, proved |
| 12 | `ServiceQueue`: the owner thread and its workers | modelled, checked, proved |
| 13 | `CompanySupervisor`: dispatches, carriers, takeovers | modelled, checked, proved |
| 14 | `BoundTransitions` (`OneShotGrants`): permits and release promotions on one task's chain | modelled, checked, proved |
| 15 | `TaskLifecycle`: plan approval and the evidence part of the close gate | planned |
| 16 | `WriteAdmission`, lanes, coordination, capacity, cohorts: lifecycle state machines | planned |

Every safety property of a passing run is now a theorem. Theorems worth proving
next are those of modules 15 and 16, once they are written.

## 3. The modules and the code

Each module's constants, variables and actions carry the code's names or name
the function in a comment; `PROJECT.json` maps every definition to its lines.
Definitions whose comment starts with "Fault:" are not part of a model: they
are plausible bugs, and `PROJECT.json` lists which property each one breaks.

### ChiefAuthority

One action is one step of a CLI process that other processes can see: reading
the credential and building the request (`Invoke`, before the lock), taking
`.state.lock` (`AcquireLock`), the check of the command under the lock
(`Admit…`, `Refuse`), creating a candidate credential file (`Stage`),
publishing the record (`Publish`, or a failure before or after the replacement),
removing the credential of a released lease, the writes of any other fenced
handler (`HandlerWrite`), and giving the lock back. `Crash` may strike at any
place; flock goes with the process. The record is modelled field by field
where the validator compares fields: status, epoch, session, secret, the three
times, the counters and the audit tail. Secrets are drawn from a counter. The
wall clock (`SetClock`) advances, and is set back to any earlier reading, at any
time.

A handler is any fenced command; what it writes is the business of the other
modules, so here only the lease it writes under is recorded (`writes`).

`FencedLease` is the promise: at most one lease, growing epochs, writes under
the current lease only.

### PathLocks and TaskClaims

`PathLocks` holds the comparison of two locks (`Overlap` = `locks_overlap`,
`Covers` = `lock_covers`) on normalised paths, sequences of components. `Owns`
says what a lock stands for.

`TaskClaims` is the set of files under `claims/` and the task documents. Every
command that writes more than once is a first action with all the checks and
the first write, followed by one action per further write; `op` is the command
under way and its next write, so that the project lock's mutual exclusion is
`op = None`. `Crash` forgets `op`. `claim` writes claim, task, decision, then
removes the pending row; `release-claim` writes the archive copy, then removes
the active one; `start-mini` writes claim, task and the rest, and rolls back on a
failed write, and the rollback may be killed. `work` stands for the packets and
jobs that are not final, with the locks they were admitted under.

`LockTable` is the promise: a table of entries that never overlap, of which
none is taken away from under running work.

### PacketDispatch

The task document with its packets, arms (`dispatch_attempts`), incidents,
helpers and jobs, and the session mapping files. Actions are the commands
(create-packet, packet-arm, packet-disarm, packet-update in its several
transitions, job-start, job-update, incident accounting, plan edit and approval,
close-task and cancel-task) and the SubagentStart hook. The hook is split by
what it does with a start (`Consume`, `Resume`, `SpawnHelper`,
`RecordIncident`, or nothing for a duplicate), after the sweep of overdue arms
it always makes. An arm is valid under a Chief record, a plan and a deadline;
the deadline passes at any time (`ArmLapse`). A cancellation of a packet that was
not dispatched may name an agent all the same, one of `Cited`. The writes after the task document
(mapping files) may be cut off by a kill (`Cuts`).

`OneShotOffers` is the promise: no two open offers compete for a start, and an
offer is taken once or withdrawn, for good.

### AtomicPublication

Names, inodes, link counts and flock, at the granularity of system calls:
create a temporary, fill it, link or rename it, unlink it. Commands are init
(with its dispatch-time plan), chief-acquire, exclusive creation and replacement
of a document, recover-temporaries and a lock-free managed read. The making of
`.state.lock` itself is such a creation, made by processes that hold no lock.
Any call may fail (`Faults`) and any process may be killed (`Kills`). The model
is the POSIX path; a read of `bytes` between open and return is atomic, because
an inode is never written after it was published.

`PublishedFile` is the promise to readers.

### CompanyState

The SQLite ledger as one sequence per file, its writers, and the state owner
with its process lock and read model. An append is `Insert`, `Fence`, `Commit`,
`Settle`, with the checks of `append` in front: environment, replay, reuse of
ids, compare-and-swap. `Swap` puts an older copy of the ledger at its path,
which is what the path guards of the code are for; it may strike between any
two steps. For an owner the projection follows (`Project`, or `ProjectFails`
and `Rebuild`). A client's request is built on heads it read earlier
(`ReadHeads`), and any request may be sent again at any time, which is the retry
of an answer that was lost. Digests are taken as injective: a head is the
sequence it was computed from. Readers of a WAL database are assumed not to be
refused as busy, so an SQLite error after COMMIT always quarantines the writer.

### ServiceQueue

The hand-off from the HTTP workers to the owner thread of the resident service:
`Admit` under the admission lock (or a refusal: stopping, full, or the reserve
that telemetry may not use), the owner's loop that takes the first request by
priority and order, its one or, for a department dispatch, two commits, the
answer, a wait that ends (`TimedOut` tells the client `effect_unknown`), stop,
failure of the loop and the drain. Transaction ids of a dispatch are taken to be
fresh, as `docs/v0.5-plan.md:712-727` asks of the clients; with a reused id a
replayed enqueue would be answered like a new one.

### CompanySupervisor

The commits of the supervisor as seen through the invariants they are reduced
under: a request is enqueued, admitted into a slot, in flight, and dispatched,
failed or of unknown effect; a lead runs on a carrier that is bound, fenced,
parked or lost; the Chief may stop and be replaced, by a takeover prepared on a
head that may have moved. `worker` and `chiefs[x].runs` are what really runs,
which the company sees only through receipts. A commit is one step, because
`CompanyState` and the owner's lock make it one.

### LegacyBridge

One scope of the bridge: a client takes the scope lock, looks at its receipts,
writes an intent, a document, sends it, and writes a receipt for what it
learned; the wire may lose an answer, deliver the request late (while it is on
the wire a later query may still find nothing) or never. The Company side
ingests a document once. The next run settles an attempt of unknown effect by a
query before it sends anything. A POST that the HTTP layer repeats is not
modelled. That an outstanding unknown attempt blocks the scope is by design.

### HookReceipts

Generations of create-only receipts. `ReceiptLog` is the promise. A rotation
stages its intent, the seal of the active generation and the successor's files, in
order, each created or verified if it is there, and is committed by the replacement of `control.json`; a kill leaves a
prefix of the staging, or a temporary that blocks every scan until it is
recovered. The Chief that resumes a rotation must be the one that began it, so
`RotationResumable` is stated for the epoch of the intent.

### ResourceConfig

Three commands that replace several files and then the task, with a receipt
written first: `apply`, `rollback`, `migrate-legacy`. Every write may fail
before or after its replacement, the undo may fail too, the process may be
killed, and an editor may write a managed file between commands. `ReceiptsExplain`
collects what must then hold. In the passing run the read-back of the task after
a failed write may fail in rollback and migrate only; the same failure in apply
is the violation run `resource_ambiguous`. A command that fails removes the
receipt it wrote, and that removal may fail as well (`FailsAsAWhole`,
`PublishTaskUnclean`): its answer is then "unclean", and `AllOrNothing` allows a
difference in that one receipt, which holds just what was there before.

### MiniCompletion

finish-mini as its sequence of durable writes under one lock, with kills between,
retries, and the other commands of the task in between. The claimed files do not
change while finish-mini itself runs. A kill between the archive copy and the
removal of the active claim leaves two records, which the code refuses and asks
to repair by hand: `FinishResumable` excepts exactly that, drift of the files
after the release, and a blocker or another command's change to the task.

### SemanticLedger

One task's store in both forms, the legacy document and the hash chain, and the
commands that take it from one to the other. `TaskHistory` is the promise that
survives every change of form. A legacy load and write is one step under the
lock. `HeadHolds` is the compare-and-swap on the head an author read before it
waited for the lock.

### TransportLaunch

The Chief issues launches for one packet's arm (a marker and the first journal
object), then releases its lease, because a start is allowed only under the
released record of the issuing epoch. `aoi-codex-bridge run` takes the launch's
process lock, reserves or loads the launch, and, if the launch is fresh, walks
over four boundaries: version probe, process, thread, turn. Before each one it
publishes a pending event, after it an observed one. A publication (`Written`)
is three durable writes under the state lock: object, binding, semantic event;
any of them may fail or be the last before a kill, and the next run completes it
(`LoadLaunch`). `launchRecorded` is the journal of a launch as the semantic
projection has it, which advances with the chain. A fault ends in a verdict (`VerdictOn`), the verdict in a
receipt. `launchDid` and `launchTurn` say what the agent really did.

### BoundTransitions

One task's chain and what is sealed before it is appended to it: permits (for
the arming of a packet or the advance of a cohort) and release promotions. Each
is made of objects, of a binding that reserves the head for one planned event,
and of that event; a permit has an issuance marker as well. `boundObjects` says
whether none, some or all of a transition's objects are on the disk,
`boundMarker` and `boundBinding` on which head and in which Chief epoch it was
decided. A command is one action under the state lock that makes its first n
writes; a kill, or a failed write, is an n below all of them, and the retry
starts from what is there. The Chief ends and changes, permits expire, and
other commands append to the chain, at any time. `OneShotGrants` is the promise:
what is reserved is reserved alone and takes effect once, or is ended by a later
Chief. That Chief's lease must begin after the time the promotion is recorded
for, which its caller names and which may be ahead: `boundAhead` holds the
promotions for which it does not, and each new Chief finds some of them passed.
`GrantsResolvable` says that nothing else can stand in the way. The intent object of a promotion is written with its binding, which it
belongs to; renewals of the lease, rollback and dependency rules between
promotions, store limits and the projection are left out.

## 4. The runs

All cfgs but `ChiefFencing.cfg` set `CHECK_DEADLOCK FALSE`: ids, processes or
commands run out there, and the real system too has nothing left to do when
every task is closed, every start reported and every command done.

`MCTaskClaims`, `MCAtomicPublication` and `MCCommands` hold several small
instances, their parts, of which a behaviour runs one, chosen at the start.

| Run | What it shows | Bounds |
|---|---|---|
| `chief_fencing` | a handler never runs under a lease that is not the published one; the live lease keeps its secret; every record built is one the validator accepts; the whole implements `FencedLease` | 2 processes, 2 sessions, clock 0..2 with tolerance 1 (a set back within it and beyond it), TTL 1 (leases expire), 3 transitions and an audit tail of 2 (the tail overflows), 3 secrets, 1 handler write |
| `claims` | work of different tasks runs apart; an adopted row leaves its scope to a claim; no reservation ends early; a grant overlaps nothing but the row it adopts; the files implement `LockTable`, so that reservations exclude each other and work stays inside them | part "work": 2 tasks, 2 tokens, 2 works, locks of a tree, a file inside it and a tree beside it; part "legacy": 1 ordinary and 1 mini task, 2 legacy rows, one with scope that did not parse |
| `dispatch_slots` | a start meets at most one arm and is accounted for once, every document can be loaded again (`OffersSound`); arms are one-shot offers | 2 packets, 2 arms each, exact and wildcard slots, 2 starts, 2 Chief records |
| `dispatch_tree` | nothing executes under a parent or an owner that has ended; a synthesis stays bound to what it summarises | 2 specialists in one lane, a child, a job, a synthesis packet, 2 plan contents, starts of a root and of an agent |
| `dispatch_sessions` | helpers stay within budget and belong to the packet's agent; hooks do not revive a closed task; provenance and ends are final | 2 packets, 4 starts over 2 agents, each of which a cancellation may name, mappings removed by unbind-session, torn by kills |
| `dispatch_late_start` | **violation**: see the findings | 1 packet, 1 start |
| `publish` | one holder of the state lock although its file is made under no lock; no document before the marker is whole; residue is recoverable and recovery takes nothing a writer needs; an unauthenticated init yields to a Chief; readers see whole publications; every command ends | part "bootstrap": 3 processes, empty tree, init, its plan, chief-acquire, recovery; part "recovery": 2 processes, 2 payloads, 1 kill, 1 failed call |
| `publish_scan` | **violation**: see the findings | 2 processes |
| `company_drift` | **violation**: see the findings | 1 owner, 1 request, 1 restore |
| `service_queue` | no client is told a wrong effect; every admitted worker is answered | a request of each of the 4 kinds, 2 places of which 1 is reserved, 2 stops |
| `commands` | one part each for `HookReceipts` (`GenerationsSound`, `ImplementsReceiptLog`), `ResourceConfig` (`ReceiptsExplain`), `MiniCompletion` (`FinishSound`, `FinishResumable`), `SemanticLedger` (`LedgerNeverStuck`, `ImplementsHistory`), `TransportLaunch` (`LaunchesSound`, `LaunchRecoverable`), `LegacyBridge` (`SentOnce`, `EffectsKnown`), `CompanySupervisor` (`DispatchesSound`), `BoundTransitions` (`ImplementsGrants`, `GrantsResolvable`) and two for `CompanyState` (`LedgerAuthoritative`, `AdmittedOnCurrent`) | `Commands.cfg` says them: 3 receipts, 3 rotations, 3 generations; 2 files, 2 plans; 3 finish-mini requests; 2 changes, 2 migrations, a rollback and a legacy writer; 2 launches, 2 runners, 2 Chief epochs and 2 mishaps; 2 bridge clients, 2 attempts; 3 dispatches in 2 departments, 2 Chief carriers, 3 slots; 2 permits of one nonce, 2 promotions, 2 Chief epochs (the lease of the second begins before or after what the first recorded) and an event of another command; 3 ledger requests that share an event and a capability without a restore, or 2 with one |
| `resource_ambiguous` | **violation**: see the findings | the part "resources" of `commands` |

Why the bounds are enough. The protocols compare pairs: two leases, two claims,
two arms, two holders, two launches of an arm, two permits of a nonce, a head
and its predecessor. Two
(for file creation three) actors and one more object than a pair needs reach
every comparison with every outcome, and every kill or failure point is reached
with all the others intact; where a command can be resumed, a second kill or
failure strikes the resumption. The counters that can overflow (audit tail, arms
of a packet, helper budget, entries and generations of receipts, the queue and
its reserve, slots and fanout) overflow within the bounds. Every action and
disjunct of the next-state relations fires in some passing run. The part
"launch" also holds with three mishaps instead of two, and the part "grants" with
three Chief epochs, of which the second comes too early to end a promotion and
the third does not. Symmetry is declared for
processes, sessions, plan contents,
dispatches of one department, launches, runners, permits of one nonce, owners,
bridge clients and the contents of a hook receipt, which
no definition orders or tells apart, and only in runs without liveness properties or where the
symmetric values occur in no part that has one.

Fairness. There are two liveness properties. For `CommandsFinish`,
the specification asks weak fairness of each process's next step (of the part
"recovery"): a command that is not killed keeps executing its straight-line
code, and a process that waits for flock is woken by the kernel when the lock is
free. No fairness is asked of starting commands, kills or failures, and no
strong fairness: the bound on runs makes the wait for the lock finite, so the
property does not rest on the fairness of flock among contenders. For
`WaitersAnswered`, weak fairness is asked of the owner's step alone: one thread
of a live process, which blocks only on its own queue. All other properties are
safety properties and hold whatever the scheduling.

## 5. The proofs

TLAPS checks these theorems for every value of the constants that satisfies the
named assumptions; TLC evaluates the assumptions in every run of the module.

**ChiefAuthorityProofs** (assumes `ChiefAssumption`: the free-lock and
no-session values are none of the real ones, bounds are numbers). `Fencing`,
`GrantUniqueness`, `CredentialKept`, `WriteOrder` are not inductive on their
own. The inductive invariant `IInv` adds: only the owner of the lock is inside
the critical section (`LockOwned`); a request in progress names a session; a
record about to be published opens the next epoch with its credential on disk,
prolongs the published lease or ends it (`WorkReady`); the published record
carries the highest epoch ever granted or used (`EpochHighest`). `WorkReady` is
where the lock matters: what was checked at admission still describes the
published record when the record is replaced. `Refinement` maps every step to
`Grant`, `Drop`, `Write` or a stutter of `FencedLease`.

Its second part proves `RecordsPublishable`: every record the transitions build
passes the validator, for every length of the history and of the audit tail. `Sound` says by position what the validator
counts: behind `omitted` dropped events the tail is a chain (`Linked`), its last
`renewals` events, as far as the tail shows them, are the renewals of the
current epoch, and before them stands the event that opened it (`Opened`). Each
transition keeps that when it appends an event and perhaps drops the oldest
(`Shifted`); `OpenedCounts` turns positions back into the validator's
cardinalities. The theorem rests on the clamp of `NotBefore`: without it the
times of the chain could fall.

**TaskClaimsProofs** (assumes `ClaimsAssumption`). Two exactness theorems about
the comparisons come first: `OverlapIsSharing` (two locks overlap just when some
thing is owned by both) and `CoverIsContainment` (a lock covers another just
when it owns all the other owns), for paths of any length. With `CoversTransitive`
and `OverlapOfCover` they carry `DisjointWork`: work inside disjoint
reservations is disjoint. The inductive invariant adds to the properties that an
active file always has a reserving status, that references name records of the
task itself, and `OpSound`: the command under way still has the record it writes
about, and a release under way already has its archive copy and leaves the
running work covered. Without `OpSound` the second write of a release could not
be shown to keep `WorkCovered`, since its check was made one write earlier.
`ClaimsImplementTable` is the refinement of `LockTable`. `GrantsAreClear` and
`AdoptedRowsScoped` are about legacy rows. The second needs `ScopeInv`: the two
copies a killed release leaves agree on their locks, an adoption under way
already has the claim that covers the row, and a claim that start-mini may
still take back is not the one a row was left to.

**CompanyServiceProofs** is about what stands around the ledger. On the queue
(assumes `QueueAssumption`) it proves `ClientsToldTruth`.
`AnswersSound` relates what a client heard to what the owner did, so the
invariant `QueueInv` has to say where a request is: in one place only
(`OnePlace`: not submitted, in the queue, or with the owner), with the effect in
the ledger that follows from the place (`DoneByPlace`); and a client that still
waits has had no answer (`WaitersOpen`).

On the bridge (assumes `BridgeAssumption`) it proves `NeverSentTwice` and
`EffectsAreKnown`. The receipts on disk alone do not carry the induction:
`BridgeInv` says what `client.lock` makes true of the run that holds it. The
receipts of an attempt appear in order (`ReceiptOrder`), one attempt at most is
of unknown effect (`OneAttempt`), and what the run read when it took the lock is still so
when it begins, goes on, posts and learns the answer (`RunBegins`, `RunOn`,
`RunPosts`, `RunKnows`). A kill drops the run and leaves the receipts, of which
`EffectsTrue` and `UnknownStaysReadable` speak without it.

On the supervisor (assumes `SupervisorAssumption`: a capacity, and departments
that share no dispatch) it proves `DispatchesAreSound`. That no more agents run
than there are slots follows from the reducer's own count of slots
(`SlotsBounded`) and from a map of every running agent to a slot of its own:
`WorkersKnown` and `Carried` say where the slot of an agent is that runs in
flight, on an active or on a fenced carrier. A launch keeps this only because a
department has one current carrier (`OneCurrent`) and a parked one has nothing
on its way (`ParkedIdle`).

**CompanyStateProofs** (assumes `CompanyAssumption`) proves `LedgerSound` and `ReceiptsTrue`
(`LedgerIsAuthority` states both) for any number of writers, events and replaced files. `LedgerInv` adds to the two properties that
one writer per file stands between its insert and its commit (`OneWriter`) and
that what it carries still fits the log of that file (`WorkFits`). The log
itself is handled by `SoundPrefix` (an abort leaves a sound log) and
`SoundAppend` (so does an event whose identity and predecessor were checked).
`AdmittedOnLedger` relates the model an owner admits on to the file it appends
to. `ViewInv` says that the model of the owner that holds the process lock is
the log up to its cursor, one entry less between the append and its
application, and that in a transaction in preparation the cursor is the end of
the file: a ledger moved by somebody else is noticed at the fence.

**AtomicPublicationProofs** (assumes `PublicationAssumption` and
`NullAssumption`: inodes and nonces are finite sets of numbers and the null
value is none of the records) proves the lock, the marker, the temporaries, the
init that yields, the residue and the refinement of `PublishedFile`.
`PublicationInv` says that only the inode behind the name of the lock file is
ever held, and by a process inside the section (`OneLock`): a process that lost the race to make
the lock file holds nothing. Per process it says what the command carries
(`Carries`), where it may stand given the marker and the lock (`Placed`), which
temporary is its own (`Keeps`) and that the inode it fills has no other user
(`Whole`); pairwise, that nonces differ and one process fills the marker
(`Distinct`). `Whole` is what makes a rename atomic for readers: the inode
becomes visible after its last write, since nobody else writes it. That a fresh
inode is unused rests on `LinksCount` and `Unused`, facts about cardinalities.
`ResidueRecoverable` speaks of link counts and holds between any two system
calls, not only when nothing runs; its invariant has no counts. `NamesApart`
says that an inode has one name and one temporary at most, and both only when
the temporary is the one its creation has still to unlink; `TemporaryLinks` and
`LoneLinks` turn that into the counts recovery looks at. It is kept because a
writer's temporary, while it is there, is what the writer thinks (`Fits`), and
because no name and no other process has the inode before it is published
(`Unborn`). `ResidueDies` and `ReadersSeeWholePublications` state the two
properties of the run, whose behaviours choose between two instances; the
module therefore extends `MCAtomicPublication`.

**PacketDispatchProofs** (assumes `DispatchAssumption`) proves every property of
the three passing dispatch runs, for every tree of packets, set of slots and
number of arms. `WorkIsNested`, `SynthesisStaysCurrent` and
`ClosedTaskStaysQuiet` hold only together (`NestInv`): that a closed task is
quiet keeps late hooks from starting work, and the freeze of a synthesis keeps
new work from joining what it summarises. The proof sorts the actions by what
they do to the statuses: they start nothing (`RelaxKeeps`), start a packet that
was checked (`ActivateKeeps`), create one (`CreateKeeps`), end the task
(`EndKeeps`) or concern jobs (`JobsKeep`). `HelpersAreOwned` rests on
`HelperInv`: only a packet that was dispatched has an agent, so that a mapping
file that names the packet names its agent or is stale. `OffersAreSound` rests
on `OfferInv`: every packet's record by itself (`Record`: its arms fit its
status, its events and its origin), slots of open arms that never contend
(`SlotsApart`), a start that is in one place only (`EntryUnique`) and arms
issued under no later lease than the current one (`IssuedBefore`). `DispatchesAreFinal`
and the refinement `ArmsAreOneShot` follow from it; for the latter each step is
shown to leave the arms alone, to make one or to take one (`ArmsMove`), and
what a change of lease or of the time does to the others is a withdrawal.

**ReceiptsProofs** holds the proofs about the two protocols that change several
files of a tree and leave receipts. On the hook receipts (assumes
`HookAssumption`) it proves the refinement `GenerationsKeepLog`: a store
appends one receipt or none (`StoreAppends`), and the commit of a rotation adds
an empty generation to those a lookup reads (`CommitKeepsLog`).
`GenerationsAreSound` needs more than the types: what the entries on the disk
rest on (`EntriesFounded`: an operation that was not applied left nothing but
its own staging, and nothing before its first entry), one rotation that is not
committed, staged in order and still true of the store it described
(`OnePendingRotation`), and that the rotation under way is that one
(`RunSound`).

On the resource configuration (assumes `ResAssumption`) it proves
`ReceiptsAreExplained` under one hypothesis: `apply` is not among the commands
that may be unable to see whether their record was published. There the code
breaks the property, which is what the run `resource_ambiguous` shows; rollback
and migrate-legacy are covered with that failure. `ResInv` says of the running
command what it found when it began (`CommandBegan`, `ApplyBegan`,
`RollbackBegan`, `MigrateBegan`) and where its file transition is: the first
files of its order have the new content, the others the old one, forwards and
backwards (`CommandMoves`). That the receipt of a standing event holds the event
that stood before it, or an editor's bytes (`ReceiptsChained`), is why the files
fit the effective event again after a rollback.

**TaskChainProofs** is about one task: what is on its semantic chain, what is
sealed before it is appended, and its completion.

- On permits and promotions (assumes `BoundAssumption`): `GrantsAreResolvable`
  and the refinement of `OneShotGrants`, `GrantsAreOneShot`. `BoundInv` says
  that each grant's binding rests on its objects and marker and its event on its
  binding (`GrantsFounded`), and that one binding at most is pending
  (`OnePending`). A step then moves one grant along its stages and leaves the
  others where they are.
- On the semantic store (assumes `LedgerAssumption`): `LedgerInvariance`,
  `StoreIsNeverStuck` and the refinement of `TaskHistory`, `HistoryIsKept`.
  The kills between the writes are why the invariant has to say three things at
  once: what the files rest on (`FilesFounded`), who can go on from them
  (`RetriesFounded`), and that what the running command has left is what it
  would plan if it were made now (`RunSound`). With the last, a kill and a retry
  need no argument of their own. `HeadsSound` relates the head an author read to
  the history that went with it.
- On finish-mini: `FinishesAreSound` (an action property) and `FinishesResume`.
  `MiniRunSound` says of the command at work that what it has done is just what
  it has not left to do.
- On launches (assumes `LaunchAssumption`): `LaunchesAreSound` and
  `LaunchesRecover`. One launch of the packet is ever reserved, because the
  first reservation moves the head that every other marker names
  (`OneReserved`); one runner works on it (`RunnersApart`); what a runner
  remembers fits the journal, the objects and what it did (`Placed`), and the
  objects say the truth about the turn (`ObjectsTrue`). `RecoveryInv` adds for
  `LaunchesRecover` that, unless a publication went wrong under a controller
  that carried on, there is at most one object that is not on record, it is the
  next one (`OneUnrecorded`), and a pending binding is about it
  (`PendingFirst`).

Only model-checked: `CommandsFinish` and `WaitersAnswered`, since liveness under
fairness is beyond the prover. The four violation runs are refutations, which
only TLC gives.

## 6. Findings

Four are shown by runs; `PROJECT.json` quotes the lines.

- `dispatch_late_start`: `docs/POLICY.md:347` says open incidents block
  close and cancel. A close-task that is killed after it wrote the closed task
  and before it removed the session mappings leaves a mapped session; a
  SubagentStart that arrives then writes an open incident into the closed task,
  where no command can account for it.
- `publish_scan`: the documented claim that a live cooperative writer finishes
  or releases the lock before a recovery scan proceeds does not cover the making
  of the state lock itself, whose writer holds no lock: its temporary is listed
  while it is still in use, and the writer's link then fails with an error that
  `state_lock` does not handle. `OneHolder` shows that no harm to the lock
  follows.
- `company_drift`: `docs/v0.5-plan.md:82` says an authority mismatch after COMMIT
  is `effect_unknown`. `append` reports it so, but the owner's own check after
  `append` reports the same mismatch as a ledger conflict, the answer of a
  request that was not appended.
- `resource_ambiguous`: `docs/resource_control.md:333-334` says ambiguous recovery
  retains the receipt. `codex-config-apply`, whose task write failed and cannot
  be read back, takes the event for unpublished, rolls the files back and
  unlinks the receipt of an event that may be on record.

Others were met while modelling and are stated as properties without a run, or
left out of the properties that hold:

- `SemanticLedger`, `RollbackCanFinish`: a comment in `semantic_store.py:155-157`
  keeps the semantic boundary "so only the explicit rollback retry can finish the
  interrupted transaction". `commands/integrity.py:345-355` appends without
  asking for that boundary: an integrity record appended after the marker of a
  killed rollback makes the rollback's retry, and every load, fail for good.
  `LedgerNeverStuck` excepts this case.
- `CompanySupervisor`, `IdleDepartmentsMoveOn`: `docs/v0.5-plan.md:237` says "Idle
  departments checkpoint and park, then lazy-wake on demand." A lead that stops
  while another request of its department is queued leaves an active carrier
  without a runtime, which refuses every admission, begin and success in the
  company, while the queued request refuses the parking, and nothing cancels a
  queued dispatch.
- An `effect_unknown` dispatch can never be resolved as `failed_known`
  (`supervisor.py:2632`, `7360`, `invariants.py:5741`) although
  `_RESOLUTION_STATES` (`invariants.py:101`) lists it and
  `docs/v0.5-plan.md:262-265` speaks of an exact committed resolution: only a
  success settles it.
- Two launches at once on the same parked carrier are admitted, and the second
  can never be recorded. Capacity counts the Chief's carrier, so that a takeover
  at full capacity is refused. A lead confirmed lost keeps its department from
  parking.
- `TransportLaunch`: `docs/POLICY.md` and `docs/architecture.md` say that
  `process_start_pending` authorizes the version probe and that no child runs
  before it; the code gives the probe a pending event of its own and runs it
  before `process_start_pending`. They also speak of an explicit reconciliation
  that proves a new verdict for an unknown launch; no code path gives a
  terminal launch another verdict.
- `TransportLaunch`: integrity records and close-task append to the chain
  whatever binding is pending, and an error after the object of a publication
  may be followed by a verdict object of the same place. Either leaves the
  launch unloadable for good: it fails closed, and `LaunchRecoverable` excepts
  both cases (`Overtaken`, `launchTorn`).
- `BoundTransitions`: the same commands append past the pending binding of a
  permit or a promotion. Every inspection of the task's bindings then fails
  ("expected head is no longer current") and nothing can finish or end what was
  reserved; `GrantsResolvable` excepts it (`Stale`).
- The objects of a promotion are published in the order of their types, the
  receipt before its manifest and its observation. After a kill between them
  `inspect_release_runtime` (`release_runtime.py:1390-1405`) refuses the receipt
  without a manifest: release-show fails, and so does the last check of another
  promotion, whose event is by then on the chain, until the objects are
  completed. The docstring of `issue_permitted_arm_transaction` rightly calls an
  objects-only crash harmless for permits; for promotions it is not. The chain
  is right in both cases, and the read-only inspection is not modelled.

## 7. What is not modelled

- Within the modelled components: the texts and digests of documents, Windows
  file semantics, power loss, worktree identity, packets owned by the Codex
  transport (in `PacketDispatch`), resource limits of jobs, evidence files, round
  limits, plan approval and the evidence part of the close gate, logical streams
  and identity binding of the ledger, blobs and checkpoints, discovery and
  authentication of the control API, damaged or foreign files in the receipt and
  semantic stores, byte budgets, what a semantic event says, job terminals and
  the gate of the bridge, work definitions and external jobs of the supervisor,
  initialize, model list, items, interrupts and mutation verification of the
  transport, the sealing of permits and packet arms. `PROJECT.json` repeats this per component.
- Planned components: routing transactions have the shape of the permits of
  `BoundTransitions`, and no command commits one on its own; write admission has
  no caller in the resident service that commits it; the documents of
  coordination, capacity, lanes, improvement and cohorts change in one write under
  the state lock each.
- Manifests, observations and tags of a release come from Git and external
  registries. Runtime policy activation and readiness validate immutable
  documents.
- Out of scope: pure validators and canonical encoders, renderers and dashboards,
  installers, content scanners, wrappers over Git and retrieval indexes. They keep no
  protocol state of their own.
