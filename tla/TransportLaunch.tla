--------------------------- MODULE TransportLaunch ---------------------------
(***************************************************************************)
(* The launch of one armed packet through the Codex transport: the Chief    *)
(* issues launches, a runner reserves one of them, starts the agent process *)
(* and its turn, and records a verdict.  The packet has one arm; several    *)
(* launches may have been issued for it.                                    *)
(*                                                                          *)
(* The journal of a launch lives three times: as objects, as bindings that  *)
(* tie an object to the next event of the task's semantic chain, and as     *)
(* that event; each publication writes them in that order under the state   *)
(* lock, and a kill or an error may fall after any of them.  The agent's    *)
(* side (the process, its thread and its turn) is external: what happened   *)
(* there is known to launchDid and launchTurn, never to the code.           *)
(*                                                                          *)
(* initialize and model/list are left out (they fail like the step before   *)
(* them), as are items and interrupts within the turn.  An event stands for *)
(* its bytes: a launch never publishes two different ones of a type.  The   *)
(* packet arm and the permits expire together.  Waiting for the launch's    *)
(* process lock is not a state, as the marker read before it never changes. *)
(***************************************************************************)
EXTENDS SequencesExt

CONSTANTS
    Launches,      \* launches that may be issued for the packet's one arm
    Runners,       \* processes of `aoi-codex-bridge run`
    LaunchEpochs,  \* bound: Chief epochs
    LaunchMishaps, \* bound: kills, failed writes, foreign events, expiry, a new Chief
    NoLaunch

VARIABLES
    launchChain,    \* the semantic events [launch, event] since the arm; NoLaunch: others
    launchRecorded, \* launch -> its journal as the semantic projection has it
    launchObjects,  \* launch -> its published journal objects <<place, event>>
    launchBound,    \* the published bindings [head, place, launch, event]
    launchIssued,   \* launch -> its marker [head, epoch] or NoLaunch
    launchChief,    \* the Chief record [epoch, live]; not live: released
    launchExpired,  \* the arm and the permits are past their time
    launchRun,      \* runner -> [at, launch, journal, cause]
    launchDid,      \* launch -> boundary -> how often its effect was made (history)
    launchTurn,     \* launch -> what became of its turn (external)
    launchTorn,     \* launches that went on after an error between two writes (history)
    launchSpent     \* how many mishaps there were

launchVars == <<launchChain, launchRecorded, launchObjects, launchBound, launchIssued, launchChief,
                launchExpired, launchRun, launchDid, launchTurn, launchTorn, launchSpent>>

(* The task's semantic chain and what its projection has of it.             *)
TaskChain == <<launchChain, launchRecorded>>

(* The journal up to the turn: every boundary has a pending event that is   *)
(* made durable before its effect and an observed one after it.             *)
LaunchSteps ==
    <<"reserved", "version_probe_pending", "version_probe_observed",
      "process_start_pending", "process_started",
      "thread_start_send_pending", "thread_started",
      "turn_start_send_pending", "turn_started">>

Boundaries == 1 .. 4    \* the probe, the process, the thread, the turn

StartsPending == {LaunchSteps[2 * i] : i \in Boundaries}
Verdicts == {"completed", "failed", "interrupted", "launch_unknown", "runtime_unknown"}

LaunchEvents == {LaunchSteps[i] : i \in DOMAIN LaunchSteps} \cup Verdicts \cup {"receipt"}

(* What issuing a launch leaves of the moment: the head of the chain and    *)
(* the Chief's epoch.                                                        *)
Markers == [head : Nat, epoch : Nat]

ASSUME LaunchAssumption ==
    /\ {LaunchEpochs, LaunchMishaps} \subseteq Nat
    /\ NoLaunch \notin Launches /\ NoLaunch \notin Markers

RunnerAway == [at |-> "away", launch |-> NoLaunch, journal |-> <<>>, cause |-> "none"]

LaunchInit ==
    /\ launchChain = <<>>
    /\ launchRecorded = [l \in Launches |-> <<>>]
    /\ launchObjects = [l \in Launches |-> {}]
    /\ launchBound = {}
    /\ launchIssued = [l \in Launches |-> NoLaunch]
    /\ launchChief = [epoch |-> 1, live |-> TRUE]
    /\ launchExpired = FALSE
    /\ launchRun = [r \in Runners |-> RunnerAway]
    /\ launchDid = [l \in Launches |-> [i \in Boundaries |-> 0]]
    /\ launchTurn = [l \in Launches |-> "none"]
    /\ launchTorn = {}
    /\ launchSpent = 0

Recorded(l) == launchRecorded[l]

(* _transition; the terminal receipt follows the verdict.                   *)
MayFollow(journal, e) ==
    LET last == Last(journal)
    IN  \/ last \in Verdicts /\ e = "receipt"
        \/ /\ last \notin Verdicts \cup {"receipt"}
           /\ \/ Len(journal) < Len(LaunchSteps) /\ e = LaunchSteps[Len(journal) + 1]
              \/ e = "failed" /\ last # "version_probe_pending"
              \/ e = "launch_unknown" /\ last \in StartsPending
              \/ e \in {"completed", "interrupted", "runtime_unknown"} /\ last = "turn_started"

(* _validated_binding_namespace: what every reader and writer asks.         *)
PendingBindings ==
    {b \in launchBound :
        ~(/\ b.head < Len(launchChain)
          /\ launchChain[b.head + 1] = [launch |-> b.launch, event |-> b.event])}

Overtaken == \E b \in PendingBindings : b.head # Len(launchChain)

BindingsSound ==
    /\ \A b \in launchBound : <<b.place, b.event>> \in launchObjects[b.launch]
    /\ ~Overtaken /\ Cardinality(PendingBindings) <= 1

(* load_codex_transport_launch: the objects are the recorded journal and at *)
(* most one publication more.                                               *)
ObjectsOf(journal) == {<<i, journal[i]>> : i \in DOMAIN journal}
Unrecorded(l) == launchObjects[l] \ ObjectsOf(Recorded(l))

Loadable(l) ==
    /\ BindingsSound
    /\ Recorded(l) # <<>> /\ ObjectsOf(Recorded(l)) \subseteq launchObjects[l]
    /\ Cardinality(Unrecorded(l)) <= 1
    /\ \A o \in Unrecorded(l) :
          o[1] = Len(Recorded(l)) + 1 /\ MayFollow(Recorded(l), o[2])

-----------------------------------------------------------------------------
(* The Chief, the clock and other commands on the task.                     *)

(* One of the bounded mishaps happens.                                       *)
Mishap == launchSpent < LaunchMishaps /\ launchSpent' = launchSpent + 1

(* issue_codex_launch_transaction: the objects, the marker last.            *)
IssueLaunch(l) ==
    /\ launchIssued[l] = NoLaunch
    /\ launchChief.live /\ ~launchExpired
    /\ \A i \in DOMAIN launchChain : launchChain[i].event # "reserved"
    /\ launchIssued' = [launchIssued EXCEPT
                           ![l] = [head |-> Len(launchChain), epoch |-> launchChief.epoch]]
    /\ launchObjects' = [launchObjects EXCEPT ![l] = {<<1, "reserved">>}]
    /\ UNCHANGED <<TaskChain, launchBound, launchChief, launchExpired, launchRun,
                   launchDid, launchTurn, launchTorn, launchSpent>>

ChiefReleases ==
    /\ launchChief.live
    /\ launchChief' = [launchChief EXCEPT !.live = FALSE]
    /\ UNCHANGED <<TaskChain, launchObjects, launchBound, launchIssued, launchExpired,
                   launchRun, launchDid, launchTurn, launchTorn, launchSpent>>

(* chief-acquire or a takeover.                                              *)
ChiefAcquires ==
    /\ Mishap
    /\ launchChief.epoch < LaunchEpochs
    /\ launchChief' = [epoch |-> launchChief.epoch + 1, live |-> TRUE]
    /\ UNCHANGED <<TaskChain, launchObjects, launchBound, launchIssued, launchExpired,
                   launchRun, launchDid, launchTurn, launchTorn>>

LaunchExpires ==
    /\ Mishap
    /\ ~launchExpired /\ launchExpired' = TRUE
    /\ UNCHANGED <<TaskChain, launchObjects, launchBound, launchIssued, launchChief,
                   launchRun, launchDid, launchTurn, launchTorn>>

(* Another command appends to the task's chain; the integrity records and   *)
(* the closing of a task do so whatever binding is pending.                 *)
OtherEvent ==
    /\ Mishap
    /\ launchChain' = Append(launchChain, [launch |-> NoLaunch, event |-> "other"])
    /\ UNCHANGED <<launchRecorded, launchObjects, launchBound, launchIssued, launchChief,
                   launchExpired, launchRun, launchDid, launchTurn, launchTorn>>

-----------------------------------------------------------------------------
(* A publication and what can end it.                                       *)

(* The event is appended, and the projection advances with it.              *)
Appended(l, e, n) ==
    IF n < 3 THEN UNCHANGED TaskChain
    ELSE /\ launchChain' = Append(launchChain, [launch |-> l, event |-> e])
         /\ launchRecorded' = [launchRecorded EXCEPT ![l] = Append(@, e)]

(* Fault: the binding is published before its object *)
WrittenBindingFirst(l, e, n) ==
    LET place == Len(Recorded(l)) + 1
        bound == [head |-> Len(launchChain), place |-> place, launch |-> l, event |-> e]
    IN  /\ launchBound' = IF n < 1 THEN launchBound ELSE launchBound \cup {bound}
        /\ launchObjects' = IF n < 2 THEN launchObjects
                            ELSE [launchObjects EXCEPT ![l] = @ \cup {<<place, e>>}]
        /\ Appended(l, e, n)

(* The writes of record_milestone, publish_terminal_receipt and             *)
(* reserve_codex_launch, of which the first n are made.                     *)
Written(l, e, n) ==
    LET place == Len(Recorded(l)) + 1
        bound == [head |-> Len(launchChain), place |-> place, launch |-> l, event |-> e]
    IN  /\ launchObjects' = IF n < 1 THEN launchObjects
                            ELSE [launchObjects EXCEPT ![l] = @ \cup {<<place, e>>}]
        /\ launchBound' = IF n < 2 THEN launchBound ELSE launchBound \cup {bound}
        /\ Appended(l, e, n)

(* How many of them the checks let through: the projection advances from    *)
(* the caller's journal only, and a binding is published beside no other    *)
(* pending one.                                                              *)
LetThrough(l, journal) ==
    IF Recorded(l) # journal THEN 0
    ELSE IF BindingsSound /\ \A b \in PendingBindings : b.launch = l /\ b.place = Len(journal) + 1
         THEN 3 ELSE 1

Becomes(r, next) == launchRun' = [launchRun EXCEPT ![r] = next]

(* A killed runner forgets where it was and gives up the process lock.      *)
Killed(r) == Mishap /\ Becomes(r, RunnerAway)

(* Runner r publishes e after a journal, under the state lock.  It goes on  *)
(* as good says, or, told of an error, as bad says.                         *)
Publishes(r, journal, e, good, bad) ==
    LET l == launchRun[r].launch
        all == LetThrough(l, journal)
        Fails(n) ==
            /\ Becomes(r, bad)
            /\ launchTorn' = IF n \in 1 .. 2 /\ bad.at = "fault"
                             THEN launchTorn \cup {l} ELSE launchTorn
    IN  /\ \E n \in 0 .. all :
             /\ Written(l, e, n)
             /\ \/ n = 3 /\ Becomes(r, good) /\ UNCHANGED <<launchTorn, launchSpent>>
                \/ n = all /\ all < 3 /\ Fails(n) /\ UNCHANGED launchSpent
                \/ all = 3 /\ Mishap /\ Fails(n)
                \/ Killed(r) /\ UNCHANGED launchTorn
        /\ UNCHANGED <<launchIssued, launchChief, launchExpired, launchDid, launchTurn>>

Going(r, at, journal, cause) ==
    [at |-> at, launch |-> launchRun[r].launch, journal |-> journal, cause |-> cause]

NothingWritten ==
    UNCHANGED <<TaskChain, launchObjects, launchBound, launchIssued, launchChief,
                launchExpired, launchTorn>>

Outside == UNCHANGED <<launchDid, launchTurn>>

-----------------------------------------------------------------------------
(* aoi-codex-bridge run.                                                     *)

(* Reads the marker and takes the launch's process lock.                    *)
EnterLaunch(r, l) ==
    /\ launchRun[r] = RunnerAway
    /\ launchIssued[l] # NoLaunch
    /\ \A q \in Runners : launchRun[q].launch # l
    /\ Becomes(r, [at |-> "load", launch |-> l, journal |-> <<>>, cause |-> "none"])
    /\ NothingWritten /\ Outside /\ UNCHANGED launchSpent

(* _run_controller: what a loaded launch is taken up for.                   *)
TakenUp(r, journal) ==
    LET last == Last(journal)
    IN  IF last = "receipt" THEN RunnerAway
        ELSE IF last \in Verdicts THEN Going(r, "receipt", journal, "none")
        ELSE IF last = "reserved" THEN Going(r, "step", journal, "none")
        ELSE Going(r, "fault", journal, "error")

(* reserve_codex_launch: at the head of the marker, beside no binding while *)
(* the arm and the permit last, or resuming its own binding at any time.    *)
Reservable(l) ==
    /\ launchIssued[l].head = Len(launchChain)
    /\ BindingsSound
    /\ \A b \in PendingBindings : b.launch = l
    /\ PendingBindings = {} => ~launchExpired

(* _load_or_reserve and _recover_pending_locked, under one hold of the      *)
(* state lock: one reservation, one event or one receipt may be published.  *)
LoadLaunch(r) ==
    LET l == launchRun[r].launch
        journal == Recorded(l)
        Continues(e) ==
            Publishes(r, journal, e, TakenUp(r, Append(journal, e)), RunnerAway)
    IN  /\ launchRun[r].at = "load"
        /\ \/ journal = <<>> /\ Reservable(l) /\ Continues("reserved")
           \/ Loadable(l) /\ \E o \in Unrecorded(l) : Continues(o[2])
           \/ /\ \/ Loadable(l) /\ Unrecorded(l) = {} /\ Becomes(r, TakenUp(r, journal))
                 \/ /\ IF journal = <<>> THEN ~Reservable(l) ELSE ~Loadable(l)
                    /\ Becomes(r, RunnerAway)
              /\ NothingWritten /\ Outside /\ UNCHANGED launchSpent

(* require_codex_process_start_authority, for the two child processes.      *)
MayStart(r) ==
    LET l == launchRun[r].launch
    IN  /\ ~launchExpired
        /\ ~launchChief.live /\ launchChief.epoch = launchIssued[l].epoch
        /\ Recorded(l) = launchRun[r].journal

(* The pending callback of the next boundary.  An error in it proves that   *)
(* the effect was not made; for the child processes the controller says so  *)
(* (_callback_attempt_method).                                               *)
Attempt(r) ==
    LET journal == launchRun[r].journal
        e == LaunchSteps[Len(journal) + 1]
        child == Len(journal) + 1 <= 4
        failed == Going(r, "fault", journal, IF child THEN "callback" ELSE "error")
    IN  /\ launchRun[r].at = "step"
        /\ IF child /\ ~MayStart(r)
           THEN Becomes(r, failed) /\ NothingWritten /\ Outside /\ UNCHANGED launchSpent
           ELSE Publishes(r, journal, e, Going(r, "effect", Append(journal, e), "none"), failed)

(* The effect is made or fails to be made, and is answered, refused by a    *)
(* correlated error response, met by a reroute of the model, or the answer  *)
(* is lost (start, request, _wait_response).                                 *)
Effect(r) ==
    LET l == launchRun[r].launch
        journal == launchRun[r].journal
        i == Len(journal) \div 2
        Goes(at, cause) == Becomes(r, Going(r, at, journal, cause))
        Turns(s) == launchTurn' = IF i = 4 THEN [launchTurn EXCEPT ![l] = s] ELSE launchTurn
        Made == launchDid' = [launchDid EXCEPT ![l][i] = @ + 1]
    IN  /\ launchRun[r].at = "effect"
        /\ \/ Made /\ Turns("running") /\ (Goes("observe", "none") \/ Goes("fault", "error"))
           \/ i >= 3 /\ Made /\ Turns("rejected") /\ Goes("fault", "rejected")
           \/ i >= 3 /\ Made /\ Turns("rerouted") /\ Goes("fault", "rerouted")
           \/ UNCHANGED <<launchDid, launchTurn>> /\ Goes("fault", "error")
        /\ NothingWritten /\ UNCHANGED launchSpent

(* The callback that records the answer.                                     *)
Observe(r) ==
    LET journal == launchRun[r].journal
        e == LaunchSteps[Len(journal) + 1]
    IN  /\ launchRun[r].at = "observe"
        /\ Publishes(r, journal, e,
                     Going(r, IF e = "turn_started" THEN "turn" ELSE "step",
                          Append(journal, e), "none"),
                     Going(r, "fault", journal, "error"))

(* The turn ends and its stream is sealed, or that is lost, or the model is *)
(* rerouted (observe_turn, seal_reader_for_terminal_commit).                 *)
TurnEnds(r) ==
    LET l == launchRun[r].launch
        journal == launchRun[r].journal
        Turns(s) == launchTurn' = [launchTurn EXCEPT ![l] = s]
    IN  /\ launchRun[r].at = "turn"
        /\ \/ \E o \in {"completed", "failed", "interrupted"} :
                 /\ Turns(o)
                 /\ Becomes(r, Going(r, "ended", journal, o)) \/ Becomes(r, Going(r, "fault", journal, "error"))
           \/ Turns("rerouted") /\ Becomes(r, Going(r, "fault", journal, "rerouted"))
           \/ UNCHANGED launchTurn /\ Becomes(r, Going(r, "fault", journal, "error"))
        /\ NothingWritten /\ UNCHANGED <<launchDid, launchSpent>>

(* _record_observation; its error is not a runtime fault and leaves run.    *)
RecordEnd(r) ==
    LET journal == launchRun[r].journal
        o == launchRun[r].cause
    IN  /\ launchRun[r].at = "ended"
        /\ Publishes(r, journal, o, Going(r, "receipt", Append(journal, o), "none"), RunnerAway)

(* Between two boundaries: another executable, version or model list, a     *)
(* lost process.                                                             *)
Disagrees(r) ==
    /\ launchRun[r].at = "step"
    /\ Becomes(r, Going(r, "fault", launchRun[r].journal, "error"))
    /\ NothingWritten /\ Outside /\ UNCHANGED launchSpent

(* Fault: a fault before the turn started proves that nothing was started *)
VerdictOnStart(journal, cause) ==
    IF Last(journal) = "turn_started" /\ cause # "rerouted" THEN "runtime_unknown"
    ELSE "failed"

(* _terminalize_fault, in the run or for a launch found in the middle       *)
(* (reconcile_after_crash).                                                  *)
VerdictOn(journal, cause) ==
    IF cause \in {"rerouted", "callback"} THEN "failed"
    ELSE IF Last(journal) \in StartsPending /\ cause # "rejected" THEN "launch_unknown"
    ELSE IF Last(journal) = "turn_started" THEN "runtime_unknown"
    ELSE "failed"

Terminalize(r) ==
    LET journal == launchRun[r].journal
        v == VerdictOn(journal, launchRun[r].cause)
    IN  /\ launchRun[r].at = "fault"
        /\ Publishes(r, journal, v, Going(r, "receipt", Append(journal, v), "none"), RunnerAway)

(* _publish_runtime_terminal.                                                *)
PublishReceipt(r) ==
    /\ launchRun[r].at = "receipt"
    /\ Publishes(r, launchRun[r].journal, "receipt", RunnerAway, RunnerAway)

RunnerKilled(r) ==
    /\ launchRun[r].at \notin {"away", "load"}
    /\ Killed(r) /\ NothingWritten /\ Outside

LaunchNext ==
    \/ \E l \in Launches : IssueLaunch(l)
    \/ ChiefReleases \/ ChiefAcquires \/ LaunchExpires \/ OtherEvent
    \/ \E r \in Runners :
          \/ \E l \in Launches : EnterLaunch(r, l)
          \/ LoadLaunch(r) \/ Attempt(r) \/ Effect(r) \/ Observe(r) \/ TurnEnds(r)
          \/ RecordEnd(r) \/ Disagrees(r) \/ Terminalize(r) \/ PublishReceipt(r)
          \/ RunnerKilled(r)

LaunchSpec == LaunchInit /\ [][LaunchNext]_launchVars

-----------------------------------------------------------------------------
(* Properties                                                                *)

(* Each boundary of the packet is crossed at most once, whatever launches   *)
(* were issued for its arm, runs repeated and controllers killed, and never *)
(* before its pending event is on record ("must never trigger an automatic  *)
(* restart", docs/POLICY.md; run, require_codex_process_start_authority).   *)
StartedOnce ==
    \A i \in Boundaries : \A l \in Launches : launchDid[l][i] > 0 =>
        /\ launchDid[l][i] = 1
        /\ \A m \in Launches \ {l} : launchDid[m][i] = 0
        /\ Len(Recorded(l)) >= 2 * i /\ Recorded(l)[2 * i] = LaunchSteps[2 * i]

(* A verdict is true of the turn, and is given when no controller is at     *)
(* work on the launch any more: "failed" is never said of a turn that may   *)
(* be running on the sealed model (_terminalize_fault).                     *)
VerdictTrue ==
    \A l \in Launches :
        LET given == {Recorded(l)[i] : i \in DOMAIN Recorded(l)} \cap Verdicts
            t == launchTurn[l]
        IN  /\ "failed" \in given => t \in {"none", "rejected", "rerouted", "failed"}
            /\ given \cap {"completed", "interrupted"} \subseteq {t}
            /\ "runtime_unknown" \in given => t \notin {"none", "rejected"}
            /\ given # {} => \A r \in Runners :
                  launchRun[r].launch = l => launchRun[r].at \in {"load", "receipt"}

(* Both together.                                                            *)
LaunchesSound == StartedOnce /\ VerdictTrue

(* A reserved launch can always be loaded and brought to its receipt by     *)
(* another run, wherever the earlier ones were killed; not so when another  *)
(* command has appended past a pending binding, or when a controller went   *)
(* on after an error that left an object behind.                            *)
LaunchRecoverable ==
    \A l \in Launches : Recorded(l) # <<>> /\ ~Overtaken /\ launchTorn = {} =>
        Loadable(l) /\ \A b \in PendingBindings : b.launch = l
=============================================================================
