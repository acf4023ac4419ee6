---------------------------- MODULE ServiceQueue ----------------------------
(***************************************************************************)
(* The resident service's hand-off from HTTP workers to the owner thread.   *)
(* A worker admits its request to a bounded priority queue under the        *)
(* admission lock and waits; the owner alone takes requests, commits them   *)
(* and answers.  A stop may be asked for at any time, the owner's loop may  *)
(* fail, and when it ends it refuses what is left.                          *)
(*                                                                          *)
(* A department dispatch is two commits, its enqueue and its admission, of  *)
(* transaction ids no other request has.  What the client makes of an       *)
(* answer is the worker's answer or, when none came, "effect_unknown".      *)
(***************************************************************************)
EXTENDS Naturals, FiniteSets

CONSTANTS
    QueueRequests,  \* request -> "telemetry", "control", "dispatch" or "query"
    QueueMax,       \* places in the queue
    QueueReserve,   \* places telemetry may not take
    QueueStops      \* bound: stops asked for

ASSUME QueueAssumption ==
    /\ {QueueMax, QueueReserve, QueueStops} \subseteq Nat /\ QueueReserve < QueueMax
    /\ \A r \in DOMAIN QueueRequests :
          QueueRequests[r] \in {"telemetry", "control", "dispatch", "query"}
    /\ "nobody" \notin DOMAIN QueueRequests

QueueIds == DOMAIN QueueRequests

VARIABLES
    queueHeld,     \* requests in the queue, with the order they came in
    queueWakes,    \* sentinels in the queue
    queueCame,     \* requests admitted so far
    queueWaiting,  \* requests whose worker waits for the owner
    queueAnswer,   \* request -> what its client was told
    queueDone,     \* request -> commits it has in the ledger
    queueOwner,    \* where the owner's loop is, and its request
    queueStop,     \* the stop event
    queueStopped   \* stops asked for so far

queueVars == <<queueHeld, queueWakes, queueCame, queueWaiting, queueAnswer,
               queueDone, queueOwner, queueStop, queueStopped>>

Nobody == "nobody"
OwnerAt(step, r) == [step |-> step, request |-> r]

QueueInit ==
    /\ queueHeld = {} /\ queueWakes = 0 /\ queueCame = 0 /\ queueWaiting = {}
    /\ queueAnswer = [r \in QueueIds |-> "no answer"]
    /\ queueDone = [r \in QueueIds |-> 0]
    /\ queueOwner = OwnerAt("check", Nobody)
    /\ queueStop = FALSE /\ queueStopped = 0

Size == Cardinality(queueHeld) + queueWakes
Unsubmitted(r) == r \notin queueWaiting /\ queueAnswer[r] = "no answer"
Tell(r, answer) == queueAnswer' = [queueAnswer EXCEPT ![r] = answer]

(* HTTP workers.                                                             *)
(* Fault: the stop event is not looked at under the admission lock.         *)
AdmittedAfterStop(r) ==
    Size < IF QueueRequests[r] = "telemetry" THEN QueueMax - QueueReserve ELSE QueueMax

Admitted(r) ==
    /\ ~queueStop
    /\ Size < IF QueueRequests[r] = "telemetry" THEN QueueMax - QueueReserve ELSE QueueMax

Submit(r) ==
    /\ Unsubmitted(r)
    /\ IF Admitted(r)
       THEN /\ queueHeld' = queueHeld \cup {<<queueCame, r>>} /\ queueCame' = queueCame + 1
            /\ queueWaiting' = queueWaiting \cup {r}
            /\ UNCHANGED queueAnswer
       ELSE /\ Tell(r, "none")
            /\ UNCHANGED <<queueHeld, queueCame, queueWaiting>>
    /\ UNCHANGED <<queueWakes, queueDone, queueOwner, queueStop, queueStopped>>

(* Fault: a request that timed out in the queue is answered as refused.     *)
TimedOutRefused(r) == "none"

TimedOut(r) == IF QueueRequests[r] = "query" THEN "none" ELSE "effect_unknown"

WaitTimesOut(r) ==
    /\ r \in queueWaiting
    /\ queueWaiting' = queueWaiting \ {r} /\ Tell(r, TimedOut(r))
    /\ UNCHANGED <<queueHeld, queueWakes, queueCame, queueDone, queueOwner,
                   queueStop, queueStopped>>

RequestStop ==
    /\ queueStopped < QueueStops /\ queueStopped' = queueStopped + 1
    /\ queueStop' = TRUE
    /\ queueWakes' = IF Size < QueueMax THEN queueWakes + 1 ELSE queueWakes
    /\ UNCHANGED <<queueHeld, queueCame, queueWaiting, queueAnswer, queueDone, queueOwner>>

(* The owner.                                                                *)
Priority(e) == IF QueueRequests[e[2]] = "telemetry" THEN 1 ELSE 0
Before(e, f) == Priority(e) < Priority(f) \/ (Priority(e) = Priority(f) /\ e[1] < f[1])
First(e) == e \in queueHeld /\ \A f \in queueHeld \ {e} : Before(e, f)

Owner(step) == queueOwner.step = step
OwnerGoes(step, r) == queueOwner' = OwnerAt(step, r)

(* done.set(): the worker that still waits gets the answer.                 *)
Answers(r, answer) ==
    /\ queueWaiting' = queueWaiting \ {r}
    /\ IF r \in queueWaiting THEN Tell(r, answer) ELSE UNCHANGED queueAnswer

CheckStop ==
    /\ Owner("check")
    /\ OwnerGoes(IF queueStop THEN "drain" ELSE "get", Nobody)
    /\ UNCHANGED <<queueHeld, queueWakes, queueCame, queueWaiting, queueAnswer,
                   queueDone, queueStop, queueStopped>>

TakeRequest ==
    /\ Owner("get")
    /\ \/ /\ queueWakes > 0 /\ queueWakes' = queueWakes - 1
          /\ OwnerGoes("check", Nobody) /\ UNCHANGED queueHeld
       \/ /\ queueWakes = 0 /\ queueHeld = {}
          /\ OwnerGoes("check", Nobody) /\ UNCHANGED <<queueHeld, queueWakes>>
       \/ /\ queueWakes = 0
          /\ \E e \in queueHeld : First(e) /\ queueHeld' = queueHeld \ {e}
                                  /\ OwnerGoes("execute", e[2])
          /\ UNCHANGED queueWakes
    /\ UNCHANGED <<queueCame, queueWaiting, queueAnswer, queueDone, queueStop, queueStopped>>

ExecuteStopping ==
    LET r == queueOwner.request IN
    /\ Owner("execute") /\ queueStop
    /\ Answers(r, "none") /\ OwnerGoes("check", Nobody)
    /\ UNCHANGED <<queueHeld, queueWakes, queueCame, queueDone, queueStop, queueStopped>>

(* The stop was not seen: it may be asked for from here on.                 *)
ExecuteBegins ==
    /\ Owner("execute") /\ ~queueStop
    /\ OwnerGoes("commit", queueOwner.request)
    /\ UNCHANGED <<queueHeld, queueWakes, queueCame, queueWaiting, queueAnswer,
                   queueDone, queueStop, queueStopped>>

(* A commit succeeds, is rejected or conflicts without an effect, fails     *)
(* after it committed (projection or dashboard), or has an effect that is   *)
(* not known.                                                               *)
Commits(r) == queueDone' = [queueDone EXCEPT ![r] = @ + 1]

CommitRequest ==
    LET r == queueOwner.request IN
    /\ Owner("commit") /\ QueueRequests[r] \in {"telemetry", "control"}
    /\ \/ Commits(r) /\ Answers(r, "committed")
       \/ Commits(r) /\ Answers(r, "effect_unknown")
       \/ UNCHANGED queueDone /\ Answers(r, "effect_unknown")
       \/ UNCHANGED queueDone /\ Answers(r, "none")
    /\ OwnerGoes("check", Nobody)
    /\ UNCHANGED <<queueHeld, queueWakes, queueCame, queueStop, queueStopped>>

Readback ==
    /\ Owner("commit") /\ QueueRequests[queueOwner.request] = "query"
    /\ Answers(queueOwner.request, "none") /\ OwnerGoes("check", Nobody)
    /\ UNCHANGED <<queueHeld, queueWakes, queueCame, queueDone, queueStop, queueStopped>>

(* The enqueue; a failure of it is answered by what is known of it.         *)
Enqueue ==
    LET r == queueOwner.request IN
    /\ Owner("commit") /\ QueueRequests[r] = "dispatch"
    /\ \/ /\ Commits(r) /\ OwnerGoes("admit", r)
          /\ UNCHANGED <<queueWaiting, queueAnswer>>
       \/ /\ UNCHANGED queueDone /\ Answers(r, "none") /\ OwnerGoes("check", Nobody)
       \/ /\ Commits(r) \/ UNCHANGED queueDone
          /\ Answers(r, "effect_unknown") /\ OwnerGoes("check", Nobody)
    /\ UNCHANGED <<queueHeld, queueWakes, queueCame, queueStop, queueStopped>>

AdmissionFailed == "effect_unknown"

(* The admission of what was enqueued: admitted, queued for want of         *)
(* capacity, or failed in any way.                                          *)
Admit ==
    LET r == queueOwner.request IN
    /\ Owner("admit")
    /\ \/ (Commits(r) \/ UNCHANGED queueDone) /\ Answers(r, "committed")
       \/ (Commits(r) \/ UNCHANGED queueDone) /\ Answers(r, AdmissionFailed)
    /\ OwnerGoes("check", Nobody)
    /\ UNCHANGED <<queueHeld, queueWakes, queueCame, queueStop, queueStopped>>

(* The loop fails outside a request (a dashboard refresh), or inside one    *)
(* with what no handler catches: the request is answered without a result.  *)
OwnerFails ==
    /\ queueOwner.step \in {"check", "commit", "admit"}
    /\ IF Owner("check") THEN UNCHANGED <<queueWaiting, queueAnswer>>
       ELSE Answers(queueOwner.request, TimedOut(queueOwner.request))
    /\ OwnerGoes("drain", Nobody)
    /\ UNCHANGED <<queueHeld, queueWakes, queueCame, queueDone, queueStop, queueStopped>>

(* Under the admission lock: the stop is set and what is queued is refused. *)
StopAndFailPending ==
    /\ Owner("drain") /\ OwnerGoes("closed", Nobody)
    /\ queueStop' = TRUE /\ queueWakes' = 0 /\ queueHeld' = {}
    /\ LET left == {e[2] : e \in queueHeld} \cap queueWaiting
       IN  /\ queueWaiting' = queueWaiting \ left
           /\ queueAnswer' = [r \in QueueIds |-> IF r \in left THEN "none" ELSE queueAnswer[r]]
    /\ UNCHANGED <<queueCame, queueDone, queueStopped>>

OwnerStep ==
    \/ CheckStop \/ TakeRequest \/ ExecuteStopping \/ ExecuteBegins
    \/ CommitRequest \/ Readback \/ Enqueue \/ Admit \/ StopAndFailPending

QueueNext ==
    \/ \E r \in QueueIds : Submit(r) \/ WaitTimesOut(r)
    \/ RequestStop \/ OwnerStep \/ OwnerFails

(* The owner is one thread of a live process: it keeps running.             *)
QueueFairness == WF_queueVars(OwnerStep)

QueueSpec == QueueInit /\ [][QueueNext]_queueVars /\ QueueFairness

(* Properties.                                                               *)

(* A client told that its request had no effect has none of its commits in   *)
(* the ledger and no request left that the owner could still execute; one    *)
(* told "committed" has (the known-no-effect matrix of the control API,      *)
(* _await_operation, _execute_department_dispatch).                          *)
AnswersSound ==
    \A r \in QueueIds :
        /\ queueAnswer[r] = "none" /\ QueueRequests[r] # "query" =>
              /\ queueDone[r] = 0 /\ queueOwner.request # r
              /\ \A e \in queueHeld : e[2] # r
        /\ queueAnswer[r] = "committed" => queueDone[r] > 0
        /\ queueDone[r] <= IF QueueRequests[r] = "dispatch" THEN 2 ELSE 1

(* A worker that was admitted is answered by the owner even if it never      *)
(* times out, whenever the stop comes and wherever the loop fails            *)
(* (_stop_and_fail_pending_operations, "a stop could not pass an empty drain *)
(* and leave a later request without an owner").                             *)
WaitersAnswered ==
    \A r \in QueueIds : r \in queueWaiting ~> r \notin queueWaiting
=============================================================================
