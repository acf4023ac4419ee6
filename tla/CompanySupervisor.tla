------------------------- MODULE CompanySupervisor -------------------------
(***************************************************************************)
(* The supervisor's department dispatches and the invariants every company  *)
(* commit is reduced under: a request is queued, admitted, in flight and    *)
(* dispatched or failed; a department's lead runs on a carrier that is      *)
(* bound, fenced, parked, resumed or lost; one carrier is the Chief's, and  *)
(* a takeover prepared on a head may replace it.                            *)
(*                                                                          *)
(* A commit is one step here: the state owner serializes commits, and a     *)
(* head that moved refuses one (see CompanyState).  A department is its     *)
(* identity, lead node and snapshot, which change together.  A carrier is   *)
(* named by the request it was first bound for.  What the provider really   *)
(* runs is "worker"; the supervisor sees only its receipts, which a reader  *)
(* of this module may take to be true.  External jobs, registrations and    *)
(* helpers below the leads are left out.                                    *)
(***************************************************************************)
EXTENDS Naturals, FiniteSets

CONSTANTS
    Departments,   \* department -> the requests made for it
    ChiefCarriers, \* carriers that are or may become the Chief's
    FirstChief,    \* the one the company was founded with
    Capacity,      \* MAX_ACTIVE_CARRIERS
    Fanout,        \* MAX_MANAGER_ACTIVE_FANOUT
    NoCompany      \* no carrier, dispatch, execution or ticket

VARIABLES
    chief,      \* the carrier the Chief's term names
    chiefs,     \* Chief carrier -> its binding and whether it really runs
    ticket,     \* Chief carrier -> its takeover capability: fresh or stale
    department, \* department -> "active" or "parked"
    carrier,    \* request -> state of the lead carrier first bound for it
    dispatch,   \* request -> state of its dispatch
    doubt,      \* requests with an unresolved effect_unknown
    execution,  \* request -> the lead execution it created
    worker      \* request -> what its launch did at the provider

supervisorVars == <<chief, chiefs, ticket, department, carrier, dispatch, doubt,
                    execution, worker>>

Dispatches == UNION {Departments[d] : d \in DOMAIN Departments}
DeptOf(r)  == CHOOSE d \in DOMAIN Departments : r \in Departments[d]

CarrierStates  == {"active", "parked", "fenced", "lost"}
DispatchStates == {"queued", "admitted", "in_flight", "dispatched", "failed_known"}
Executions     == [by : Dispatches, runtime : {"running", "stopped", "lost"}, idle : BOOLEAN]

(* A request is made for one department, and there is room for the Chief.   *)
ASSUME SupervisorAssumption ==
    /\ Capacity \in Nat \ {0} /\ Fanout \in Nat
    /\ FirstChief \in ChiefCarriers
    /\ IsFiniteSet(ChiefCarriers) /\ IsFiniteSet(Dispatches)
    /\ \A d, e \in DOMAIN Departments : Departments[d] \cap Departments[e] # {} => d = e
    /\ NoCompany \notin CarrierStates \cup DispatchStates \cup Dispatches \cup Executions

SupervisorInit ==
    /\ chief = FirstChief
    /\ chiefs = [x \in ChiefCarriers |->
                    IF x = FirstChief THEN [state |-> "active", runs |-> TRUE]
                    ELSE [state |-> NoCompany, runs |-> FALSE]]
    /\ ticket = [x \in ChiefCarriers |-> NoCompany]
    /\ department = [d \in DOMAIN Departments |-> "parked"]
    /\ carrier = [r \in Dispatches |-> NoCompany]
    /\ dispatch = [r \in Dispatches |-> NoCompany]
    /\ doubt = {}
    /\ execution = [r \in Dispatches |-> NoCompany]
    /\ worker = [r \in Dispatches |-> [state |-> "none", on |-> NoCompany]]

-----------------------------------------------------------------------------
(* The reducer (invariants.py)                                               *)

HeldDispatches   == {r \in Dispatches : dispatch[r] \in {"admitted", "in_flight"}}
Occupied         == {r \in Dispatches : execution[r] # NoCompany
                                          /\ execution[r].runtime = "running"}
On(c)            == {r \in Dispatches : execution[r] # NoCompany /\ execution[r].by = c}
ActiveCarriers   == {c \in Dispatches : carrier[c] = "active"}
LiveCarriers(d)  == {c \in Departments[d] : carrier[c] \in {"active", "parked"}}

(* Fault: a running execution takes a slot only while its carrier is active. *)
SlotsOfActive ==
    {<<"carrier", c>> : c \in ActiveCarriers}
    \cup {<<"reservation", r>> : r \in HeldDispatches}
    \cup {<<"chief", x>> : x \in {y \in ChiefCarriers : chiefs[y].state = "active"}}

Slots ==
    {<<"carrier", c>> : c \in ActiveCarriers \cup {execution[r].by : r \in Occupied}}
    \cup {<<"reservation", r>> : r \in HeldDispatches}
    \cup {<<"chief", x>> : x \in {y \in ChiefCarriers :
                                     chiefs[y].state = "active" \/ chiefs[y].runs}}

(* The Chief's own node has no manager; every lead reports to the Chief.    *)
Targets == {DeptOf(r) : r \in Occupied \cup HeldDispatches}

(* An active carrier with no running execution cannot be put on a manager's *)
(* account; the Chief's carrier loses its execution and its state together. *)
Attributed == \A c \in ActiveCarriers : On(c) \cap Occupied # {}

(* commit: the reducer's bounds, and a head no prepared takeover expects.   *)
Committed ==
    /\ Cardinality(Slots') <= Capacity /\ Cardinality(Targets') <= Fanout
    /\ \A d \in DOMAIN Departments : Cardinality(LiveCarriers(d)') <= 1
    /\ ticket' = [x \in ChiefCarriers |->
                     IF ticket[x] = NoCompany THEN NoCompany ELSE "stale"]

(* a commit that makes a dispatch held or dispatched                        *)
Admission == Committed /\ Attributed'

(* _current_chief_mutation_context *)
ChiefMay == chiefs[chief].state = "active" /\ chiefs[chief].runs

Move(r, state) == dispatch' = [dispatch EXCEPT ![r] = state]

-----------------------------------------------------------------------------
(* A dispatch                                                                *)

(* enqueue_department_dispatch and resume_department, which wake a parked   *)
(* department                                                               *)
EnqueueDispatch(r) ==
    /\ dispatch[r] = NoCompany /\ ChiefMay
    /\ Move(r, "queued")
    /\ department' = [department EXCEPT ![DeptOf(r)] = "active"]
    /\ UNCHANGED <<chief, chiefs, carrier, doubt, execution, worker>>
    /\ Committed

(* _assert_department_dispatch_admission_available *)
Admissible(r) ==
    /\ dispatch[r] = "queued" /\ Attributed
    /\ Cardinality(Slots) < Capacity /\ Cardinality(Targets) < Fanout

AdmitDispatch(r) ==
    /\ Admissible(r)
    /\ Move(r, "admitted")
    /\ UNCHANGED <<chief, chiefs, department, carrier, doubt, execution, worker>>
    /\ Admission

BeginDispatch(r) ==
    /\ dispatch[r] = "admitted"
    /\ Move(r, "in_flight")
    /\ UNCHANGED <<chief, chiefs, department, carrier, doubt, execution, worker>>
    /\ Admission

(* The provider starts the worker, on the lead's parked carrier if it has   *)
(* one, or refuses; a launch nobody heard of may still happen late.         *)
LaunchWorker(r) ==
    /\ dispatch[r] = "in_flight" /\ worker[r].state = "none"
    /\ LET parked == {c \in LiveCarriers(DeptOf(r)) : carrier[c] = "parked"} IN
       \E c \in IF parked = {} THEN {r} ELSE parked :
          worker' = [worker EXCEPT ![r] = [state |-> "running", on |-> c]]
    /\ UNCHANGED <<chief, chiefs, ticket, department, carrier, dispatch, doubt, execution>>

RefuseLaunch(r) ==
    /\ dispatch[r] = "in_flight" /\ worker[r].state = "none"
    /\ worker' = [worker EXCEPT ![r].state = "refused"]
    /\ UNCHANGED <<chief, chiefs, ticket, department, carrier, dispatch, doubt, execution>>

WorkerRuns(r) == worker[r].state = "running"

EndWorker(r) ==
    /\ WorkerRuns(r)
    /\ worker' = [worker EXCEPT ![r].state = "ended"]
    /\ UNCHANGED <<chief, chiefs, ticket, department, carrier, dispatch, doubt, execution>>

(* dispatch_department_lead: a parked carrier is resumed, else a  *)
(* fresh one bound and the prior one fenced.                                *)
Rebind(r) ==
    LET c == worker[r].on  prior == LiveCarriers(DeptOf(r)) IN
    IF \E p \in prior : carrier[p] = "parked"
    THEN c \in prior /\ carrier' = [carrier EXCEPT ![c] = "active"]
    ELSE /\ carrier[c] = NoCompany
         /\ carrier' = [b \in Dispatches |-> IF b = c THEN "active"
                                              ELSE IF b \in prior THEN "fenced"
                                              ELSE carrier[b]]

RecordSuccess(r) ==
    /\ dispatch[r] = "in_flight" /\ worker[r].state \in {"running", "ended"}
    /\ Rebind(r)
    /\ Move(r, "dispatched")
    /\ execution' = [execution EXCEPT ![r] =
                        [by |-> worker[r].on, runtime |-> "running", idle |-> FALSE]]
    /\ doubt' = doubt \ {r}
    /\ UNCHANGED <<chief, chiefs, department, worker>>
    /\ Admission

(* fail_department_dispatch names no event it would resolve.                *)
RecordFailure(r) ==
    /\ dispatch[r] = "in_flight" /\ worker[r].state = "refused" /\ r \notin doubt
    /\ Move(r, "failed_known")
    /\ UNCHANGED <<chief, chiefs, department, carrier, doubt, execution, worker>>
    /\ Committed

(* mark_department_dispatch_effect_unknown: the current revision stays.     *)
MarkUnknown(r) ==
    /\ dispatch[r] = "in_flight" /\ r \notin doubt
    /\ doubt' = doubt \cup {r}
    /\ UNCHANGED <<chief, chiefs, department, carrier, dispatch, execution, worker>>
    /\ Committed

-----------------------------------------------------------------------------
(* A lead's execution and its department                                     *)

(* stop_department_execution *)
RecordStop(r) ==
    /\ r \in Occupied /\ ~WorkerRuns(r)
    /\ execution' = [execution EXCEPT ![r].runtime = "stopped"]
    /\ UNCHANGED <<chief, chiefs, department, carrier, dispatch, doubt, worker>>
    /\ Committed

(* record_department_execution_idle *)
RecordIdle(r) ==
    /\ execution[r] # NoCompany /\ execution[r].runtime = "stopped" /\ ~execution[r].idle
    /\ execution' = [execution EXCEPT ![r].idle = TRUE]
    /\ UNCHANGED <<chief, chiefs, department, carrier, dispatch, doubt, worker>>
    /\ Committed

(* record_execution_runtime_observation, "confirmed_lost": the carrier goes *)
(* with its last running execution; the engineering status stays active.    *)
ConfirmLost(r) ==
    /\ r \in Occupied /\ ~WorkerRuns(r)
    /\ execution' = [execution EXCEPT ![r].runtime = "lost"]
    /\ carrier' = IF On(execution[r].by) \cap Occupied = {r}
                  THEN [carrier EXCEPT ![execution[r].by] = "lost"] ELSE carrier
    /\ UNCHANGED <<chief, chiefs, department, dispatch, doubt, worker>>
    /\ Committed

Busy(r) == execution[r] # NoCompany
             /\ (execution[r].runtime = "running" \/ ~execution[r].idle)

(* _validate_department_park_preconditions, _department_execution_is_park_ready *)
Parkable(d) ==
    /\ department[d] = "active"
    /\ \A r \in Departments[d] : dispatch[r] \notin {"queued", "admitted", "in_flight"}
    /\ \A r \in Departments[d] : ~Busy(r)
    /\ \A c \in LiveCarriers(d) : \A r \in On(c) : execution[r].runtime = "stopped"

ParkDepartment(d) ==
    /\ ChiefMay /\ Parkable(d)
    /\ department' = [department EXCEPT ![d] = "parked"]
    /\ carrier' = [c \in Dispatches |-> IF c \in LiveCarriers(d) THEN "parked"
                                         ELSE carrier[c]]
    /\ UNCHANGED <<chief, chiefs, dispatch, doubt, execution, worker>>
    /\ Committed

-----------------------------------------------------------------------------
(* The Chief's carrier                                                       *)

(* record_current_chief_execution_stopped and its fenced counterpart, each  *)
(* on the provider's receipt of the exit                                   *)
StopChief(x) ==
    /\ chiefs[x].runs
    /\ chiefs' = [chiefs EXCEPT ![x] =
                     [state |-> IF @.state = "active" THEN "lost" ELSE @.state,
                      runs |-> FALSE]]
    /\ UNCHANGED <<chief, department, carrier, dispatch, doubt, execution, worker>>
    /\ Committed

(* prepare_chief_takeover commits nothing.                                  *)
PrepareTakeover(x) ==
    /\ chiefs[x].state = NoCompany
    /\ ticket' = [ticket EXCEPT ![x] = "fresh"]
    /\ UNCHANGED <<chief, chiefs, department, carrier, dispatch, doubt, execution, worker>>

(* takeover_chief: a capability is consumed by the winner or leaves a       *)
(* fenced loser, whose session runs on as a reader.                         *)
Takeover(x) == LET winner == ticket[x] = "fresh" IN
    /\ ticket[x] # NoCompany /\ chiefs[x].state = NoCompany
    /\ chief' = IF winner THEN x ELSE chief
    /\ chiefs' = [y \in ChiefCarriers |->
                    IF y = x THEN [state |-> IF winner THEN "active" ELSE "fenced",
                                   runs |-> TRUE]
                    ELSE IF winner /\ y = chief THEN [chiefs[y] EXCEPT !.state = "fenced"]
                    ELSE chiefs[y]]
    /\ UNCHANGED <<department, carrier, dispatch, doubt, execution, worker>>
    /\ Committed

SupervisorNext ==
    \/ \E r \in Dispatches :
          \/ EnqueueDispatch(r) \/ AdmitDispatch(r) \/ BeginDispatch(r)
          \/ LaunchWorker(r) \/ RefuseLaunch(r) \/ EndWorker(r)
          \/ RecordSuccess(r) \/ RecordFailure(r) \/ MarkUnknown(r)
          \/ RecordStop(r) \/ RecordIdle(r) \/ ConfirmLost(r)
    \/ \E d \in DOMAIN Departments : ParkDepartment(d)
    \/ \E x \in ChiefCarriers : StopChief(x) \/ PrepareTakeover(x) \/ Takeover(x)

SupervisorSpec == SupervisorInit /\ [][SupervisorNext]_supervisorVars

-----------------------------------------------------------------------------
(* Properties                                                                *)

(* Never more agents run than there are slots, those counted that run on    *)
(* fenced carriers, that a launch of unknown effect may have started, or    *)
(* that lost a takeover (reduce_company_invariants, MAX_ACTIVE_CARRIERS).   *)
WorkersBounded ==
    Cardinality({r \in Dispatches : WorkerRuns(r)})
      + Cardinality({x \in ChiefCarriers : chiefs[x].runs}) <= Capacity

(* A parked department is quiet whatever carriers it went through: nothing  *)
(* of it runs or is on its way, and none of its carriers is active          *)
(* (park_department).                                                       *)
ParkedQuiet ==
    \A d \in DOMAIN Departments : department[d] = "parked" =>
        \A r \in Departments[d] :
            ~WorkerRuns(r) /\ r \notin HeldDispatches /\ carrier[r] # "active"

(* A running agent is in flight or recorded as running on its carrier, and  *)
(* at most one carrier of a department is current, so a replaced lead that  *)
(* still runs is known to be fenced (dispatch_department_lead).              *)
LeadsKnown ==
    /\ \A r \in Dispatches : WorkerRuns(r) =>
          dispatch[r] = "in_flight" \/ (r \in Occupied /\ execution[r].by = worker[r].on)
    /\ \A c \in Dispatches : carrier[c] = "active" =>
          \A r \in Occupied : DeptOf(r) = DeptOf(c) /\ execution[r].by # c =>
              carrier[execution[r].by] = "fenced"

(* Both together.                                                           *)
LeadsAccounted == ParkedQuiet /\ LeadsKnown

(* Launches, takeovers, lost answers and confirmations in any order neither *)
(* start more agents than there are slots nor lose sight of one.            *)
DispatchesSound == WorkersBounded /\ LeadsAccounted

(* An idle department can be parked or can take up its queued work, when    *)
(* the Chief may act, slots are free and no dispatch is on its way          *)
(* (park_department, admit_department_dispatch; docs/v0.5-plan.md:237).     *)
IdleDepartmentsMoveOn ==
    \A d \in DOMAIN Departments :
        /\ ChiefMay /\ department[d] = "active"
        /\ HeldDispatches = {} /\ \A r \in Dispatches : ~Busy(r)
        /\ Cardinality(Slots) < Capacity /\ Cardinality(Targets) < Fanout
        => Parkable(d) \/ \E r \in Departments[d] : Admissible(r)
=============================================================================
