--------------------------- MODULE PacketDispatch ---------------------------
(***************************************************************************)
(* The delegation packets of one task, the arms that wait for a sub-agent   *)
(* to start, the SubagentStart hook that consumes them, and the jobs that   *)
(* packets own: the packet, job and incident records of one task document,  *)
(* and the session mapping files beside it.                                 *)
(*                                                                          *)
(* Every command and every hook holds the project state lock from its first *)
(* read to its last write, so each is one step.  Commands run under a live  *)
(* Chief lease; hooks run whenever the transport reports a start, any       *)
(* number of times and in any order.  A handler that writes a mapping file  *)
(* before the task document, or the document before it removes mapping      *)
(* files, may be killed in between: cut is that outcome.                    *)
(*                                                                          *)
(* One execution selection governs the task.  The job statuses queued,      *)
(* running and unknown are "active".  Packets the Codex transport owns,     *)
(* resource limits, the contract file of a packet and its evidence are left *)
(* out.                                                                     *)
(***************************************************************************)
EXTENDS Naturals, Sequences, FiniteSets

CONSTANTS
    Packets,    \* packet ids
    Parent,     \* the packet a depth-two packet belongs to, None at depth one
    Lane,       \* the lane of each packet
    Lanes,      \* the specialist lanes of the execution selection
    Synthesis,  \* the Steward synthesis packets
    Legacy,     \* packets whose record is still schema v4
    Budget,     \* helper_spawn_budget of each packet
    Parallel,   \* mode centralized_parallel or hybrid, else single
    Jobs,       \* run ids
    Owner,      \* the exact_command packet that owns each job
    Roots,      \* root session ids
    Agents,     \* agent ids
    Events,     \* the starts the transport may report
    Wild,       \* WILDCARD_AGENT_TYPE
    Kinds,      \* the agent types an arm may expect, Wild among them
    Plans,      \* contents the plan file may have
    Root,       \* the mapping kind root_session
    None,       \* no file, no value
    Cuts,       \* bound: FALSE, and TRUE where handlers may be killed
    Unbound,    \* bound: the sessions unbind-session is called for
    Cited,      \* bound: the agents a cancellation may name
    MaxArms,    \* bound: arms of one packet
    MaxRecords  \* bound: Chief records

Depth1 == {p \in Packets : Parent[p] = None}
Sessions == Roots \cup Agents

Executing == {"armed", "dispatched"}
Active    == {"ready"} \cup Executing
Ended     == {"done", "failed", "cancelled"}

(* What an arm is valid under; nothing reads it once the arm is closed, and *)
(* the model then forgets it.                                               *)
Terms == [chief : 1..MaxRecords, plan : Plans, lapsed : BOOLEAN]

Attempts == [session : Sessions, kind : Kinds, terms : Terms \cup {None},
             status : {"armed", "consumed", "disarmed", "expired"},
             event : Events \cup {None}]

ASSUME DispatchAssumption ==
    /\ Parent \in [Packets -> Packets \cup {None}] /\ None \notin Packets
    /\ \A p \in Packets \ Depth1 :
          Parent[p] \in Depth1 \ Synthesis /\ Lane[p] = Lane[Parent[p]]
    /\ Synthesis \subseteq Depth1 /\ Legacy \subseteq Packets \ Synthesis
    /\ \A p \in Packets : Budget[p] \in Nat
    /\ \A p \in Packets : Budget[p] > 0 => p \in Depth1 \ Synthesis
    /\ Owner \in [Jobs -> Depth1 \ Synthesis]
    /\ Roots \cap Agents = {}
    /\ None \notin Sessions \cup Plans \cup Events \cup Terms
    /\ Root \notin Packets \cup {None}
    /\ \A e \in Events :
          e.session \in Sessions /\ e.agent \in Agents /\ e.kind # Wild
    /\ Cuts \subseteq BOOLEAN /\ Unbound \subseteq Sessions /\ Cited \subseteq Agents
    /\ MaxArms \in Nat /\ MaxRecords \in Nat \ {0}

VARIABLES
    task,       \* "open" (active, blocked) or "closed" (done, cancelled)
    plan,       \* the approved plan (plan_sha256), None before approval
    file,       \* the plan file
    chief,      \* the Chief record's number and whether its lease is live
    status,     \* status of each packet, "none" before it is created
    agent,      \* agent_id
    origin,     \* dispatch_provenance
    arms,       \* dispatch_attempts
    bound,      \* steward_input_bindings
    incidents,  \* subagent_incidents, by event
    resumed,    \* agent_resumptions of each packet
    helpers,    \* helper_spawns of each packet
    jobs,       \* "none", "active" or "final"
    mapped,     \* the session mapping files
    linked      \* session_ids and subagent_parent_session_ids

authority == <<plan, file, chief>>
packets   == <<status, agent, origin, arms, bound>>
ledger    == <<incidents, resumed, helpers>>
sessions  == <<mapped, linked>>
vars == <<task, authority, packets, ledger, jobs, sessions>>

-----------------------------------------------------------------------------
(* Authority *)

(* A fenced command was admitted under a live lease.                        *)
Commanded == chief.live /\ task = "open"

(* require_plan_ready *)
PlanReady == plan # None /\ plan = file

(* require_root_session *)
RootBound(s) == s \in Roots /\ mapped[s] = Root /\ s \in linked

-----------------------------------------------------------------------------
(* Arms *)

Current(p) == CHOOSE i \in DOMAIN arms[p] : arms[p][i].status = "armed"
Arm(p)     == arms[p][Current(p)]

(* The arm of p closed with a status and the event that consumed it         *)
Closing(p, s, e) == [arms[p] EXCEPT ![Current(p)].status = s,
                                    ![Current(p)].event = e,
                                    ![Current(p)].terms = None]

(* expire_dispatch_arms *)
Overdue     == {p \in Packets : status[p] = "armed" /\ Arm(p).terms.lapsed}
SweptStatus == [p \in Packets |-> IF p \in Overdue THEN "ready" ELSE status[p]]
SweptArms   == [p \in Packets |-> IF p \in Overdue THEN Closing(p, "expired", None)
                                                   ELSE arms[p]]

(* Fault: a wildcard contends only with another wildcard *)
ContendExact(k, l) == k = l

(* A wildcard on either side owns the whole parent slot.                    *)
Contend(k, l) == Wild \in {k, l} \/ k = l

(* matching_armed_packets, after the sweep *)
Matches(a, e) == a.session = e.session /\ a.kind \in {Wild, e.kind}
Candidates(e) == {p \in Packets : SweptStatus[p] = "armed" /\ Matches(Arm(p), e)}
Missed(e)     == {p \in Overdue : Matches(Arm(p), e)}
-----------------------------------------------------------------------------
(* The execution topology *)

Bindings == {<<q, status[q]>> : q \in {r \in Packets \ Synthesis : status[r] \in Ended}}

(* Fault: specialists may join again once the synthesis is done *)
FrozenWhileActive == \E p \in Synthesis : status[p] \in Active

(* _selection_synthesis_freeze_packet_ids is not empty *)
Frozen == \E p \in Synthesis : status[p] \in Active \cup {"done"}

(* No specialist work is left and every selected lane has an ended packet.  *)
SpecialistsEnded ==
    /\ \A q \in Packets \ Synthesis : status[q] \notin Active
    /\ \A j \in Jobs : jobs[j] # "active"
    /\ {Lane[b[1]] : b \in Bindings} = Lanes

(* _validate_packet_activation_topology, for the statuses st: a hook and an *)
(* arm judge them after the sweep, packet-update and the jobs before it.    *)
Peers(p, st) == {q \in Depth1 \ {p} : st[q] \in Executing}

Activation(p, st) ==
    IF p \in Depth1
    THEN IF p \in Synthesis
         THEN Peers(p, st) = {} /\ bound[p] = Bindings /\ SpecialistsEnded
         ELSE /\ Peers(p, st) \cap Synthesis = {}
              /\ \A q \in Peers(p, st) : Parallel /\ Lane[q] # Lane[p]
    ELSE /\ st[Parent[p]] = "dispatched"
         /\ \A q \in Packets \ {p} : Parent[q] = Parent[p] => st[q] \notin Executing

(* Fault: only packets keep their parent from ending *)
UnburdenedByPackets(p) ==
    \A q \in Packets : Parent[q] = p => status[q] \notin Executing

(* A depth-one packet without executing children and active jobs            *)
Unburdened(p) ==
    /\ \A q \in Packets : Parent[q] = p => status[q] \notin Executing
    /\ \A j \in Jobs : Owner[j] = p => jobs[j] # "active"

(* Fault: the arm is not compared with the current Chief record *)
ValidArmAnyChief(p, st) ==
    /\ ~Arm(p).terms.lapsed
    /\ chief.live
    /\ PlanReady /\ Arm(p).terms.plan = plan
    /\ Activation(p, st)

(* _validate_current_dispatch_arm *)
ValidArm(p, st) ==
    /\ ~Arm(p).terms.lapsed
    /\ chief.live /\ Arm(p).terms.chief = chief.record
    /\ PlanReady /\ Arm(p).terms.plan = plan
    /\ Activation(p, st)

(* ensure_subagent_parent_mapping_unlocked refuses another packet's agent.  *)
Mappable(p, a)  == mapped[a] \in {None, p}
Mapping(p, a)   == [mapped EXCEPT ![a] = p]

-----------------------------------------------------------------------------
Init ==
    /\ task = "open"
    /\ plan = None /\ file \in Plans
    /\ chief = [record |-> 1, live |-> TRUE]
    /\ status = [p \in Packets |-> "none"]
    /\ agent = [p \in Packets |-> None]
    /\ origin = [p \in Packets |-> "none"]
    /\ arms = [p \in Packets |-> <<>>]
    /\ bound = [p \in Packets |-> {}]
    /\ incidents = [e \in Events |-> "none"]
    /\ resumed = [p \in Packets |-> {}]
    /\ helpers = [p \in Packets |-> {}]
    /\ jobs = [j \in Jobs |-> "none"]
    /\ mapped = [s \in Sessions |-> None]
    /\ linked = {}

(* A renewal, an acquisition or a takeover publishes another Chief record;  *)
(* an expiry or a release ends the lease.                                   *)
NewChief ==
    /\ chief.record < MaxRecords
    /\ chief' = [record |-> chief.record + 1, live |-> TRUE]
    /\ UNCHANGED <<task, plan, file, packets, ledger, jobs, sessions>>

ChiefLapse ==
    /\ chief.live
    /\ chief' = [chief EXCEPT !.live = FALSE]
    /\ UNCHANGED <<task, plan, file, packets, ledger, jobs, sessions>>

(* The plan file is edited, by anyone, and may be edited back.              *)
EditPlan ==
    /\ file' \in Plans \ {file}
    /\ UNCHANGED <<task, plan, chief, packets, ledger, jobs, sessions>>

ApprovePlan ==
    /\ Commanded
    /\ plan' = file
    /\ UNCHANGED <<task, file, chief, packets, ledger, jobs, sessions>>

(* The clock passes the expiry of an arm.                                   *)
ArmLapse(p) ==
    /\ status[p] = "armed"
    /\ arms' = [arms EXCEPT ![p][Current(p)].terms.lapsed = TRUE]
    /\ UNCHANGED <<task, authority, status, agent, origin, bound, ledger, jobs, sessions>>

BindSession(s, cut) ==
    /\ Commanded /\ s \in Roots
    /\ mapped' = [mapped EXCEPT ![s] = Root]
    /\ linked' = IF cut THEN linked ELSE linked \cup {s}
    /\ UNCHANGED <<task, authority, packets, ledger, jobs>>

UnbindSession(s, cut) ==
    /\ chief.live /\ mapped[s] # None /\ s \in Unbound
    /\ mapped' = [mapped EXCEPT ![s] = None]
    /\ linked' = IF cut \/ task = "closed" THEN linked ELSE linked \ {s}
    /\ UNCHANGED <<task, authority, packets, ledger, jobs>>

(* cmd_create_packet *)
CreatePacket(p) ==
    /\ Commanded /\ PlanReady /\ status[p] = "none"
    /\ p \notin Depth1 => status[Parent[p]] = "dispatched"
    /\ ~Frozen
    /\ p \in Synthesis => Parallel /\ SpecialistsEnded
    /\ status' = [status EXCEPT ![p] = "ready"]
    /\ bound' = [bound EXCEPT ![p] = IF p \in Synthesis THEN Bindings ELSE {}]
    /\ UNCHANGED <<task, authority, agent, origin, arms, ledger, jobs, sessions>>

(* cmd_packet_arm.  A depth-two arm first repairs the mapping of its        *)
(* parent's agent.                                                          *)
ArmPacket(p, s, k, cut) ==
    LET nested == p \notin Depth1 IN
    /\ Commanded /\ PlanReady
    /\ SweptStatus[p] = "ready" /\ Len(arms[p]) < MaxArms
    /\ IF nested THEN agent[Parent[p]] = s /\ Mappable(Parent[p], s) ELSE RootBound(s)
    /\ \A q \in Packets : SweptStatus[q] = "armed" /\ Arm(q).session = s
                             => ~Contend(k, Arm(q).kind)
    /\ Activation(p, SweptStatus)
    /\ cut => nested
    /\ mapped' = IF nested THEN Mapping(Parent[p], s) ELSE mapped
    /\ IF cut
       THEN UNCHANGED <<linked, status, arms>>
       ELSE /\ linked' = linked \cup {s}
            /\ status' = [SweptStatus EXCEPT ![p] = "armed"]
            /\ arms' = [SweptArms EXCEPT ![p] = Append(@,
                   [session |-> s, kind |-> k, status |-> "armed", event |-> None,
                    terms |-> [chief |-> chief.record, plan |-> plan, lapsed |-> FALSE]])]
    /\ UNCHANGED <<task, authority, agent, origin, bound, ledger, jobs>>

(* cmd_packet_disarm *)
DisarmPacket(p) ==
    /\ Commanded /\ status[p] = "armed"
    /\ status' = [status EXCEPT ![p] = "ready"]
    /\ arms' = [arms EXCEPT ![p] = Closing(p, "disarmed", None)]
    /\ UNCHANGED <<task, authority, agent, origin, bound, ledger, jobs, sessions>>
-----------------------------------------------------------------------------
(* observe_subagent_start *)

(* _load_mapped_task_unlocked finds this task. *)
Located(s) ==
    /\ mapped[s] # None /\ s \in linked
    /\ mapped[s] \in Packets => agent[mapped[s]] = s

ConsumedBy(e) == \E p \in Packets : \E i \in DOMAIN arms[p] : arms[p][i].event = e

(* A replay is answered from the record and changes nothing.                *)
Known(e) ==
    \/ ConsumedBy(e)
    \/ incidents[e] # "none"
    \/ \E p \in Packets : e \in resumed[p] \cup helpers[p]

Arrived(e) == Located(e.session) /\ ~Known(e)

(* initial_rejection_reason, then validate_observed_arm *)
Duplicate(e) == \E p \in Packets : SweptStatus[p] \in Executing /\ agent[p] = e.agent

Accepts(e, p) ==
    ~Duplicate(e) /\ Candidates(e) = {p} /\ ValidArm(p, SweptStatus)

(* _resumable_packet: the agent of a packet that runs under the same parent *)
Resumes(e, p) ==
    /\ SweptStatus[p] \in Executing /\ agent[p] = e.agent
    /\ \E i \in DOMAIN arms[p] :
          arms[p][i].status = "consumed" /\ arms[p][i].session = e.session

(* Fault: one helper more than the budget *)
HelpsOnceMore(e, p) ==
    /\ ~Duplicate(e) /\ Candidates(e) = {} /\ Missed(e) = {}
    /\ mapped[e.session] = p /\ SweptStatus[p] \in Executing
    /\ Cardinality(helpers[p]) <= Budget[p]

(* No arm was meant, and the parent's packet has budget left.               *)
Helps(e, p) ==
    /\ ~Duplicate(e) /\ Candidates(e) = {} /\ Missed(e) = {}
    /\ mapped[e.session] = p /\ SweptStatus[p] \in Executing
    /\ Cardinality(helpers[p]) < Budget[p]

Sweep == status' = SweptStatus /\ arms' = SweptArms

(* A depth-one dispatch writes the mapping file of its agent first; when    *)
(* that is refused the dispatch stands and nested delegation waits for a    *)
(* repair.                                                                  *)
Consume(e, p, cut) ==
    LET maps == p \in Depth1 /\ Mappable(p, e.agent) IN
    /\ Arrived(e) /\ Accepts(e, p)
    /\ cut => maps
    /\ mapped' = IF maps THEN Mapping(p, e.agent) ELSE mapped
    /\ IF cut
       THEN UNCHANGED <<linked, status, agent, origin, arms>>
       ELSE /\ linked' = IF maps THEN linked \cup {e.agent} ELSE linked
            /\ status' = [SweptStatus EXCEPT ![p] = "dispatched"]
            /\ arms' = [SweptArms EXCEPT ![p] = Closing(p, "consumed", e)]
            /\ agent' = [agent EXCEPT ![p] = e.agent]
            /\ origin' = [origin EXCEPT ![p] = "observed"]
    /\ UNCHANGED <<task, authority, bound, ledger, jobs>>

Resume(e, p) ==
    /\ Arrived(e) /\ Resumes(e, p)
    /\ resumed' = [resumed EXCEPT ![p] = @ \cup {e}]
    /\ Sweep
    /\ UNCHANGED <<task, authority, agent, origin, bound, incidents, helpers, jobs, sessions>>

SpawnHelper(e, p) ==
    /\ Arrived(e) /\ Helps(e, p)
    /\ helpers' = [helpers EXCEPT ![p] = @ \cup {e}]
    /\ Sweep
    /\ UNCHANGED <<task, authority, agent, origin, bound, incidents, resumed, jobs, sessions>>

(* record_subagent_incident: everything else is an unmanaged start.         *)
RecordIncident(e) ==
    /\ Arrived(e)
    /\ \A p \in Packets : ~(Accepts(e, p) \/ Resumes(e, p) \/ Helps(e, p))
    /\ incidents' = [incidents EXCEPT ![e] = "open"]
    /\ Sweep
    /\ UNCHANGED <<task, authority, agent, origin, bound, resumed, helpers, jobs, sessions>>

(* cmd_subagent_incident_account *)
AccountIncident(e) ==
    /\ Commanded /\ incidents[e] = "open" /\ \E s \in Roots : RootBound(s)
    /\ incidents' = [incidents EXCEPT ![e] = "accounted"]
    /\ UNCHANGED <<task, authority, packets, resumed, helpers, jobs, sessions>>

-----------------------------------------------------------------------------
(* cmd_packet_update *)

LegacyReady(p) == p \in Legacy /\ status[p] = "ready" /\ arms[p] = <<>>

(* The manual registration of an agent nobody observed: under a valid arm,  *)
(* or of a ready packet whose record predates arms.                         *)
ManualDispatch(p, a, cut) ==
    /\ Commanded
    /\ \/ status[p] = "armed" /\ ValidArm(p, status)
       \/ LegacyReady(p) /\ Activation(p, status)
    /\ p \in Depth1 => Mappable(p, a)
    /\ cut => p \in Depth1
    /\ mapped' = IF p \in Depth1 THEN Mapping(p, a) ELSE mapped
    /\ IF cut
       THEN UNCHANGED <<linked, status, agent, origin, arms>>
       ELSE /\ linked' = IF p \in Depth1 THEN linked \cup {a} ELSE linked
            /\ status' = [status EXCEPT ![p] = "dispatched"]
            /\ agent' = [agent EXCEPT ![p] = a]
            /\ origin' = [origin EXCEPT ![p] = "manual"]
            /\ arms' = [arms EXCEPT ![p] = IF status[p] = "armed"
                                           THEN Closing(p, "disarmed", None) ELSE @]
    /\ UNCHANGED <<task, authority, bound, ledger, jobs>>

(* Fault: the repair takes the agent id the command line names *)
RepairMappingRenaming(p, cut) ==
    \E a \in Agents :
        /\ Commanded /\ p \in Depth1 /\ status[p] = "dispatched"
        /\ Activation(p, status) /\ Mappable(p, a)
        /\ mapped' = Mapping(p, a) /\ linked' = linked \cup {a}
        /\ agent' = [agent EXCEPT ![p] = a]
        /\ UNCHANGED <<task, authority, status, origin, arms, bound, ledger, jobs>>

(* dispatched -> dispatched writes a mapping that was deferred or removed.  *)
RepairMapping(p, cut) ==
    /\ Commanded /\ p \in Depth1 /\ status[p] = "dispatched"
    /\ Activation(p, status) /\ Mappable(p, agent[p])
    /\ mapped' = Mapping(p, agent[p])
    /\ linked' = IF cut THEN linked ELSE linked \cup {agent[p]}
    /\ UNCHANGED <<task, authority, packets, ledger, jobs>>

(* A packet that ran keeps its agent; one that is cancelled before it ran is *)
(* left with any agent the command line names.                              *)
EndPacket(p, s) ==
    /\ Commanded
    /\ \/ status[p] = "dispatched" /\ s \in Ended /\ UNCHANGED agent
       \/ /\ status[p] \in {"ready", "armed"} /\ s = "cancelled"
          /\ \/ UNCHANGED agent
             \/ \E a \in Cited : agent' = [agent EXCEPT ![p] = a]
    /\ p \in Depth1 => Unburdened(p)
    /\ status' = [status EXCEPT ![p] = s]
    /\ arms' = [arms EXCEPT ![p] = IF status[p] = "armed"
                                   THEN Closing(p, "disarmed", None) ELSE @]
    /\ origin' = [origin EXCEPT ![p] = IF LegacyReady(p) THEN "legacy_unverified" ELSE @]
    /\ UNCHANGED <<task, authority, bound, ledger, jobs, sessions>>

-----------------------------------------------------------------------------
(* cmd_job_start *)
StartJob(j) ==
    /\ Commanded /\ PlanReady /\ jobs[j] = "none"
    /\ ~Frozen
    /\ status[Owner[j]] = "dispatched" /\ Activation(Owner[j], status)
    /\ jobs' = [jobs EXCEPT ![j] = "active"]
    /\ UNCHANGED <<task, authority, packets, ledger, sessions>>

(* cmd_job_update to pass, fail or stopped *)
EndJob(j) ==
    /\ Commanded /\ jobs[j] = "active"
    /\ jobs' = [jobs EXCEPT ![j] = "final"]
    /\ UNCHANGED <<task, authority, packets, ledger, sessions>>

(* Fault: only packets that wait or run keep the task open *)
QuietExecuting ==
    /\ \A p \in Packets : status[p] \notin Executing
    /\ \A j \in Jobs : jobs[j] # "active"
    /\ \A e \in Events : incidents[e] # "open"

(* What close-task and cancel-task both demand                              *)
Quiet ==
    /\ \A p \in Packets : status[p] \notin Active
    /\ \A j \in Jobs : jobs[j] # "active"
    /\ \A e \in Events : incidents[e] # "open"

(* The document is written before unbind_all_sessions_unlocked removes the  *)
(* mapping files it lists; a kill leaves some of them.  close-task needs an *)
(* approved plan besides, cancel-task does not.                             *)
EndTask(left) ==
    /\ Commanded /\ Quiet
    /\ task' = "closed"
    /\ left \subseteq {s \in linked : mapped[s] # None}
    /\ left # {} => TRUE \in Cuts
    /\ mapped' = [s \in Sessions |-> IF s \in linked \ left THEN None ELSE mapped[s]]
    /\ UNCHANGED <<authority, packets, ledger, jobs, linked>>

Next ==
    \/ NewChief \/ ChiefLapse \/ EditPlan \/ ApprovePlan
    \/ \E p \in Packets : CreatePacket(p) \/ ArmLapse(p) \/ DisarmPacket(p)
    \/ \E s \in Sessions, cut \in Cuts : BindSession(s, cut) \/ UnbindSession(s, cut)
    \/ \E p \in Packets, s \in Sessions, k \in Kinds, cut \in Cuts : ArmPacket(p, s, k, cut)
    \/ \E p \in Packets, cut \in Cuts :
          \/ \E e \in Events : Consume(e, p, cut)
          \/ \E a \in Agents : ManualDispatch(p, a, cut)
          \/ RepairMapping(p, cut)
    \/ \E e \in Events : \/ RecordIncident(e) \/ AccountIncident(e)
                         \/ \E p \in Packets : Resume(e, p) \/ SpawnHelper(e, p)
    \/ \E p \in Packets, s \in Ended : EndPacket(p, s)
    \/ \E j \in Jobs : StartJob(j) \/ EndJob(j)
    \/ \E left \in SUBSET Sessions : EndTask(left)

Spec == Init /\ [][Next]_vars

-----------------------------------------------------------------------------
(* Every variable has the values the task document and the files may hold.  *)
TypeOK ==
    /\ task \in {"open", "closed"}
    /\ plan \in Plans \cup {None} /\ file \in Plans
    /\ chief \in [record : 1..MaxRecords, live : BOOLEAN]
    /\ status \in [Packets -> {"none"} \cup Active \cup Ended]
    /\ agent \in [Packets -> Agents \cup {None}]
    /\ origin \in [Packets -> {"none", "observed", "manual", "legacy_unverified"}]
    /\ \A p \in Packets : Len(arms[p]) <= MaxArms
                          /\ \A i \in DOMAIN arms[p] : arms[p][i] \in Attempts
    /\ \A p \in Packets : bound[p] \subseteq (Packets \X Ended)
    /\ incidents \in [Events -> {"none", "open", "accounted"}]
    /\ resumed \in [Packets -> SUBSET Events] /\ helpers \in [Packets -> SUBSET Events]
    /\ jobs \in [Jobs -> {"none", "active", "final"}]
    /\ mapped \in [Sessions -> Packets \cup {Root, None}]
    /\ linked \subseteq Sessions

(* Whatever is armed, disarmed, overdue or rebound, no start ever meets two *)
(* arms: the reason ambiguous_arm is never recorded (packet-arm's collision *)
(* check keeps the slots of one parent apart).                              *)
OneCandidate == \A e \in Events : Cardinality(Candidates(e)) <= 1

(* A start the transport reports again and again, before and after arms     *)
(* come and go, is on the record once: it consumed one arm, or resumed one  *)
(* packet, or is one helper, or is an incident (observe_subagent_start).    *)
AccountedOnce ==
    \A e \in Events :
        LET consumed == {o \in Packets \X (1..MaxArms) :
                            o[2] \in DOMAIN arms[o[1]] /\ arms[o[1]][o[2]].event = e}
            joined   == {p \in Packets : e \in resumed[p]}
            helping  == {p \in Packets : e \in helpers[p]} IN
        Cardinality(consumed) + Cardinality(joined) + Cardinality(helping)
            + (IF incidents[e] = "none" THEN 0 ELSE 1) <= 1

(* Work is nested and its chains are apart: a packet that is armed or runs  *)
(* has a running parent and no sibling, an active job has a running owner,  *)
(* synthesis runs alone, and two depth-one packets execute together only in *)
(* parallel mode and in different lanes (packet-update, packet-arm, hooks   *)
(* and jobs all change the statuses this is about).                         *)
WorkNested ==
    /\ \A p \in Packets : status[p] \in Executing => Activation(p, status)
    /\ \A j \in Jobs : jobs[j] = "active" => status[Owner[j]] = "dispatched"

(* The document every command leaves passes packet_integrity_errors: the    *)
(* open arms fit the status, a consumed arm fits the event that consumed it *)
(* and the agent of the packet, and a dispatch has the provenance its arms  *)
(* show.  Otherwise the task could never be closed nor cancelled.           *)
DocumentSound ==
    \A p \in Packets :
        LET having(s) == {i \in DOMAIN arms[p] : arms[p][i].status = s}
            events == {i \in DOMAIN arms[p] : arms[p][i].event # None} IN
        /\ Cardinality(having("armed")) = IF status[p] = "armed" THEN 1 ELSE 0
        /\ events = having("consumed")
        /\ \A i \in events : Matches(arms[p][i], arms[p][i].event)
        /\ status[p] \in {"ready", "armed"} => origin[p] = "none"
        /\ status[p] \in {"dispatched", "done", "failed"} => origin[p] \in {"observed", "manual"}
        /\ origin[p] \in {"observed", "manual"} => agent[p] # None
        /\ origin[p] = "manual" => events = {} /\ (having("disarmed") # {} \/ p \in Legacy)
        /\ origin[p] = "observed" => \E i \in events : events = {i} /\ arms[p][i].event.agent = agent[p]

(* Every start meets at most one arm, is accounted for once, and leaves a   *)
(* document that the validator accepts: OneCandidate, AccountedOnce and     *)
(* DocumentSound, which are about the same slots seen by packet-arm, by the *)
(* hooks and by close-task.                                                 *)
OffersSound == TypeOK /\ OneCandidate /\ AccountedOnce /\ DocumentSound

(* A packet's helpers stay within its budget and were all started by the    *)
(* packet's own agent, although the mapping of that agent may be removed,   *)
(* half written or written for another packet in the meantime.              *)
HelpersOwned ==
    \A p \in Packets : /\ Cardinality(helpers[p]) <= Budget[p]
                       /\ \A e \in helpers[p] : e.session = agent[p]

(* A synthesis packet that may still run, or succeeded, is bound to the     *)
(* ended specialist packets as they are: nothing joins them after it was    *)
(* created (the freeze in create-packet and job-start).                     *)
SynthesisCurrent ==
    \A p \in Synthesis : status[p] \in Active \cup {"done"} =>
        /\ bound[p] = Bindings
        /\ \A q \in Packets \ Synthesis : status[q] \notin Active

(* A closed task has no packet and no job that could still act, even when   *)
(* hooks arrive after the end through mapping files a killed close left.    *)
ClosedStaysQuiet ==
    task = "closed" => /\ \A p \in Packets : status[p] \notin Active
                       /\ \A j \in Jobs : jobs[j] # "active"

(* docs/POLICY.md: "Open incidents ... block close/cancel until the Chief   *)
(* records one of the explicit accounting dispositions": no task is closed  *)
(* with an open incident (and only an open task accounts for one).          *)
OpenIncidentBlocksClose ==
    task = "closed" => \A e \in Events : incidents[e] # "open"

(* Once a packet was dispatched its agent and its provenance stay, through  *)
(* repairs, resumptions and late events; once it ended so does its status.  *)
DispatchFinal ==
    [][\A p \in Packets :
          /\ status[p] \in {"dispatched"} \cup Ended
                => agent'[p] = agent[p] /\ origin'[p] = origin[p] /\ arms'[p] = arms[p]
          /\ status[p] \in Ended => status'[p] = status[p]]_vars

(* The arms are one-shot offers.  The record says "armed" until somebody    *)
(* looks; an arm is open only while its lease is the current one and its    *)
(* time is not over.  Plans are left to the take: one may be edited back.   *)
OfferIds == Packets \X (1..MaxArms)
Made(o)  == o[2] \in DOMAIN arms[o[1]]
Try(o)   == arms[o[1]][o[2]]
FateOf(o) ==
    IF ~Made(o) THEN "none"
    ELSE IF Try(o).status = "consumed" THEN "taken"
    ELSE IF Try(o).status = "armed" /\ ~Try(o).terms.lapsed
            /\ chief.live /\ Try(o).terms.chief = chief.record THEN "open"
    ELSE "withdrawn"
SlotOf(o)  == IF Made(o) THEN [session |-> Try(o).session, kind |-> Try(o).kind] ELSE None
TakerOf(o) == IF Made(o) THEN Try(o).event ELSE None
Clash(x, y) == x.session = y.session /\ Contend(x.kind, y.kind)

Offer == INSTANCE OneShotOffers WITH
    Offers <- OfferIds, Fits <- Matches, Contends <- Clash, Absent <- None,
    fate <- [o \in OfferIds |-> FateOf(o)],
    slot <- [o \in OfferIds |-> SlotOf(o)],
    taker <- [o \in OfferIds |-> TakerOf(o)]

(* Arming, disarming, expiry, hooks, manual dispatch and every change of    *)
(* the Chief lease together implement one-shot offers: an arm issued under  *)
(* a lease that has since changed is never consumed.                        *)
ImplementsOffers == Offer!Spec
=============================================================================
