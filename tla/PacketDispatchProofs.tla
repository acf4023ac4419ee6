------------------------ MODULE PacketDispatchProofs ------------------------
(***************************************************************************)
(* What the packets of a task may do together, for every tree of packets,   *)
(* every set of starts, sessions and jobs: work is nested, a synthesis is   *)
(* current, a closed task is quiet, a dispatch is final and helpers belong  *)
(* to the agent of their packet.                                            *)
(***************************************************************************)
EXTENDS PacketDispatch, FiniteSetTheorems, SequenceTheorems, TLAPS

Statuses == {"none"} \cup Active \cup Ended

(* The part of the types the proofs need: the shape of the records.         *)
Shapes ==
    /\ status \in [Packets -> Statuses]
    /\ agent \in [Packets -> Agents \cup {None}]
    /\ origin = [p \in Packets |-> origin[p]]
    /\ arms = [p \in Packets |-> arms[p]]
    /\ bound = [p \in Packets |-> bound[p]]
    /\ helpers = [p \in Packets |-> helpers[p]]
    /\ jobs \in [Jobs -> {"none", "active", "final"}]

(* The statuses once some arms were closed: by the sweep, or by a disarm.   *)
Relaxed(st) ==
    /\ st \in [Packets -> Statuses]
    /\ \A q \in Packets : st[q] = status[q] \/ (status[q] = "armed" /\ st[q] = "ready")

LEMMA SweepRelaxes ==
    ASSUME Shapes
    PROVE  Relaxed(SweptStatus)
BY DEF Shapes, Relaxed, SweptStatus, Overdue, Statuses, Active, Executing

LEMMA StatusRelaxes ==
    ASSUME Shapes
    PROVE  Relaxed(status)
BY DEF Shapes, Relaxed

(* A specialist that has not ended keeps the bindings as they are.          *)
LEMMA BindingsFrame ==
    ASSUME \A q \in Packets \ Synthesis :
              /\ status'[q] \in Ended <=> status[q] \in Ended
              /\ status[q] \in Ended => status'[q] = status[q]
    PROVE  Bindings' = Bindings
<1>1. {r \in Packets \ Synthesis : status'[r] \in Ended}
        = {r \in Packets \ Synthesis : status[r] \in Ended}
  OBVIOUS
<1>2. \A q \in {r \in Packets \ Synthesis : status[r] \in Ended} : status'[q] = status[q]
  OBVIOUS
<1> QED BY <1>1, <1>2 DEF Bindings

(* Work that is nested, a synthesis that is current and a quiet closed task *)
(* are one invariant: the freeze is what keeps a synthesis alone.           *)
NestInv == Shapes /\ WorkNested /\ SynthesisCurrent /\ ClosedStaysQuiet

(* The parts of Activation, by the kind of packet.                          *)
LEMMA ActivationParts ==
    ASSUME NEW p \in Packets, NEW st
    PROVE  /\ p \in Synthesis /\ p \in Depth1 =>
                (Activation(p, st) <=> /\ \A q \in Depth1 \ {p} : st[q] \notin Executing
                                       /\ bound[p] = Bindings /\ SpecialistsEnded)
           /\ p \in Depth1 \ Synthesis =>
                (Activation(p, st) <=>
                    \A q \in Depth1 \ {p} : st[q] \in Executing =>
                        q \notin Synthesis /\ Parallel /\ Lane[q] # Lane[p])
           /\ p \notin Depth1 =>
                (Activation(p, st) <=>
                    /\ st[Parent[p]] = "dispatched"
                    /\ \A q \in Packets \ {p} : Parent[q] = Parent[p] => st[q] \notin Executing)
<1>1. ASSUME p \in Synthesis, p \in Depth1
      PROVE  Activation(p, st) <=> /\ \A q \in Depth1 \ {p} : st[q] \notin Executing
                                   /\ bound[p] = Bindings /\ SpecialistsEnded
  BY <1>1 DEF Activation, Peers
<1>2. ASSUME p \in Depth1 \ Synthesis
      PROVE  Activation(p, st) <=>
                    \A q \in Depth1 \ {p} : st[q] \in Executing =>
                        q \notin Synthesis /\ Parallel /\ Lane[q] # Lane[p]
  BY <1>2 DEF Activation, Peers
<1>3. ASSUME p \notin Depth1
      PROVE  Activation(p, st) <=>
                    /\ st[Parent[p]] = "dispatched"
                    /\ \A q \in Packets \ {p} : Parent[q] = Parent[p] => st[q] \notin Executing
  BY <1>3 DEF Activation
<1> QED BY <1>1, <1>2, <1>3

(* Statuses that stay active, or stay what they are, disturb no binding and *)
(* no current synthesis.                                                    *)
SameEnds ==
    \A q \in Packets : \/ status'[q] = status[q]
                       \/ status[q] \in Active /\ status'[q] \in Active

LEMMA SameEndsKeep ==
    ASSUME SynthesisCurrent, SameEnds, bound' = bound, jobs' = jobs
    PROVE  /\ Bindings' = Bindings
           /\ SpecialistsEnded' <=> SpecialistsEnded
           /\ SynthesisCurrent'
<1>1. \A q \in Packets : /\ status'[q] \in Active <=> status[q] \in Active
                         /\ status'[q] \in Ended <=> status[q] \in Ended
                         /\ status[q] \in Ended => status'[q] = status[q]
                         /\ status[q] = "done" <=> status'[q] = "done"
  BY DEF SameEnds, Active, Ended, Executing
<1>2. Bindings' = Bindings
  BY <1>1, BindingsFrame
<1>3. SpecialistsEnded' <=> SpecialistsEnded
  BY <1>1, <1>2 DEF SpecialistsEnded
<1>4. ASSUME NEW p \in Synthesis, status'[p] \in Active \cup {"done"}
      PROVE  bound'[p] = Bindings' /\ \A q \in Packets \ Synthesis : status'[q] \notin Active
  <2>1. p \in Packets
    BY DispatchAssumption DEF Depth1
  <2>2. status[p] \in Active \cup {"done"}
    BY <1>1, <1>4, <2>1
  <2> QED BY <1>1, <1>2, <2>2 DEF SynthesisCurrent
<1> QED BY <1>2, <1>3, <1>4 DEF SynthesisCurrent

(* Closing arms.                                                             *)
LEMMA RelaxKeeps ==
    ASSUME NestInv, Shapes', NEW st, Relaxed(st),
           status' = st, bound' = bound, jobs' = jobs, task' = task
    PROVE  NestInv'
<1>1. \A q \in Packets : \/ status'[q] = status[q]
                         \/ status[q] = "armed" /\ status'[q] = "ready"
  BY DEF Relaxed
<1>2. SameEnds
  BY <1>1 DEF SameEnds, Active, Executing
<1>3. /\ Bindings' = Bindings /\ SynthesisCurrent'
      /\ SpecialistsEnded' <=> SpecialistsEnded
  BY <1>2, SameEndsKeep DEF NestInv
<1>4. \A q \in Packets : /\ status'[q] \in Executing => status[q] \in Executing
                         /\ status[q] = "dispatched" => status'[q] = "dispatched"
                         /\ status'[q] \in Active => status[q] \in Active
  BY <1>1 DEF Executing, Active
<1>5. ASSUME NEW p \in Packets, status'[p] \in Executing
      PROVE  Activation(p, status)'
  <2>1. Activation(p, status) /\ Depth1 \subseteq Packets
    BY <1>4, <1>5 DEF NestInv, WorkNested, Depth1
  <2>2. CASE p \in Depth1 /\ p \in Synthesis
    BY <2>1, <2>2, <1>3, <1>4 DEF Activation, Peers
  <2>3. CASE p \in Depth1 \ Synthesis
    BY <2>1, <2>3, <1>4 DEF Activation, Peers
  <2>4. CASE p \notin Depth1
    <3>1. Parent[p] \in Packets
      BY <2>4, DispatchAssumption DEF Depth1
    <3> QED BY <2>1, <2>4, <3>1, <1>4 DEF Activation
  <2> QED BY <2>2, <2>3, <2>4
<1>6. \A j \in Jobs : jobs'[j] = "active" => status'[Owner[j]] = "dispatched"
  <2>1. \A j \in Jobs : Owner[j] \in Packets
    BY DispatchAssumption DEF Depth1
  <2> QED BY <2>1, <1>4 DEF NestInv, WorkNested
<1>7. ClosedStaysQuiet'
  BY <1>4 DEF NestInv, ClosedStaysQuiet
<1> QED BY <1>3, <1>5, <1>6, <1>7 DEF NestInv, WorkNested

(* A packet is armed or dispatched where its activation was judged.         *)
LEMMA ActivateKeeps ==
    ASSUME NestInv, Shapes', NEW p \in Packets, NEW st, Relaxed(st),
           st[p] \in {"ready", "armed"}, Activation(p, st),
           NEW s \in Executing, status' = [st EXCEPT ![p] = s],
           bound' = bound, jobs' = jobs, task' = task
    PROVE  NestInv'
<1>1. /\ status'[p] = s
      /\ \A q \in Packets \ {p} : status'[q] = st[q]
      /\ status[p] \in {"ready", "armed"}
  BY DEF Relaxed
<1>2. \A q \in Packets \ {p} : \/ status'[q] = status[q]
                               \/ status[q] = "armed" /\ status'[q] = "ready"
  BY <1>1 DEF Relaxed
<1>3. SameEnds
  BY <1>1, <1>2 DEF SameEnds, Active, Executing
<1>4. /\ Bindings' = Bindings /\ SynthesisCurrent'
      /\ SpecialistsEnded' <=> SpecialistsEnded
  BY <1>3, SameEndsKeep DEF NestInv
<1>5. \A q \in Packets \ {p} : /\ status'[q] \in Executing => status[q] \in Executing
                               /\ status[q] = "dispatched" => status'[q] = "dispatched"
                               /\ status'[q] \in Active => status[q] \in Active
  BY <1>2 DEF Executing, Active
<1>6. status[p] \in Active /\ status[p] # "dispatched" /\ Executing \subseteq Active
  BY <1>1 DEF Active, Executing
<1>7. Synthesis \subseteq Depth1 /\ Depth1 \subseteq Packets
  BY DispatchAssumption DEF Depth1
<1>8. ASSUME NEW q \in Packets, status'[q] \in Executing
      PROVE  Activation(q, status)'
  <2>1. CASE q = p
    <3>1. CASE p \in Synthesis
      BY <2>1, <3>1, <1>1, <1>4, <1>7 DEF Activation, Peers
    <3>2. CASE p \in Depth1 \ Synthesis
      BY <2>1, <3>2, <1>1, <1>7 DEF Activation, Peers
    <3>3. CASE p \notin Depth1
      <4>1. Parent[p] \in Packets \ {p}
        BY <3>3, DispatchAssumption DEF Depth1
      <4> QED BY <2>1, <3>3, <4>1, <1>1 DEF Activation
    <3> QED BY <3>1, <3>2, <3>3
  <2>2. CASE q # p
    <3>1. status[q] \in Executing /\ Activation(q, status) /\ st[q] \in Executing
      BY <2>2, <1>1, <1>5, <1>8 DEF NestInv, WorkNested
    <3>2. q \notin Synthesis
      <4> SUFFICES ASSUME q \in Synthesis PROVE FALSE
        OBVIOUS
      <4>1. p \in Synthesis
        BY <3>1, <1>6 DEF NestInv, SynthesisCurrent
      <4> QED BY <4>1, <2>2, <3>1, <1>7 DEF Activation, Peers
    <3>3. p \notin Synthesis
      BY <3>1, <3>2, <1>6 DEF NestInv, SynthesisCurrent
    <3>4. CASE q \in Depth1
      <4>1. ASSUME NEW r \in Depth1 \ {q}, status'[r] \in Executing
            PROVE  r \notin Synthesis /\ Parallel /\ Lane[r] # Lane[q]
        <5>1. CASE r = p
          BY <5>1, <3>1, <3>3, <3>4, <2>2 DEF Activation, Peers
        <5>2. CASE r # p
          BY <5>2, <4>1, <3>1, <3>2, <3>4, <1>5, <1>7 DEF Activation, Peers
        <5> QED BY <5>1, <5>2
      <4> QED BY <4>1, <3>2, <3>4 DEF Activation, Peers
    <3>5. CASE q \notin Depth1
      <4>1. Parent[q] \in Packets /\ status[Parent[q]] = "dispatched"
        BY <3>1, <3>5, DispatchAssumption DEF Activation, Depth1
      <4>2. status'[Parent[q]] = "dispatched"
        BY <4>1, <1>5, <1>6
      <4>3. ASSUME NEW r \in Packets \ {q}, Parent[r] = Parent[q]
            PROVE  status'[r] \notin Executing
        <5>1. CASE r = p
          <6>1. p \notin Depth1
            BY <5>1, <4>3, <3>5 DEF Depth1
          <6> QED BY <5>1, <6>1, <4>3, <3>1, <2>2 DEF Activation
        <5>2. CASE r # p
          BY <5>2, <4>3, <3>1, <3>5, <1>5 DEF Activation
        <5> QED BY <5>1, <5>2
      <4> QED BY <4>2, <4>3, <3>5 DEF Activation
    <3> QED BY <3>4, <3>5
  <2> QED BY <2>1, <2>2
<1>9. \A j \in Jobs : jobs'[j] = "active" => status'[Owner[j]] = "dispatched"
  <2>1. \A j \in Jobs : Owner[j] \in Packets
    BY DispatchAssumption DEF Depth1
  <2> QED BY <2>1, <1>5, <1>6 DEF NestInv, WorkNested
<1>10. ClosedStaysQuiet'
  BY <1>6 DEF NestInv, ClosedStaysQuiet
<1> QED BY <1>4, <1>8, <1>9, <1>10 DEF NestInv, WorkNested

(* A packet is created.                                                      *)
LEMMA CreateKeeps ==
    ASSUME NestInv, Shapes', NEW p \in Packets, CreatePacket(p)
    PROVE  NestInv'
<1>1. /\ status[p] = "none" /\ status'[p] = "ready" /\ ~Frozen
      /\ \A q \in Packets \ {p} : status'[q] = status[q] /\ bound'[q] = bound[q]
      /\ jobs' = jobs /\ task' = task /\ task = "open"
      /\ p \in Synthesis => SpecialistsEnded /\ bound'[p] = Bindings
  BY DEF CreatePacket, NestInv, Shapes, Commanded
<1>2. Synthesis \subseteq Packets /\ Depth1 \subseteq Packets /\ Synthesis \subseteq Depth1
  BY DispatchAssumption DEF Depth1
<1>3. Bindings' = Bindings
  BY <1>1, BindingsFrame DEF Ended
<1>4. \A q \in Packets : /\ status'[q] \in Executing => q # p /\ status[q] \in Executing
                         /\ status[q] = "dispatched" => status'[q] = "dispatched"
  BY <1>1 DEF Executing
<1>5. \A q \in Synthesis : status[q] \notin Active \cup {"done"}
  BY <1>1 DEF Frozen
<1>6. ASSUME NEW q \in Packets, status'[q] \in Executing
      PROVE  Activation(q, status)'
  <2>1. Activation(q, status) /\ q # p
    BY <1>4, <1>6 DEF NestInv, WorkNested
  <2>2. q \notin Synthesis
    BY <1>4, <1>5, <1>6 DEF Active
  <2>3. CASE q \in Depth1
    BY <2>1, <2>2, <2>3, <1>2, <1>4 DEF Activation, Peers
  <2>4. CASE q \notin Depth1
    <3>1. Parent[q] \in Packets
      BY <2>4, DispatchAssumption DEF Depth1
    <3> QED BY <2>1, <2>4, <3>1, <1>4 DEF Activation
  <2> QED BY <2>3, <2>4
<1>7. \A j \in Jobs : jobs'[j] = "active" => status'[Owner[j]] = "dispatched"
  <2>1. \A j \in Jobs : Owner[j] \in Packets
    BY DispatchAssumption DEF Depth1
  <2> QED BY <2>1, <1>1, <1>4 DEF NestInv, WorkNested
<1>8. SynthesisCurrent'
  <2> SUFFICES ASSUME NEW q \in Synthesis, status'[q] \in Active \cup {"done"}
               PROVE  /\ bound'[q] = Bindings'
                      /\ \A r \in Packets \ Synthesis : status'[r] \notin Active
    BY DEF SynthesisCurrent
  <2>1. q = p
    BY <1>1, <1>2, <1>5
  <2> QED BY <2>1, <1>1, <1>3 DEF SpecialistsEnded
<1>9. ClosedStaysQuiet'
  BY <1>1 DEF ClosedStaysQuiet
<1> QED BY <1>6, <1>7, <1>8, <1>9 DEF NestInv, WorkNested

(* A packet ends, without work below it.                                    *)
LEMMA EndKeeps ==
    ASSUME NestInv, Shapes', NEW p \in Packets, NEW s \in Ended, EndPacket(p, s)
    PROVE  NestInv'
<1>1. /\ status[p] \in Active /\ status'[p] = s
      /\ \A q \in Packets \ {p} : status'[q] = status[q]
      /\ jobs' = jobs /\ task' = task /\ task = "open" /\ bound' = bound
      /\ p \in Depth1 => Unburdened(p)
  BY DEF EndPacket, NestInv, Shapes, Commanded, Active, Executing
<1>2. s \notin Active /\ Executing \subseteq Active /\ "dispatched" \in Active
  BY DEF Active, Executing, Ended
<1>3. Synthesis \subseteq Depth1 /\ Depth1 \subseteq Packets
  BY DispatchAssumption DEF Depth1
<1>4. p \notin Synthesis => \A q \in Synthesis : status'[q] \notin Active \cup {"done"}
  BY <1>1, <1>3 DEF NestInv, SynthesisCurrent
<1>5. p \in Synthesis => Bindings' = Bindings
  BY <1>1, BindingsFrame
<1>6. SynthesisCurrent'
  <2> SUFFICES ASSUME NEW q \in Synthesis, status'[q] \in Active \cup {"done"}
               PROVE  /\ bound'[q] = Bindings'
                      /\ \A r \in Packets \ Synthesis : status'[r] \notin Active
    BY DEF SynthesisCurrent
  <2>1. p \in Synthesis
    BY <1>4
  <2>2. status[q] \in Active \cup {"done"}
    BY <1>1, <1>3
  <2>3. /\ bound[q] = Bindings
        /\ \A r \in Packets \ Synthesis : status[r] \notin Active
    BY <2>2 DEF NestInv, SynthesisCurrent
  <2> QED BY <2>1, <2>3, <1>1, <1>5
<1>7. \A q \in Packets : status'[q] \in Executing => q # p /\ status[q] \in Executing
  BY <1>1, <1>2
<1>8. ASSUME NEW q \in Packets, status'[q] \in Executing
      PROVE  Activation(q, status)'
  <2>1. Activation(q, status) /\ q # p /\ status[q] \in Executing
    BY <1>7, <1>8 DEF NestInv, WorkNested
  <2>2. CASE q \in Synthesis
    <3>1. p \in Synthesis
      BY <2>1, <2>2, <1>1, <1>2 DEF NestInv, SynthesisCurrent
    <3>2. SpecialistsEnded' <=> SpecialistsEnded
      BY <3>1, <1>1, <1>5 DEF SpecialistsEnded
    <3> QED BY <2>1, <2>2, <3>1, <3>2, <1>1, <1>3, <1>5, <1>7 DEF Activation, Peers
  <2>3. CASE q \in Depth1 \ Synthesis
    BY <2>1, <2>3, <1>3, <1>7 DEF Activation, Peers
  <2>4. CASE q \notin Depth1
    <3>1. Parent[q] \in Depth1
      BY <2>4, DispatchAssumption
    <3>2. Parent[q] # p
      BY <2>1, <3>1, <1>1 DEF Unburdened
    <3> QED BY <2>1, <2>4, <3>1, <3>2, <1>1, <1>3, <1>7 DEF Activation
  <2> QED BY <2>2, <2>3, <2>4
<1>9. \A j \in Jobs : jobs'[j] = "active" => status'[Owner[j]] = "dispatched"
  <2> SUFFICES ASSUME NEW j \in Jobs, jobs[j] = "active"
               PROVE  status'[Owner[j]] = "dispatched"
    BY <1>1
  <2>1. Owner[j] \in Depth1
    BY DispatchAssumption
  <2>2. Owner[j] # p
    BY <2>1, <1>1 DEF Unburdened
  <2> QED BY <2>1, <2>2, <1>1, <1>3 DEF NestInv, WorkNested
<1>10. ClosedStaysQuiet'
  BY <1>1 DEF ClosedStaysQuiet
<1> QED BY <1>6, <1>8, <1>9, <1>10 DEF NestInv, WorkNested

(* A job starts under its owner, or ends.                                   *)
LEMMA JobsKeep ==
    ASSUME NestInv, Shapes', NEW j \in Jobs, StartJob(j) \/ EndJob(j)
    PROVE  NestInv'
<1>1. /\ status' = status /\ bound' = bound /\ task' = task /\ task = "open"
      /\ \A i \in Jobs \ {j} : jobs'[i] = jobs[i]
      /\ jobs'[j] = "active" => StartJob(j)
  BY DEF StartJob, EndJob, packets, Commanded, NestInv, Shapes
<1>2. Bindings' = Bindings
  BY <1>1 DEF Bindings
<1>3. SynthesisCurrent' /\ ClosedStaysQuiet'
  BY <1>1, <1>2 DEF NestInv, SynthesisCurrent, ClosedStaysQuiet
<1>4. ASSUME NEW q \in Packets, status'[q] \in Executing
      PROVE  Activation(q, status)'
  <2>1. Activation(q, status)
    BY <1>1, <1>4 DEF NestInv, WorkNested
  <2>2. CASE q \in Synthesis
    <3>1. Frozen
      BY <2>2, <1>1, <1>4 DEF Frozen, Active
    <3>2. SpecialistsEnded => SpecialistsEnded'
      BY <3>1, <1>1, <1>2 DEF SpecialistsEnded, StartJob
    <3> QED BY <2>1, <2>2, <3>2, <1>1, <1>2, DispatchAssumption DEF Activation, Peers
  <2>3. CASE q \notin Synthesis
    BY <2>1, <2>3, <1>1 DEF Activation, Peers
  <2> QED BY <2>2, <2>3
<1>5. \A i \in Jobs : jobs'[i] = "active" => status'[Owner[i]] = "dispatched"
  BY <1>1 DEF StartJob, NestInv, WorkNested
<1> QED BY <1>3, <1>4, <1>5 DEF NestInv, WorkNested

(* The steps that leave the packets, the jobs and the task alone.           *)
Outside ==
    \/ NewChief \/ ChiefLapse \/ EditPlan \/ ApprovePlan
    \/ \E s \in Sessions, cut \in Cuts : BindSession(s, cut) \/ UnbindSession(s, cut)
    \/ \E p \in Packets, cut \in Cuts : RepairMapping(p, cut)
    \/ \E e \in Events : AccountIncident(e)
    \/ UNCHANGED vars

LEMMA OutsideFrame ==
    ASSUME Outside
    PROVE  UNCHANGED <<task, packets, helpers, jobs>>
BY DEF Outside, NewChief, ChiefLapse, EditPlan, ApprovePlan, BindSession, UnbindSession,
       RepairMapping, AccountIncident, vars, packets, ledger

(* Every step is one of these.                                               *)
LEMMA StepKinds ==
    ASSUME [Next]_vars
    PROVE  \/ Outside
           \/ \E p \in Packets : CreatePacket(p) \/ ArmLapse(p) \/ DisarmPacket(p)
           \/ \E p \in Packets, s \in Sessions, k \in Kinds, cut \in Cuts : ArmPacket(p, s, k, cut)
           \/ \E e \in Events, p \in Packets, cut \in Cuts : Consume(e, p, cut)
           \/ \E a \in Agents, p \in Packets, cut \in Cuts : ManualDispatch(p, a, cut)
           \/ \E e \in Events : RecordIncident(e)
           \/ \E e \in Events, p \in Packets : Resume(e, p) \/ SpawnHelper(e, p)
           \/ \E p \in Packets, s \in Ended : EndPacket(p, s)
           \/ \E j \in Jobs : StartJob(j) \/ EndJob(j)
           \/ \E left \in SUBSET Sessions : EndTask(left)
BY DEF Next, Outside

LEMMA ShapesKept ==
    ASSUME Shapes, [Next]_vars
    PROVE  Shapes'
<1> USE DEF Shapes
<1>1. CASE Outside
  BY <1>1, OutsideFrame DEF packets
<1>2. ASSUME NEW p \in Packets, CreatePacket(p) \/ ArmLapse(p) \/ DisarmPacket(p)
      PROVE  Shapes'
  BY <1>2 DEF CreatePacket, ArmLapse, DisarmPacket, ledger, Statuses, Active
<1>3. ASSUME NEW p \in Packets, NEW s \in Sessions, NEW k \in Kinds, NEW cut \in Cuts,
             ArmPacket(p, s, k, cut)
      PROVE  Shapes'
  <2>1. /\ status' = status \/ status' = [SweptStatus EXCEPT ![p] = "armed"]
        /\ arms' = arms \/ \E x : arms' = [SweptArms EXCEPT ![p] = x]
        /\ UNCHANGED <<agent, origin, bound, helpers, jobs>>
    BY <1>3 DEF ArmPacket, ledger
  <2>2. SweptStatus \in [Packets -> Statuses] /\ "armed" \in Statuses
    BY SweepRelaxes DEF Relaxed, Statuses, Active, Executing
  <2> QED BY <2>1, <2>2 DEF SweptArms
<1>4. ASSUME NEW e \in Events, NEW p \in Packets, NEW cut \in Cuts, Consume(e, p, cut)
      PROVE  Shapes'
  <2>1. /\ status' = status \/ status' = [SweptStatus EXCEPT ![p] = "dispatched"]
        /\ arms' = arms \/ \E x : arms' = [SweptArms EXCEPT ![p] = x]
        /\ agent' = agent \/ agent' = [agent EXCEPT ![p] = e.agent]
        /\ origin' = origin \/ origin' = [origin EXCEPT ![p] = "observed"]
        /\ UNCHANGED <<bound, helpers, jobs>>
    BY <1>4 DEF Consume, ledger
  <2>2. SweptStatus \in [Packets -> Statuses] /\ "dispatched" \in Statuses
    BY SweepRelaxes DEF Relaxed, Statuses, Active, Executing
  <2>3. e.agent \in Agents
    BY DispatchAssumption
  <2> QED BY <2>1, <2>2, <2>3 DEF SweptArms
<1>5. ASSUME NEW a \in Agents, NEW p \in Packets, NEW cut \in Cuts, ManualDispatch(p, a, cut)
      PROVE  Shapes'
  BY <1>5 DEF ManualDispatch, ledger, Statuses, Active, Executing
<1>6. ASSUME NEW e \in Events, RecordIncident(e)
      PROVE  Shapes'
  BY <1>6, SweepRelaxes DEF RecordIncident, Sweep, Relaxed, SweptArms
<1>7. ASSUME NEW e \in Events, NEW p \in Packets, Resume(e, p) \/ SpawnHelper(e, p)
      PROVE  Shapes'
  <2>1. /\ status' = SweptStatus /\ arms' = SweptArms
        /\ helpers' = helpers \/ helpers' = [helpers EXCEPT ![p] = @ \cup {e}]
        /\ UNCHANGED <<agent, origin, bound, jobs>>
    BY <1>7 DEF Resume, SpawnHelper, Sweep
  <2> QED BY <2>1, SweepRelaxes DEF Relaxed, SweptArms
<1>8. ASSUME NEW p \in Packets, NEW s \in Ended, EndPacket(p, s)
      PROVE  Shapes'
  <2>1. agent' = agent \/ \E a \in Agents : agent' = [agent EXCEPT ![p] = a]
    BY <1>8, DispatchAssumption DEF EndPacket
  <2> QED BY <1>8, <2>1 DEF EndPacket, ledger, Statuses
<1>9. ASSUME NEW j \in Jobs, StartJob(j) \/ EndJob(j)
      PROVE  Shapes'
  BY <1>9 DEF StartJob, EndJob, packets, ledger
<1>10. ASSUME NEW left, EndTask(left)
       PROVE  Shapes'
  BY <1>10 DEF EndTask, packets, ledger
<1> QED BY <1>1, <1>2, <1>3, <1>4, <1>5, <1>6, <1>7, <1>8, <1>9, <1>10, StepKinds

(* One lemma per way a step may touch a status.                             *)
LEMMA NestStep ==
    ASSUME NestInv, [Next]_vars
    PROVE  NestInv'
<1>0. Shapes /\ Shapes'
  BY ShapesKept DEF NestInv
<1>1. CASE Outside
  BY <1>0, <1>1, OutsideFrame, StatusRelaxes, RelaxKeeps DEF packets
<1>2. ASSUME NEW p \in Packets, CreatePacket(p) \/ ArmLapse(p) \/ DisarmPacket(p)
      PROVE  NestInv'
  <2>1. CASE CreatePacket(p)
    BY <1>0, <2>1, CreateKeeps
  <2>2. CASE ArmLapse(p)
    BY <1>0, <2>2, StatusRelaxes, RelaxKeeps DEF ArmLapse
  <2>3. CASE DisarmPacket(p)
    <3>1. Relaxed([status EXCEPT ![p] = "ready"])
      BY <1>0, <2>3 DEF DisarmPacket, Relaxed, Shapes, Statuses, Active
    <3> QED BY <1>0, <2>3, <3>1, RelaxKeeps DEF DisarmPacket
  <2> QED BY <1>2, <2>1, <2>2, <2>3
<1>3. ASSUME NEW p \in Packets, NEW s \in Sessions, NEW k \in Kinds, NEW cut \in Cuts,
             ArmPacket(p, s, k, cut)
      PROVE  NestInv'
  <2>1. /\ bound' = bound /\ jobs' = jobs /\ task' = task
        /\ SweptStatus[p] = "ready" /\ Activation(p, SweptStatus)
        /\ status' = status \/ status' = [SweptStatus EXCEPT ![p] = "armed"]
    BY <1>3 DEF ArmPacket
  <2>2. CASE status' = status
    BY <1>0, <2>1, <2>2, StatusRelaxes, RelaxKeeps
  <2>3. CASE status' = [SweptStatus EXCEPT ![p] = "armed"]
    BY <1>0, <2>1, <2>3, SweepRelaxes, ActivateKeeps DEF Executing
  <2> QED BY <2>1, <2>2, <2>3
<1>4. ASSUME NEW e \in Events, NEW p \in Packets, NEW cut \in Cuts, Consume(e, p, cut)
      PROVE  NestInv'
  <2>1. /\ bound' = bound /\ jobs' = jobs /\ task' = task
        /\ Accepts(e, p)
        /\ status' = status \/ status' = [SweptStatus EXCEPT ![p] = "dispatched"]
    BY <1>4 DEF Consume
  <2>2. CASE status' = status
    BY <1>0, <2>1, <2>2, StatusRelaxes, RelaxKeeps
  <2>3. CASE status' = [SweptStatus EXCEPT ![p] = "dispatched"]
    <3>1. SweptStatus[p] = "armed" /\ Activation(p, SweptStatus)
      BY <2>1 DEF Accepts, Candidates, ValidArm
    <3> QED BY <1>0, <2>1, <2>3, <3>1, SweepRelaxes, ActivateKeeps DEF Executing
  <2> QED BY <2>1, <2>2, <2>3
<1>5. ASSUME NEW a \in Agents, NEW p \in Packets, NEW cut \in Cuts, ManualDispatch(p, a, cut)
      PROVE  NestInv'
  <2>1. /\ bound' = bound /\ jobs' = jobs /\ task' = task
        /\ status[p] \in {"ready", "armed"} /\ Activation(p, status)
        /\ status' = status \/ status' = [status EXCEPT ![p] = "dispatched"]
    BY <1>5 DEF ManualDispatch, ValidArm, LegacyReady
  <2>2. CASE status' = status
    BY <1>0, <2>1, <2>2, StatusRelaxes, RelaxKeeps
  <2>3. CASE status' = [status EXCEPT ![p] = "dispatched"]
    BY <1>0, <2>1, <2>3, StatusRelaxes, ActivateKeeps DEF Executing
  <2> QED BY <2>1, <2>2, <2>3
<1>6. ASSUME NEW e \in Events, RecordIncident(e)
      PROVE  NestInv'
  BY <1>0, <1>6, SweepRelaxes, RelaxKeeps DEF RecordIncident, Sweep
<1>7. ASSUME NEW e \in Events, NEW p \in Packets, Resume(e, p) \/ SpawnHelper(e, p)
      PROVE  NestInv'
  BY <1>0, <1>7, SweepRelaxes, RelaxKeeps DEF Resume, SpawnHelper, Sweep
<1>8. ASSUME NEW p \in Packets, NEW s \in Ended, EndPacket(p, s)
      PROVE  NestInv'
  BY <1>0, <1>8, EndKeeps
<1>9. ASSUME NEW j \in Jobs, StartJob(j) \/ EndJob(j)
      PROVE  NestInv'
  BY <1>0, <1>9, JobsKeep
<1>10. ASSUME NEW left, EndTask(left)
       PROVE  NestInv'
  <2>1. /\ status' = status /\ bound' = bound /\ jobs' = jobs /\ Quiet
    BY <1>10 DEF EndTask, packets
  <2>2. Bindings' = Bindings
    BY <2>1 DEF Bindings
  <2>3. ClosedStaysQuiet' /\ SynthesisCurrent'
    BY <2>1, <2>2 DEF Quiet, ClosedStaysQuiet, SynthesisCurrent, NestInv
  <2>4. WorkNested'
    BY <2>1 DEF Quiet, WorkNested, Active
  <2> QED BY <1>0, <2>3, <2>4 DEF NestInv
<1> QED BY <1>1, <1>2, <1>3, <1>4, <1>5, <1>6, <1>7, <1>8, <1>9, <1>10, StepKinds

LEMMA NestStarts == Init => NestInv
<1> SUFFICES ASSUME Init PROVE NestInv
  OBVIOUS
<1>1. Shapes
  BY DEF Init, Shapes, Statuses
<1>2. WorkNested
  <2>1. \A j \in Jobs : jobs[j] = "none"
    BY DEF Init
  <2> QED BY <2>1 DEF Init, WorkNested, Executing
<1>3. SynthesisCurrent
  BY DispatchAssumption DEF Init, SynthesisCurrent, Active, Executing, Depth1
<1>4. ClosedStaysQuiet
  BY DEF Init, ClosedStaysQuiet
<1> QED BY <1>1, <1>2, <1>3, <1>4 DEF NestInv

LEMMA NestInvariance == Spec => []NestInv
<1>1. NestInv /\ [Next]_vars => NestInv'
  BY NestStep
<1> QED BY NestStarts, <1>1, PTL DEF Spec

(* Work is nested and its chains are apart, in every tree of packets and     *)
(* whatever hooks, kills, expiries and manual dispatches come between the    *)
(* commands (_validate_packet_activation_topology).                          *)
THEOREM WorkIsNested == Spec => []WorkNested
<1>1. NestInv => WorkNested
  BY DEF NestInv
<1> QED BY <1>1, NestInvariance, PTL

(* A synthesis that may run or succeeded is bound to the specialists as      *)
(* they are (the freeze in create-packet and job-start).                     *)
THEOREM SynthesisStaysCurrent == Spec => []SynthesisCurrent
<1>1. NestInv => SynthesisCurrent
  BY DEF NestInv
<1> QED BY <1>1, NestInvariance, PTL

(* No start, late or repeated, makes a closed task work again                *)
(* (observe_subagent_start has no check of the task's status).               *)
THEOREM ClosedTaskStaysQuiet == Spec => []ClosedStaysQuiet
<1>1. NestInv => ClosedStaysQuiet
  BY DEF NestInv
<1> QED BY <1>1, NestInvariance, PTL

-----------------------------------------------------------------------------
(* What a dispatch settles.                                                  *)
Settled(p) == status[p] \in {"dispatched"} \cup Ended

Kept(p) ==
    /\ agent'[p] = agent[p] /\ origin'[p] = origin[p] /\ arms'[p] = arms[p]
    /\ status[p] \in Ended => status'[p] = status[p]
    /\ Settled(p)'

LEMMA SweepSpares ==
    ASSUME NEW q \in Packets, Settled(q)
    PROVE  SweptStatus[q] = status[q] /\ SweptArms[q] = arms[q]
BY DEF Settled, SweptStatus, SweptArms, Overdue, Ended

LEMMA SettledKept ==
    ASSUME Shapes, [Next]_vars, NEW q \in Packets, Settled(q)
    PROVE  Kept(q)
<1> USE DEF Kept
<1>0. /\ SweptStatus[q] = status[q] /\ SweptArms[q] = arms[q]
      /\ status[q] \notin {"none", "ready", "armed"}
      /\ DOMAIN SweptStatus = Packets /\ DOMAIN SweptArms = Packets
  BY SweepSpares DEF Settled, Ended, SweptStatus, SweptArms
<1>1. CASE Outside
  BY <1>1, OutsideFrame DEF packets, Settled
<1>2. ASSUME NEW p \in Packets, CreatePacket(p) \/ ArmLapse(p) \/ DisarmPacket(p)
      PROVE  Kept(q)
  <2>1. p # q
    BY <1>0, <1>2 DEF CreatePacket, ArmLapse, DisarmPacket
  <2> QED BY <2>1, <1>2 DEF CreatePacket, ArmLapse, DisarmPacket, Settled, Shapes
<1>3. ASSUME NEW p \in Packets, NEW s \in Sessions, NEW k \in Kinds, NEW cut \in Cuts,
             ArmPacket(p, s, k, cut)
      PROVE  Kept(q)
  <2>1. p # q
    BY <1>0, <1>3 DEF ArmPacket
  <2>2. /\ status' = status \/ status' = [SweptStatus EXCEPT ![p] = "armed"]
        /\ arms' = arms \/ \E x : arms' = [SweptArms EXCEPT ![p] = x]
        /\ UNCHANGED <<agent, origin>>
    BY <1>3 DEF ArmPacket
  <2> QED BY <2>1, <2>2, <1>0 DEF Settled
<1>4. ASSUME NEW e \in Events, NEW p \in Packets, NEW cut \in Cuts, Consume(e, p, cut)
      PROVE  Kept(q)
  <2>1. p # q
    BY <1>0, <1>4 DEF Consume, Accepts, Candidates
  <2>2. /\ status' = status \/ status' = [SweptStatus EXCEPT ![p] = "dispatched"]
        /\ arms' = arms \/ \E x : arms' = [SweptArms EXCEPT ![p] = x]
        /\ agent' = agent \/ agent' = [agent EXCEPT ![p] = e.agent]
        /\ origin' = origin \/ origin' = [origin EXCEPT ![p] = "observed"]
    BY <1>4 DEF Consume
  <2> QED BY <2>1, <2>2, <1>0 DEF Settled, Shapes
<1>5. ASSUME NEW a \in Agents, NEW p \in Packets, NEW cut \in Cuts, ManualDispatch(p, a, cut)
      PROVE  Kept(q)
  <2>1. p # q
    BY <1>0, <1>5 DEF ManualDispatch, LegacyReady
  <2> QED BY <2>1, <1>5 DEF ManualDispatch, Settled, Shapes
<1>6. ASSUME NEW e \in Events, RecordIncident(e)
      PROVE  Kept(q)
  BY <1>0, <1>6 DEF RecordIncident, Sweep, Settled
<1>7. ASSUME NEW e \in Events, NEW p \in Packets, Resume(e, p) \/ SpawnHelper(e, p)
      PROVE  Kept(q)
  BY <1>0, <1>7 DEF Resume, SpawnHelper, Sweep, Settled
<1>8. ASSUME NEW p \in Packets, NEW s \in Ended, EndPacket(p, s)
      PROVE  Kept(q)
  <2>1. CASE p # q
    BY <2>1, <1>8 DEF EndPacket, Settled, Shapes
  <2>2. CASE p = q
    <3>1. status[q] = "dispatched" /\ status[q] \notin Ended
      BY <2>2, <1>0, <1>8 DEF EndPacket, Ended
    <3>2. ~LegacyReady(q)
      BY <3>1 DEF LegacyReady
    <3> QED BY <2>2, <3>1, <3>2, <1>8 DEF EndPacket, Settled, Shapes
  <2> QED BY <2>1, <2>2
<1>9. ASSUME NEW j \in Jobs, StartJob(j) \/ EndJob(j)
      PROVE  Kept(q)
  BY <1>9 DEF StartJob, EndJob, packets, Settled
<1>10. ASSUME NEW left, EndTask(left)
       PROVE  Kept(q)
  BY <1>10 DEF EndTask, packets, Settled
<1> QED BY <1>1, <1>2, <1>3, <1>4, <1>5, <1>6, <1>7, <1>8, <1>9, <1>10, StepKinds

(* Once a packet was dispatched its agent, its provenance and its arms stay, *)
(* and once it ended its status does: no repair, resumption, late event or   *)
(* repeated command rewrites them (cmd_packet_update, observe_subagent_start).*)
THEOREM DispatchesAreFinal == Spec => DispatchFinal
<1>1. NestInv /\ [Next]_vars =>
        [\A p \in Packets :
            /\ status[p] \in {"dispatched"} \cup Ended
                  => agent'[p] = agent[p] /\ origin'[p] = origin[p] /\ arms'[p] = arms[p]
            /\ status[p] \in Ended => status'[p] = status[p]]_vars
  BY SettledKept DEF NestInv, Settled, Kept
<1> QED BY <1>1, NestInvariance, PTL DEF Spec, DispatchFinal

(* Only a packet that was dispatched or has ended has an agent, so only such *)
(* a packet has helpers.                                                     *)
HelperInv ==
    /\ \A p \in Packets : agent[p] # None => Settled(p)
    /\ \A p \in Packets : helpers[p] \subseteq Events /\ IsFiniteSet(helpers[p])
    /\ HelpersOwned

LEMMA AgentsStep ==
    ASSUME Shapes, [Next]_vars, NEW q \in Packets, agent[q] = None
    PROVE  agent'[q] # None => Settled(q)'
<1>1. CASE Outside
  BY <1>1, OutsideFrame DEF packets
<1>2. ASSUME NEW e \in Events, NEW p \in Packets, NEW cut \in Cuts, Consume(e, p, cut)
      PROVE  agent'[q] # None => Settled(q)'
  <2>1. DOMAIN SweptStatus = Packets
    BY DEF SweptStatus
  <2>2. \/ agent' = agent
        \/ /\ agent' = [agent EXCEPT ![p] = e.agent]
           /\ status' = [SweptStatus EXCEPT ![p] = "dispatched"]
    BY <1>2 DEF Consume
  <2> QED BY <2>1, <2>2 DEF Settled, Shapes
<1>3. ASSUME NEW a \in Agents, NEW p \in Packets, NEW cut \in Cuts, ManualDispatch(p, a, cut)
      PROVE  agent'[q] # None => Settled(q)'
  <2>1. \/ agent' = agent
        \/ /\ agent' = [agent EXCEPT ![p] = a]
           /\ status' = [status EXCEPT ![p] = "dispatched"]
    BY <1>3 DEF ManualDispatch
  <2> QED BY <2>1 DEF Settled, Shapes
<1>4. CASE \/ \E p \in Packets : CreatePacket(p) \/ ArmLapse(p) \/ DisarmPacket(p)
           \/ \E p \in Packets, s \in Sessions, k \in Kinds, cut \in Cuts : ArmPacket(p, s, k, cut)
           \/ \E e \in Events : RecordIncident(e)
           \/ \E e \in Events, p \in Packets : Resume(e, p) \/ SpawnHelper(e, p)
           \/ \E j \in Jobs : StartJob(j) \/ EndJob(j)
           \/ \E left \in SUBSET Sessions : EndTask(left)
  <2>1. agent' = agent
    BY <1>4 DEF CreatePacket, ArmLapse, DisarmPacket, ArmPacket, RecordIncident, Resume,
                SpawnHelper, StartJob, EndJob, EndTask, packets
  <2> QED BY <2>1
<1>5. ASSUME NEW p \in Packets, NEW s \in Ended, EndPacket(p, s)
      PROVE  agent'[q] # None => Settled(q)'
  <2>1. CASE p = q
    BY <2>1, <1>5 DEF EndPacket, Settled, Shapes
  <2>2. CASE p # q
    BY <2>2, <1>5 DEF EndPacket, Shapes
  <2> QED BY <2>1, <2>2
<1> QED BY <1>1, <1>2, <1>3, <1>4, <1>5, StepKinds

LEMMA HelpersFrame ==
    ASSUME [Next]_vars, \A e \in Events, p \in Packets : ~SpawnHelper(e, p)
    PROVE  helpers' = helpers
<1>1. CASE Outside
  BY <1>1, OutsideFrame
<1>2. CASE \/ \E p \in Packets : CreatePacket(p) \/ ArmLapse(p) \/ DisarmPacket(p)
           \/ \E p \in Packets, s \in Sessions, k \in Kinds, cut \in Cuts : ArmPacket(p, s, k, cut)
           \/ \E e \in Events, p \in Packets, cut \in Cuts : Consume(e, p, cut)
           \/ \E a \in Agents, p \in Packets, cut \in Cuts : ManualDispatch(p, a, cut)
           \/ \E e \in Events : RecordIncident(e)
           \/ \E e \in Events, p \in Packets : Resume(e, p)
           \/ \E p \in Packets, s \in Ended : EndPacket(p, s)
           \/ \E j \in Jobs : StartJob(j) \/ EndJob(j)
           \/ \E left \in SUBSET Sessions : EndTask(left)
  BY ZenonT(40), <1>2 DEF CreatePacket, ArmLapse, DisarmPacket, ArmPacket, Consume, ManualDispatch,
              RecordIncident, Resume, EndPacket, StartJob, EndJob, EndTask, ledger
<1> QED BY <1>1, <1>2, StepKinds

LEMMA HelperStep ==
    ASSUME Shapes, HelperInv, [Next]_vars
    PROVE  HelperInv'
<1>1. ASSUME NEW p \in Packets, agent'[p] # None
      PROVE  Settled(p)'
  <2>1. CASE agent[p] = None
    BY <1>1, <2>1, AgentsStep
  <2>2. CASE agent[p] # None
    BY <2>2, SettledKept DEF HelperInv, Kept
  <2> QED BY <2>1, <2>2
<1>2. ASSUME NEW p \in Packets, NEW e \in helpers[p]
      PROVE  agent'[p] = agent[p] /\ e.session = agent[p]
  <2>1. e \in Events /\ e.session = agent[p]
    BY DEF HelperInv, HelpersOwned
  <2>2. agent[p] # None
    BY <2>1, DispatchAssumption
  <2> QED BY <2>1, <2>2, SettledKept DEF HelperInv, Kept
<1>3. CASE \A e \in Events, p \in Packets : ~SpawnHelper(e, p)
  BY <1>1, <1>2, <1>3, HelpersFrame DEF HelperInv, HelpersOwned
<1>4. ASSUME NEW e \in Events, NEW p \in Packets, SpawnHelper(e, p)
      PROVE  HelperInv'
  <2>1. /\ agent' = agent /\ helpers'[p] = helpers[p] \cup {e}
        /\ \A q \in Packets \ {p} : helpers'[q] = helpers[q]
    BY <1>4 DEF SpawnHelper, Shapes
  <2>2. Cardinality(helpers[p]) < Budget[p] /\ e.session = agent[p]
    BY <1>4 DEF SpawnHelper, Helps, Arrived, Located
  <2>3. IsFiniteSet(helpers[p]) /\ Budget[p] \in Nat /\ Cardinality(helpers[p]) \in Nat
    BY FS_CardinalityType, DispatchAssumption DEF HelperInv
  <2>4. IsFiniteSet(helpers'[p]) /\ Cardinality(helpers'[p]) <= Budget[p]
    <3>1. /\ IsFiniteSet(helpers[p] \cup {e})
          /\ \/ Cardinality(helpers[p] \cup {e}) = Cardinality(helpers[p])
             \/ Cardinality(helpers[p] \cup {e}) = Cardinality(helpers[p]) + 1
      BY <2>3, FS_AddElement
    <3> QED BY <3>1, <2>1, <2>2, <2>3
  <2>5. ASSUME NEW q \in Packets
        PROVE  /\ helpers'[q] \subseteq Events /\ IsFiniteSet(helpers'[q])
               /\ Cardinality(helpers'[q]) <= Budget[q]
               /\ \A f \in helpers'[q] : f.session = agent'[q]
    BY <2>1, <2>2, <2>4 DEF HelperInv, HelpersOwned
  <2> QED BY <1>1, <2>5 DEF HelperInv, HelpersOwned
<1> QED BY <1>3, <1>4

(* The helpers of a packet stay within its budget and were started by its    *)
(* own agent, for every order in which mappings are written, half written,   *)
(* repaired and removed (observe_subagent_start, _load_mapped_task_unlocked).  *)
THEOREM HelpersAreOwned == Spec => []HelpersOwned
<1>1. Init => HelperInv
  <2> SUFFICES ASSUME Init PROVE HelperInv
    OBVIOUS
  <2>1. /\ \A p \in Packets : agent[p] = None /\ helpers[p] = {}
        /\ IsFiniteSet({}) /\ Cardinality({}) = 0
    BY FS_EmptySet DEF Init
  <2>2. \A p \in Packets : 0 <= Budget[p]
    BY DispatchAssumption
  <2> QED BY <2>1, <2>2 DEF HelperInv, HelpersOwned
<1>2. NestInv /\ HelperInv /\ [Next]_vars => HelperInv'
  BY HelperStep DEF NestInv
<1>3. HelperInv => HelpersOwned
  BY DEF HelperInv
<1> QED BY <1>1, <1>2, <1>3, NestInvariance, PTL DEF Spec

-----------------------------------------------------------------------------
(* The arms of one packet, A, with the status s, agent g and provenance o.  *)

(* An attempt closed with the status s by the event e.                       *)
Closed(a, s, e) ==
    [session |-> a.session, kind |-> a.kind, terms |-> None, status |-> s, event |-> e]

LEMMA ClosedTyped ==
    ASSUME NEW a \in Attempts, NEW s \in {"consumed", "disarmed", "expired"},
           NEW e \in Events \cup {None}
    PROVE  Closed(a, s, e) \in Attempts
BY DEF Attempts, Closed

LEMMA ReplaceIn ==
    ASSUME NEW S, NEW A \in Seq(S), NEW i \in DOMAIN A, NEW x \in S
    PROVE  LET B == [A EXCEPT ![i] = x] IN
           /\ B \in Seq(S) /\ Len(B) = Len(A) /\ DOMAIN B = DOMAIN A
           /\ B[i] = x /\ \A j \in DOMAIN A \ {i} : B[j] = A[j]
OBVIOUS

LEMMA ClosingIs ==
    ASSUME NEW p, NEW s, NEW e, arms[p] \in Seq(Attempts), Current(p) \in DOMAIN arms[p]
    PROVE  Closing(p, s, e) = [arms[p] EXCEPT ![Current(p)] = Closed(Arm(p), s, e)]
<1>1. PICK A, i : A = arms[p] /\ i = Current(p)
  OBVIOUS
<1>2. A[i] \in Attempts
  BY <1>1
<1>3. PICK a \in Attempts : a = A[i]
  BY <1>2
<1>4. [[[a EXCEPT !.status = s] EXCEPT !.event = e] EXCEPT !.terms = None] = Closed(a, s, e)
  <2>1. a = [session |-> a.session, kind |-> a.kind, terms |-> a.terms,
             status |-> a.status, event |-> a.event]
    BY DEF Attempts
  <2>2. PICK b : b = [a EXCEPT !.status = s]
    OBVIOUS
  <2>3. b = [session |-> a.session, kind |-> a.kind, terms |-> a.terms,
             status |-> s, event |-> a.event]
    BY <2>1, <2>2
  <2>4. PICK c : c = [b EXCEPT !.event = e]
    OBVIOUS
  <2>5. c = [session |-> a.session, kind |-> a.kind, terms |-> a.terms,
             status |-> s, event |-> e]
    BY <2>3, <2>4
  <2>6. [c EXCEPT !.terms = None] = Closed(a, s, e)
    BY <2>5 DEF Closed
  <2> QED BY <2>2, <2>4, <2>6
<1> QED BY <1>1, <1>3, <1>4 DEF Closing, Arm

(* The record of a packet that packet_integrity_errors accepts, without      *)
(* cardinalities.                                                            *)
ArmsFit(s, A) ==
    /\ A \in Seq(Attempts) /\ Len(A) <= MaxArms
    /\ \A i \in DOMAIN A : A[i].status = "armed" => s = "armed" /\ A[i].terms \in Terms
    /\ \A i, j \in DOMAIN A : A[i].status = "armed" /\ A[j].status = "armed" => i = j
    /\ s = "armed" => \E i \in DOMAIN A : A[i].status = "armed"

EventsFit(g, o, A) ==
    /\ \A i \in DOMAIN A : A[i].status = "consumed" => A[i].event # None
    /\ \A i \in DOMAIN A :
          A[i].event # None => A[i].status = "consumed" /\ Matches(A[i], A[i].event)
    /\ o # "observed" => \A i \in DOMAIN A : A[i].event = None
    /\ o = "observed" => \E i \in DOMAIN A :
           /\ A[i].event # None /\ A[i].event.agent = g
           /\ \A j \in DOMAIN A : A[j].event # None => j = i

OriginFits(p, s, g, o, A) ==
    /\ s \in {"none", "ready", "armed"} => o = "none"
    /\ s \in {"dispatched", "done", "failed"} => o \in {"observed", "manual"}
    /\ o \in {"observed", "manual"} => g # None
    /\ o = "manual" => p \in Legacy \/ \E i \in DOMAIN A : A[i].status = "disarmed"

Record(p, s, g, o, A) == ArmsFit(s, A) /\ EventsFit(g, o, A) /\ OriginFits(p, s, g, o, A)

LEMMA NoneIsNothing ==
    /\ None \notin Events /\ None \notin Agents /\ None \notin Terms /\ None \notin Plans
    /\ None \notin Sessions /\ \A e \in Events : e # None /\ e.agent \in Agents /\ e.agent # None
BY DispatchAssumption DEF Sessions

(* An arm is closed without an event; s is what becomes of the packet.      *)
LEMMA RecordClosed ==
    ASSUME NEW p, NEW g, NEW o, NEW A, Record(p, "armed", g, o, A),
           NEW i \in DOMAIN A, A[i].status = "armed",
           NEW x \in {"disarmed", "expired"}, NEW B, B = [A EXCEPT ![i] = Closed(A[i], x, None)]
    PROVE  /\ \A s \in {"ready", "cancelled"} : Record(p, s, g, o, B)
           /\ x = "disarmed" => \A a \in Agents : Record(p, "dispatched", a, "manual", B)
<1>1. A \in Seq(Attempts) /\ A[i] \in Attempts
  BY DEF Record, ArmsFit
<1>2. Closed(A[i], x, None) \in Attempts
  BY <1>1, ClosedTyped
<1>3. /\ B \in Seq(Attempts) /\ Len(B) = Len(A) /\ DOMAIN B = DOMAIN A
      /\ B[i] = Closed(A[i], x, None) /\ \A j \in DOMAIN A \ {i} : B[j] = A[j]
  BY <1>1, <1>2, ReplaceIn
<1>4. B[i].status = x /\ B[i].event = None
  BY <1>3 DEF Closed
<1>5. o = "none" /\ \A j \in DOMAIN A : A[j].event = None
  BY DEF Record, OriginFits, EventsFit
<1>6. \A j \in DOMAIN B : B[j].status # "armed" /\ B[j].status # "consumed" /\ B[j].event = None
  BY <1>3, <1>4, <1>5 DEF Record, ArmsFit, EventsFit
<1>7. \A s : s # "armed" => ArmsFit(s, B)
  BY <1>3, <1>6 DEF Record, ArmsFit
<1>8. \A a, c : c # "observed" => EventsFit(a, c, B)
  BY <1>6 DEF EventsFit
<1>9. \A s \in {"ready", "cancelled"} : OriginFits(p, s, g, o, B)
  BY <1>5 DEF OriginFits
<1>10. ASSUME NEW a \in Agents, x = "disarmed"
       PROVE  OriginFits(p, "dispatched", a, "manual", B)
  BY <1>3, <1>4, <1>10, NoneIsNothing DEF OriginFits
<1> QED BY <1>5, <1>7, <1>8, <1>9, <1>10 DEF Record

(* An arm is consumed.                                                       *)
LEMMA RecordTaken ==
    ASSUME NEW p, NEW g, NEW o, NEW A, Record(p, "armed", g, o, A),
           NEW i \in DOMAIN A, A[i].status = "armed", NEW e \in Events, Matches(A[i], e),
           NEW B, B = [A EXCEPT ![i] = Closed(A[i], "consumed", e)]
    PROVE  Record(p, "dispatched", e.agent, "observed", B)
<1>1. A \in Seq(Attempts) /\ A[i] \in Attempts
  BY DEF Record, ArmsFit
<1>2. Closed(A[i], "consumed", e) \in Attempts
  BY <1>1, ClosedTyped
<1>3. /\ B \in Seq(Attempts) /\ Len(B) = Len(A) /\ DOMAIN B = DOMAIN A
      /\ B[i] = Closed(A[i], "consumed", e) /\ \A j \in DOMAIN A \ {i} : B[j] = A[j]
  BY <1>1, <1>2, ReplaceIn
<1>4. B[i].status = "consumed" /\ B[i].event = e /\ Matches(B[i], e)
  BY <1>3 DEF Closed, Matches
<1>5. \A j \in DOMAIN A : A[j].event = None
  BY DEF Record, OriginFits, EventsFit
<1>6. \A j \in DOMAIN B \ {i} : B[j].status # "armed" /\ B[j].status # "consumed" /\ B[j].event = None
  BY <1>3, <1>4, <1>5 DEF Record, ArmsFit, EventsFit
<1>7. ArmsFit("dispatched", B)
  BY <1>3, <1>4, <1>6 DEF Record, ArmsFit
<1>8. EventsFit(e.agent, "observed", B)
  BY <1>3, <1>4, <1>6, NoneIsNothing DEF EventsFit
<1>9. OriginFits(p, "dispatched", e.agent, "observed", B)
  BY NoneIsNothing DEF OriginFits
<1> QED BY <1>7, <1>8, <1>9 DEF Record

(* The clock passes the expiry of an arm.                                    *)
LEMMA RecordLapsed ==
    ASSUME NEW p, NEW g, NEW o, NEW A, Record(p, "armed", g, o, A),
           NEW i \in DOMAIN A, A[i].status = "armed",
           NEW t \in Terms, NEW B, B = [A EXCEPT ![i] = [A[i] EXCEPT !.terms = t]]
    PROVE  Record(p, "armed", g, o, B)
<1>1. A \in Seq(Attempts) /\ A[i] \in Attempts
  BY DEF Record, ArmsFit
<1>2. PICK b : b = [A[i] EXCEPT !.terms = t]
  OBVIOUS
<1>3. /\ b \in Attempts /\ b.status = "armed" /\ b.terms = t
      /\ b.event = A[i].event
  BY <1>1, <1>2 DEF Attempts
<1>4. /\ B \in Seq(Attempts) /\ Len(B) = Len(A) /\ DOMAIN B = DOMAIN A
      /\ B[i] = b /\ \A j \in DOMAIN A \ {i} : B[j] = A[j]
  BY <1>1, <1>2, <1>3, ReplaceIn
<1>5. \A j \in DOMAIN A : A[j].event = None
  BY DEF Record, OriginFits, EventsFit
<1>6. \A j \in DOMAIN B : B[j].status = A[j].status /\ B[j].event = None
  BY <1>3, <1>4, <1>5
<1>7. ArmsFit("armed", B)
  BY <1>3, <1>4, <1>6 DEF Record, ArmsFit
<1>8. EventsFit(g, o, B)
  BY <1>4, <1>5, <1>6 DEF EventsFit, Record, OriginFits
<1>9. OriginFits(p, "armed", g, o, B)
  BY <1>4, <1>6 DEF OriginFits, Record
<1> QED BY <1>7, <1>8, <1>9 DEF Record

(* A packet is armed.                                                        *)
LEMMA RecordMade ==
    ASSUME NEW p, NEW g, NEW o, NEW A, Record(p, "ready", g, o, A), Len(A) < MaxArms,
           NEW a \in Attempts, a.status = "armed", a.event = None, a.terms \in Terms
    PROVE  Record(p, "armed", g, o, Append(A, a))
<1>1. PICK B : B = Append(A, a)
  OBVIOUS
<1>2. A \in Seq(Attempts) /\ Len(A) \in Nat /\ DOMAIN A = 1 .. Len(A) /\ MaxArms \in Nat
  BY DispatchAssumption DEF Record, ArmsFit
<1>3. /\ B \in Seq(Attempts) /\ Len(B) = Len(A) + 1 /\ DOMAIN B = 1 .. Len(A) + 1
      /\ \A j \in DOMAIN A : B[j] = A[j]
      /\ B[Len(A) + 1] = a
  BY <1>1, <1>2
<1>4. PICK n : n = Len(A) + 1 /\ n \in DOMAIN B /\ DOMAIN B = DOMAIN A \cup {n} /\ n \notin DOMAIN A
  BY <1>2, <1>3
<1>5. /\ \A j \in DOMAIN A : A[j].event = None /\ A[j].status # "armed"
      /\ \A j \in DOMAIN A : A[j].status # "consumed"
      /\ o = "none"
  BY DEF Record, OriginFits, EventsFit, ArmsFit
<1>6. /\ B[n] = a
      /\ \A j \in DOMAIN B : B[j].event = None /\ B[j].status # "consumed"
      /\ \A j \in DOMAIN B : B[j].status = "armed" => j = n
  BY <1>3, <1>4, <1>5
<1>7. Len(B) <= MaxArms
  BY <1>2, <1>3
<1>8. ArmsFit("armed", B)
  BY <1>3, <1>4, <1>6, <1>7 DEF ArmsFit
<1>9. EventsFit(g, o, B)
  BY <1>5, <1>6 DEF EventsFit
<1>10. OriginFits(p, "armed", g, o, B)
  BY <1>5 DEF OriginFits
<1> QED BY <1>1, <1>8, <1>9, <1>10 DEF Record

(* Steps that leave the arms alone.                                          *)
(* Nothing is asked of the agent of a packet that never ran.                 *)
LEMMA RecordUnasked ==
    ASSUME NEW p, NEW s, NEW g, NEW o, NEW A, Record(p, s, g, o, A),
           o \notin {"observed", "manual"}
    PROVE  \A a : Record(p, s, a, o, A)
BY DEF Record, EventsFit, OriginFits

LEMMA RecordPlain ==
    ASSUME NEW p, NEW g, NEW o, NEW A
    PROVE  /\ Record(p, "none", g, o, A) => Record(p, "ready", g, o, A)
           /\ Record(p, "ready", g, o, A) => Record(p, "cancelled", g, o, A)
           /\ Record(p, "dispatched", g, o, A) => \A s \in Ended : Record(p, s, g, o, A)
           /\ Record(p, "ready", g, o, A) /\ p \in Legacy =>
                 /\ Record(p, "cancelled", g, "legacy_unverified", A)
                 /\ \A a \in Agents : Record(p, "dispatched", a, "manual", A)
<1>1. \A s, t : t # "armed" /\ s # "armed" /\ ArmsFit(s, A) => ArmsFit(t, A)
  BY DEF ArmsFit
<1>2. \A a, b, c : c # "observed" /\ b # "observed" /\ EventsFit(g, c, A) => EventsFit(a, b, A)
  BY DEF EventsFit
<1>3. Record(p, "none", g, o, A) => Record(p, "ready", g, o, A)
  BY <1>1 DEF Record, OriginFits
<1>4. Record(p, "ready", g, o, A) => Record(p, "cancelled", g, o, A)
  BY <1>1 DEF Record, OriginFits
<1>5. Record(p, "dispatched", g, o, A) => \A s \in Ended : Record(p, s, g, o, A)
  BY <1>1 DEF Record, OriginFits, Ended
<1>6. Record(p, "ready", g, o, A) /\ p \in Legacy =>
                 /\ Record(p, "cancelled", g, "legacy_unverified", A)
                 /\ \A a \in Agents : Record(p, "dispatched", a, "manual", A)
  BY <1>1, <1>2, NoneIsNothing DEF Record, OriginFits
<1> QED BY <1>3, <1>4, <1>5, <1>6

-----------------------------------------------------------------------------
(* The whole document.                                                       *)
Records == \A p \in Packets : Record(p, status[p], agent[p], origin[p], arms[p])

AuthorityTyped ==
    /\ task \in {"open", "closed"}
    /\ plan \in Plans \cup {None} /\ file \in Plans
    /\ chief \in [record : 1..MaxRecords, live : BOOLEAN]

LEMMA CurrentArm ==
    ASSUME Records, NEW p \in Packets, status[p] = "armed"
    PROVE  /\ Current(p) \in DOMAIN arms[p] /\ Arm(p) = arms[p][Current(p)]
           /\ Arm(p).status = "armed" /\ Arm(p) \in Attempts /\ Arm(p).terms \in Terms
           /\ \A i \in DOMAIN arms[p] : arms[p][i].status = "armed" => i = Current(p)
<1>1. /\ arms[p] \in Seq(Attempts)
      /\ \E i \in DOMAIN arms[p] : arms[p][i].status = "armed"
      /\ \A i \in DOMAIN arms[p] : arms[p][i].status = "armed" => arms[p][i].terms \in Terms
      /\ \A i, j \in DOMAIN arms[p] : arms[p][i].status = "armed" /\ arms[p][j].status = "armed" => i = j
  BY DEF Records, Record, ArmsFit
<1>2. Current(p) \in DOMAIN arms[p] /\ arms[p][Current(p)].status = "armed"
  BY <1>1 DEF Current
<1> QED BY <1>1, <1>2 DEF Arm

LEMMA SweepRecords ==
    ASSUME Records, Shapes, NEW q \in Packets
    PROVE  Record(q, SweptStatus[q], agent[q], origin[q], SweptArms[q])
<1>1. CASE q \in Overdue
  <2>1. status[q] = "armed" /\ SweptStatus[q] = "ready" /\ SweptArms[q] = Closing(q, "expired", None)
    BY <1>1 DEF Overdue, SweptStatus, SweptArms
  <2>2. SweptArms[q] = [arms[q] EXCEPT ![Current(q)] = Closed(Arm(q), "expired", None)]
    BY <2>1, CurrentArm, ClosingIs DEF Records, Record, ArmsFit
  <2> QED BY <2>1, <2>2, CurrentArm, RecordClosed DEF Records
<1>2. CASE q \notin Overdue
  BY <1>2 DEF Records, SweptStatus, SweptArms
<1> QED BY <1>1, <1>2

LEMMA AuthorityStep ==
    ASSUME AuthorityTyped, [Next]_vars
    PROVE  AuthorityTyped'
<1> USE DEF AuthorityTyped
<1>1. CASE NewChief
  BY <1>1, DispatchAssumption DEF NewChief
<1>2. CASE ChiefLapse
  BY <1>2 DEF ChiefLapse
<1>3. CASE EditPlan
  BY <1>3 DEF EditPlan
<1>4. CASE ApprovePlan
  BY <1>4 DEF ApprovePlan
<1>5. ASSUME NEW left, EndTask(left)
      PROVE  AuthorityTyped'
  BY <1>5 DEF EndTask, authority
<1>6. ASSUME UNCHANGED <<task, authority>>
      PROVE  AuthorityTyped'
  BY <1>6 DEF authority
<1>7. CASE \/ UNCHANGED vars
           \/ \E s \in Sessions, cut \in Cuts : BindSession(s, cut) \/ UnbindSession(s, cut)
           \/ \E p \in Packets, cut \in Cuts : RepairMapping(p, cut)
           \/ \E e \in Events : AccountIncident(e)
           \/ \E p \in Packets : CreatePacket(p) \/ ArmLapse(p) \/ DisarmPacket(p)
           \/ \E p \in Packets, s \in Sessions, k \in Kinds, cut \in Cuts : ArmPacket(p, s, k, cut)
           \/ \E e \in Events, p \in Packets, cut \in Cuts : Consume(e, p, cut)
           \/ \E a \in Agents, p \in Packets, cut \in Cuts : ManualDispatch(p, a, cut)
           \/ \E e \in Events : RecordIncident(e)
           \/ \E e \in Events, p \in Packets : Resume(e, p) \/ SpawnHelper(e, p)
           \/ \E p \in Packets, s \in Ended : EndPacket(p, s)
           \/ \E j \in Jobs : StartJob(j) \/ EndJob(j)
  <2>1. UNCHANGED <<task, authority>>
    BY <1>7 DEF vars, BindSession, UnbindSession, RepairMapping, AccountIncident,
         CreatePacket, ArmLapse, DisarmPacket, ArmPacket, Consume, ManualDispatch,
         RecordIncident, Resume, SpawnHelper, EndPacket, StartJob, EndJob
  <2> QED BY <1>6, <2>1
<1> QED BY <1>1, <1>2, <1>3, <1>4, <1>5, <1>7, StepKinds DEF Outside

LEMMA RecordsStep ==
    ASSUME Records, Shapes, AuthorityTyped, [Next]_vars, NEW q \in Packets
    PROVE  Record(q, status[q], agent[q], origin[q], arms[q])'
<1>0. /\ Record(q, status[q], agent[q], origin[q], arms[q])
      /\ Record(q, SweptStatus[q], agent[q], origin[q], SweptArms[q])
      /\ DOMAIN SweptStatus = Packets /\ DOMAIN SweptArms = Packets
  BY SweepRecords DEF Records, SweptStatus, SweptArms
<1>1. CASE Outside
  BY <1>0, <1>1, OutsideFrame DEF packets
<1>2. ASSUME NEW p \in Packets, CreatePacket(p)
      PROVE  Record(q, status[q], agent[q], origin[q], arms[q])'
  <2>1. CASE p = q
    BY <2>1, <1>0, <1>2, RecordPlain DEF CreatePacket, Shapes
  <2>2. CASE p # q
    BY <2>2, <1>0, <1>2 DEF CreatePacket, Shapes
  <2> QED BY <2>1, <2>2
<1>3. ASSUME NEW p \in Packets, ArmLapse(p)
      PROVE  Record(q, status[q], agent[q], origin[q], arms[q])'
  <2>1. CASE p = q
    <3>1. /\ status[q] = "armed" /\ UNCHANGED <<status, agent, origin>>
          /\ arms'[q] = [arms[q] EXCEPT ![Current(q)] =
                           [arms[q][Current(q)] EXCEPT !.terms =
                              [arms[q][Current(q)].terms EXCEPT !.lapsed = TRUE]]]
      BY <2>1, <1>3 DEF ArmLapse, Shapes
    <3>2. PICK t : t = [arms[q][Current(q)].terms EXCEPT !.lapsed = TRUE]
      OBVIOUS
    <3>3. t \in Terms
      BY <3>1, <3>2, CurrentArm DEF Terms
    <3>4. arms'[q] = [arms[q] EXCEPT ![Current(q)] = [arms[q][Current(q)] EXCEPT !.terms = t]]
      BY <3>1, <3>2
    <3>5. Record(q, "armed", agent[q], origin[q], arms[q])
      BY <1>0, <3>1
    <3>6. Current(q) \in DOMAIN arms[q] /\ arms[q][Current(q)].status = "armed"
      BY <3>1, CurrentArm
    <3>7. Record(q, "armed", agent[q], origin[q], arms'[q])
      BY <3>3, <3>4, <3>5, <3>6, RecordLapsed
    <3> QED BY <3>1, <3>7
  <2>2. CASE p # q
    BY <2>2, <1>0, <1>3 DEF ArmLapse, Shapes
  <2> QED BY <2>1, <2>2
<1>4. ASSUME NEW p \in Packets, DisarmPacket(p)
      PROVE  Record(q, status[q], agent[q], origin[q], arms[q])'
  <2>1. CASE p = q
    <3>1. /\ status[q] = "armed" /\ status'[q] = "ready" /\ UNCHANGED <<agent, origin>>
          /\ arms'[q] = Closing(q, "disarmed", None)
      BY <2>1, <1>4 DEF DisarmPacket, Shapes
    <3>2. arms'[q] = [arms[q] EXCEPT ![Current(q)] = Closed(Arm(q), "disarmed", None)]
      BY <3>1, CurrentArm, ClosingIs DEF Records, Record, ArmsFit
    <3> QED BY <3>1, <3>2, <1>0, CurrentArm, RecordClosed
  <2>2. CASE p # q
    BY <2>2, <1>0, <1>4 DEF DisarmPacket, Shapes
  <2> QED BY <2>1, <2>2
<1>5. ASSUME NEW p \in Packets, NEW s \in Sessions, NEW k \in Kinds, NEW cut \in Cuts,
             ArmPacket(p, s, k, cut)
      PROVE  Record(q, status[q], agent[q], origin[q], arms[q])'
  <2>1. PICK a : a = [session |-> s, kind |-> k, status |-> "armed", event |-> None,
                      terms |-> [chief |-> chief.record, plan |-> plan, lapsed |-> FALSE]]
    OBVIOUS
  <2>2. /\ UNCHANGED <<agent, origin>> /\ SweptStatus[p] = "ready" /\ Len(arms[p]) < MaxArms
        /\ plan \in Plans
        /\ \/ UNCHANGED <<status, arms>>
           \/ /\ status' = [SweptStatus EXCEPT ![p] = "armed"]
              /\ arms' = [SweptArms EXCEPT ![p] = Append(@, a)]
    BY <1>5, <2>1 DEF ArmPacket, PlanReady, AuthorityTyped
  <2>3. /\ a \in Attempts /\ a.status = "armed" /\ a.event = None /\ a.terms \in Terms
    BY <2>1, <2>2 DEF Attempts, Terms, AuthorityTyped
  <2>4. CASE UNCHANGED <<status, arms>>
    BY <2>2, <2>4, <1>0
  <2>5. CASE /\ status' = [SweptStatus EXCEPT ![p] = "armed"]
             /\ arms' = [SweptArms EXCEPT ![p] = Append(@, a)]
    <3>1. CASE p = q
      <4>1. status'[q] = "armed" /\ arms'[q] = Append(SweptArms[q], a)
        BY <3>1, <2>5, <1>0
      <4>2. Len(SweptArms[q]) < MaxArms
        <5>1. CASE q \in Overdue
          <6>1. SweptArms[q] = Closing(q, "expired", None) /\ status[q] = "armed"
            BY <5>1 DEF SweptArms, Overdue
          <6>2. SweptArms[q] = [arms[q] EXCEPT ![Current(q)] = Closed(Arm(q), "expired", None)]
            BY <6>1, CurrentArm, ClosingIs DEF Records, Record, ArmsFit
          <6>3. Closed(Arm(q), "expired", None) \in Attempts /\ arms[q] \in Seq(Attempts)
            BY <6>1, CurrentArm, ClosedTyped DEF Records, Record, ArmsFit
          <6> QED BY <2>2, <3>1, <6>1, <6>2, <6>3, CurrentArm, ReplaceIn
        <5>2. CASE q \notin Overdue
          BY <5>2, <2>2, <3>1 DEF SweptArms
        <5> QED BY <5>1, <5>2
      <4> QED BY <4>1, <4>2, <3>1, <2>2, <2>3, <1>0, RecordMade
    <3>2. CASE p # q
      BY <3>2, <2>2, <2>5, <1>0
    <3> QED BY <3>1, <3>2
  <2> QED BY <2>2, <2>4, <2>5
<1>6. ASSUME NEW e \in Events, NEW p \in Packets, NEW cut \in Cuts, Consume(e, p, cut)
      PROVE  Record(q, status[q], agent[q], origin[q], arms[q])'
  <2>1. \/ UNCHANGED <<status, arms, agent, origin>>
        \/ /\ status' = [SweptStatus EXCEPT ![p] = "dispatched"]
           /\ arms' = [SweptArms EXCEPT ![p] = Closing(p, "consumed", e)]
           /\ agent' = [agent EXCEPT ![p] = e.agent]
           /\ origin' = [origin EXCEPT ![p] = "observed"]
    BY <1>6 DEF Consume
  <2>2. SweptStatus[p] = "armed" /\ Matches(Arm(p), e)
    BY <1>6 DEF Consume, Accepts, Candidates
  <2>3. status[p] = "armed"
    BY <2>2 DEF SweptStatus
  <2>4. CASE UNCHANGED <<status, arms, agent, origin>>
    BY <2>4, <1>0
  <2>5. CASE p = q /\ ~UNCHANGED <<status, arms, agent, origin>>
    <3>1. /\ status'[q] = "dispatched" /\ arms'[q] = Closing(q, "consumed", e)
          /\ agent'[q] = e.agent /\ origin'[q] = "observed"
      BY <2>1, <2>5, <1>0 DEF Shapes
    <3>2. arms'[q] = [arms[q] EXCEPT ![Current(q)] = Closed(Arm(q), "consumed", e)]
      BY <3>1, <2>3, <2>5, CurrentArm, ClosingIs DEF Records, Record, ArmsFit
    <3> QED BY <3>1, <3>2, <2>2, <2>3, <2>5, <1>0, CurrentArm, RecordTaken
  <2>6. CASE p # q /\ ~UNCHANGED <<status, arms, agent, origin>>
    BY <2>1, <2>6, <1>0 DEF Shapes
  <2> QED BY <2>4, <2>5, <2>6
<1>7. ASSUME NEW a \in Agents, NEW p \in Packets, NEW cut \in Cuts, ManualDispatch(p, a, cut)
      PROVE  Record(q, status[q], agent[q], origin[q], arms[q])'
  <2>1. /\ status[p] = "armed" \/ LegacyReady(p)
        /\ \/ UNCHANGED <<status, arms, agent, origin>>
           \/ /\ status' = [status EXCEPT ![p] = "dispatched"]
              /\ agent' = [agent EXCEPT ![p] = a]
              /\ origin' = [origin EXCEPT ![p] = "manual"]
              /\ arms' = [arms EXCEPT ![p] = IF status[p] = "armed"
                                              THEN Closing(p, "disarmed", None) ELSE @]
    BY <1>7 DEF ManualDispatch
  <2>2. CASE UNCHANGED <<status, arms, agent, origin>>
    BY <2>2, <1>0
  <2>3. CASE p = q /\ ~UNCHANGED <<status, arms, agent, origin>>
    <3>1. /\ status'[q] = "dispatched" /\ agent'[q] = a /\ origin'[q] = "manual"
          /\ arms'[q] = IF status[q] = "armed" THEN Closing(q, "disarmed", None) ELSE arms[q]
      BY <2>1, <2>3 DEF Shapes
    <3>2. CASE status[q] = "armed"
      <4>1. arms'[q] = [arms[q] EXCEPT ![Current(q)] = Closed(Arm(q), "disarmed", None)]
        BY <3>1, <3>2, CurrentArm, ClosingIs DEF Records, Record, ArmsFit
      <4> QED BY <3>1, <3>2, <4>1, <1>0, CurrentArm, RecordClosed
    <3>3. CASE status[q] # "armed"
      <4>1. status[q] = "ready" /\ q \in Legacy
        BY <3>3, <2>1, <2>3 DEF LegacyReady
      <4> QED BY <3>1, <3>3, <4>1, <1>0, RecordPlain
    <3> QED BY <3>2, <3>3
  <2>4. CASE p # q /\ ~UNCHANGED <<status, arms, agent, origin>>
    BY <2>1, <2>4, <1>0 DEF Shapes
  <2> QED BY <2>2, <2>3, <2>4
<1>8. ASSUME NEW p \in Packets, NEW s \in Ended, EndPacket(p, s)
      PROVE  Record(q, status[q], agent[q], origin[q], arms[q])'
  <2>1. CASE p = q
    <3>1. /\ status'[q] = s
          /\ \/ status[q] = "dispatched" /\ agent'[q] = agent[q]
             \/ status[q] \in {"ready", "armed"} /\ s = "cancelled"
          /\ arms'[q] = IF status[q] = "armed" THEN Closing(q, "disarmed", None) ELSE arms[q]
          /\ origin'[q] = IF LegacyReady(q) THEN "legacy_unverified" ELSE origin[q]
      BY <2>1, <1>8 DEF EndPacket, Shapes
    <3>2. CASE status[q] = "armed"
      <4>1. arms'[q] = [arms[q] EXCEPT ![Current(q)] = Closed(Arm(q), "disarmed", None)]
        BY <3>1, <3>2, CurrentArm, ClosingIs DEF Records, Record, ArmsFit
      <4>2. origin'[q] = origin[q] /\ s = "cancelled" /\ origin[q] = "none"
        BY <3>1, <3>2, <1>0 DEF LegacyReady, Record, OriginFits
      <4>3. Record(q, s, agent[q], origin'[q], arms'[q])
        BY <3>1, <3>2, <4>1, <4>2, <1>0, CurrentArm, RecordClosed
      <4> QED BY <3>1, <4>2, <4>3, RecordUnasked
    <3>3. CASE status[q] = "ready"
      <4>1. origin[q] = "none" /\ origin'[q] \notin {"observed", "manual"}
        BY <3>1, <3>3, <1>0 DEF Record, OriginFits
      <4>2. Record(q, s, agent[q], origin'[q], arms'[q])
        BY <3>1, <3>3, <1>0, RecordPlain DEF LegacyReady
      <4> QED BY <3>1, <4>1, <4>2, RecordUnasked
    <3>4. CASE status[q] = "dispatched"
      BY <3>1, <3>4, <1>0, RecordPlain DEF LegacyReady
    <3> QED BY <3>1, <3>2, <3>3, <3>4
  <2>2. CASE p # q
    BY <2>2, <1>0, <1>8 DEF EndPacket, Shapes
  <2> QED BY <2>1, <2>2
<1>9. CASE \/ \E e \in Events : RecordIncident(e)
           \/ \E e \in Events, p \in Packets : Resume(e, p) \/ SpawnHelper(e, p)
  <2>1. status' = SweptStatus /\ arms' = SweptArms /\ UNCHANGED <<agent, origin>>
    BY <1>9 DEF RecordIncident, Resume, SpawnHelper, Sweep
  <2> QED BY <2>1, <1>0
<1>10. CASE \/ \E j \in Jobs : StartJob(j) \/ EndJob(j)
            \/ \E left \in SUBSET Sessions : EndTask(left)
  BY <1>0, <1>10 DEF StartJob, EndJob, EndTask, packets
<1> QED BY <1>1, <1>2, <1>3, <1>4, <1>5, <1>6, <1>7, <1>8, <1>9, <1>10, StepKinds

-----------------------------------------------------------------------------
(* What a step may do to the arms.                                           *)
Same(p, i) == i \in DOMAIN arms'[p] /\ arms'[p][i] = arms[p][i]
Shut(p, i) ==
    /\ i \in DOMAIN arms'[p] /\ arms[p][i].status = "armed"
    /\ \E x \in {"disarmed", "expired"} : arms'[p][i] = Closed(arms[p][i], x, None)
Late(p, i) ==
    /\ i \in DOMAIN arms'[p] /\ arms[p][i].status = "armed"
    /\ arms'[p][i] = [arms[p][i] EXCEPT !.terms = [arms[p][i].terms EXCEPT !.lapsed = TRUE]]
Swept(p, i) == Same(p, i) \/ (Shut(p, i) /\ arms[p][i].terms.lapsed)

QuietArms ==
    \A p \in Packets : /\ DOMAIN arms'[p] = DOMAIN arms[p]
                       /\ \A i \in DOMAIN arms[p] : Same(p, i) \/ Shut(p, i) \/ Late(p, i)

Making(p, s, k) ==
    LET n == Len(arms[p]) + 1 IN
    /\ chief.live
    /\ DOMAIN arms'[p] = DOMAIN arms[p] \cup {n} /\ n \notin DOMAIN arms[p]
    /\ \A q \in Packets \ {p} : DOMAIN arms'[q] = DOMAIN arms[q]
    /\ \A q \in Packets : \A i \in DOMAIN arms[q] : Swept(q, i)
    /\ arms'[p][n] = [session |-> s, kind |-> k, status |-> "armed", event |-> None,
                      terms |-> [chief |-> chief.record, plan |-> plan, lapsed |-> FALSE]]
    /\ \A q \in Packets : \A i \in DOMAIN arms[q] :
          /\ arms[q][i].status = "armed" /\ ~arms[q][i].terms.lapsed /\ arms[q][i].session = s
          => ~Contend(k, arms[q][i].kind)

Taking(p, i, e) ==
    /\ i \in DOMAIN arms[p] /\ arms[p][i].status = "armed" /\ ~arms[p][i].terms.lapsed
    /\ chief.live /\ arms[p][i].terms.chief = chief.record
    /\ Matches(arms[p][i], e) /\ ~Known(e)
    /\ \A q \in Packets : DOMAIN arms'[q] = DOMAIN arms[q]
    /\ \A q \in Packets : \A j \in DOMAIN arms[q] : (q = p /\ j = i) \/ Swept(q, j)
    /\ arms'[p][i] = Closed(arms[p][i], "consumed", e)

LEMMA SweepMoves ==
    ASSUME Records, Shapes, NEW q \in Packets
    PROVE  /\ DOMAIN SweptArms[q] = DOMAIN arms[q] /\ Len(SweptArms[q]) = Len(arms[q])
           /\ SweptArms[q] \in Seq(Attempts)
           /\ \A i \in DOMAIN arms[q] :
                 \/ SweptArms[q][i] = arms[q][i]
                 \/ /\ arms[q][i].status = "armed" /\ arms[q][i].terms.lapsed
                    /\ SweptArms[q][i] = Closed(arms[q][i], "expired", None)
<1>0. arms[q] \in Seq(Attempts)
  BY DEF Records, Record, ArmsFit
<1>1. CASE q \in Overdue
  <2>1. /\ status[q] = "armed" /\ SweptArms[q] = Closing(q, "expired", None)
        /\ Arm(q).terms.lapsed
    BY <1>1 DEF Overdue, SweptArms
  <2>2. SweptArms[q] = [arms[q] EXCEPT ![Current(q)] = Closed(Arm(q), "expired", None)]
    BY <2>1, <1>0, CurrentArm, ClosingIs
  <2>3. Closed(Arm(q), "expired", None) \in Attempts
    BY <2>1, CurrentArm, ClosedTyped
  <2> QED BY <1>0, <2>1, <2>2, <2>3, CurrentArm, ReplaceIn
<1>2. CASE q \notin Overdue
  BY <1>0, <1>2 DEF SweptArms
<1> QED BY <1>1, <1>2

(* The sweep and then an arm of p replaced.                                  *)
LEMMA SweptIsSwept ==
    ASSUME Records, Shapes, NEW q \in Packets, arms'[q] = SweptArms[q]
    PROVE  DOMAIN arms'[q] = DOMAIN arms[q] /\ \A i \in DOMAIN arms[q] : Swept(q, i)
BY SweepMoves DEF Swept, Same, Shut

LEMMA ArmsQuiet ==
    ASSUME Records, Shapes, [Next]_vars,
           \A p \in Packets, s \in Sessions, k \in Kinds, cut \in Cuts : ~ArmPacket(p, s, k, cut),
           \A e \in Events, p \in Packets, cut \in Cuts : ~Consume(e, p, cut)
    PROVE  QuietArms
<1>0. \A p \in Packets : arms[p] \in Seq(Attempts)
  BY DEF Records, Record, ArmsFit
<1>1. ASSUME NEW q \in Packets, arms'[q] = arms[q]
      PROVE  DOMAIN arms'[q] = DOMAIN arms[q] /\ \A i \in DOMAIN arms[q] : Same(q, i)
  BY <1>1 DEF Same
<1>2. ASSUME arms' = arms PROVE QuietArms
  BY <1>1, <1>2 DEF QuietArms
<1>3. ASSUME NEW p \in Packets, status[p] = "armed",
             arms' = [arms EXCEPT ![p] = Closing(p, "disarmed", None)]
      PROVE  QuietArms
  <2>1. \A q \in Packets \ {p} : arms'[q] = arms[q]
    BY <1>3 DEF Shapes
  <2>2. arms'[p] = [arms[p] EXCEPT ![Current(p)] = Closed(Arm(p), "disarmed", None)]
    <3>1. arms'[p] = Closing(p, "disarmed", None)
      BY <1>3 DEF Shapes
    <3> QED BY <1>0, <1>3, <3>1, CurrentArm, ClosingIs
  <2>3. Closed(Arm(p), "disarmed", None) \in Attempts
    BY <1>3, CurrentArm, ClosedTyped
  <2>4. /\ DOMAIN arms'[p] = DOMAIN arms[p]
        /\ \A i \in DOMAIN arms[p] : Same(p, i) \/ Shut(p, i)
    BY <1>0, <1>3, <2>2, <2>3, CurrentArm, ReplaceIn DEF Same, Shut
  <2> QED BY <1>1, <2>1, <2>4 DEF QuietArms
<1>4. CASE Outside
  BY <1>2, <1>4, OutsideFrame DEF packets
<1>5. ASSUME NEW p \in Packets, ArmLapse(p)
      PROVE  QuietArms
  <2>1. /\ status[p] = "armed" /\ \A q \in Packets \ {p} : arms'[q] = arms[q]
        /\ arms'[p] = [arms[p] EXCEPT ![Current(p)] =
                           [arms[p][Current(p)] EXCEPT !.terms =
                              [arms[p][Current(p)].terms EXCEPT !.lapsed = TRUE]]]
    BY <1>5 DEF ArmLapse, Shapes
  <2>2. /\ DOMAIN arms'[p] = DOMAIN arms[p]
        /\ \A i \in DOMAIN arms[p] : Same(p, i) \/ Late(p, i)
    BY <1>0, <2>1, CurrentArm DEF Same, Late
  <2> QED BY <1>1, <2>1, <2>2 DEF QuietArms
<1>6. ASSUME NEW p \in Packets, CreatePacket(p) \/ DisarmPacket(p)
      PROVE  QuietArms
  BY <1>2, <1>3, <1>6 DEF CreatePacket, DisarmPacket
<1>7. ASSUME NEW a \in Agents, NEW p \in Packets, NEW cut \in Cuts, ManualDispatch(p, a, cut)
      PROVE  QuietArms
  <2>1. \/ arms' = arms
        \/ status[p] = "armed" /\ arms' = [arms EXCEPT ![p] = Closing(p, "disarmed", None)]
    BY <1>7 DEF ManualDispatch, Shapes
  <2> QED BY <1>2, <1>3, <2>1
<1>8. ASSUME NEW p \in Packets, NEW s \in Ended, EndPacket(p, s)
      PROVE  QuietArms
  <2>1. \/ arms' = arms
        \/ status[p] = "armed" /\ arms' = [arms EXCEPT ![p] = Closing(p, "disarmed", None)]
    BY <1>8 DEF EndPacket, Shapes
  <2> QED BY <1>2, <1>3, <2>1
<1>9. CASE \/ \E e \in Events : RecordIncident(e)
           \/ \E e \in Events, p \in Packets : Resume(e, p) \/ SpawnHelper(e, p)
  <2>1. arms' = SweptArms
    BY <1>9 DEF RecordIncident, Resume, SpawnHelper, Sweep
  <2> QED BY <2>1, SweptIsSwept DEF Swept, QuietArms
<1>10. CASE \/ \E j \in Jobs : StartJob(j) \/ EndJob(j)
            \/ \E left \in SUBSET Sessions : EndTask(left)
  <2>1. arms' = arms
    BY <1>10 DEF StartJob, EndJob, EndTask, packets
  <2> QED BY <1>2, <2>1
<1> QED BY <1>4, <1>5, <1>6, <1>7, <1>8, <1>9, <1>10, StepKinds

LEMMA ArmsMade ==
    ASSUME Records, Shapes, NEW p \in Packets, NEW s \in Sessions, NEW k \in Kinds,
           NEW cut \in Cuts, ArmPacket(p, s, k, cut)
    PROVE  arms' = arms \/ (Making(p, s, k) /\ chief' = chief)
<1> SUFFICES ASSUME arms' # arms PROVE Making(p, s, k) /\ chief' = chief
  OBVIOUS
<1>1. PICK a : a = [session |-> s, kind |-> k, status |-> "armed", event |-> None,
                    terms |-> [chief |-> chief.record, plan |-> plan, lapsed |-> FALSE]]
  OBVIOUS
<1>2. arms' = [SweptArms EXCEPT ![p] = Append(@, a)] /\ chief' = chief /\ chief.live
  BY <1>1 DEF ArmPacket, authority, Commanded
<1>3. arms'[p] = Append(SweptArms[p], a) /\ \A q \in Packets \ {p} : arms'[q] = SweptArms[q]
  BY <1>2 DEF SweptArms
<1>4. PICK n : n = Len(arms[p]) + 1
  OBVIOUS
<1>5. /\ DOMAIN arms'[p] = DOMAIN arms[p] \cup {n} /\ n \notin DOMAIN arms[p] /\ arms'[p][n] = a
      /\ \A i \in DOMAIN arms[p] : arms'[p][i] = SweptArms[p][i]
  <2>1. PICK B : B = SweptArms[p]
    OBVIOUS
  <2>2. /\ B \in Seq(Attempts) /\ Len(B) = Len(arms[p]) /\ DOMAIN B = DOMAIN arms[p]
    BY <2>1, SweepMoves
  <2>3. Len(B) \in Nat /\ DOMAIN B = 1 .. Len(B)
    BY <2>2
  <2>4. /\ DOMAIN Append(B, a) = 1 .. Len(B) + 1 /\ Append(B, a)[Len(B) + 1] = a
        /\ \A i \in 1 .. Len(B) : Append(B, a)[i] = B[i]
    BY <2>2
  <2> QED BY <1>3, <1>4, <2>1, <2>2, <2>3, <2>4
<1>6. \A i \in DOMAIN arms[p] : Swept(p, i)
  BY <1>5, SweepMoves DEF Swept, Same, Shut
<1>7. \A q \in Packets \ {p} : DOMAIN arms'[q] = DOMAIN arms[q] /\ \A i \in DOMAIN arms[q] : Swept(q, i)
  BY <1>3, SweptIsSwept
<1>8. ASSUME NEW q \in Packets, NEW i \in DOMAIN arms[q],
             arms[q][i].status = "armed", ~arms[q][i].terms.lapsed, arms[q][i].session = s
      PROVE  ~Contend(k, arms[q][i].kind)
  <2>1. status[q] = "armed"
    BY <1>8 DEF Records, Record, ArmsFit
  <2>2. i = Current(q) /\ Arm(q) = arms[q][i]
    BY <2>1, <1>8, CurrentArm
  <2>3. SweptStatus[q] = "armed"
    BY <2>1, <2>2, <1>8 DEF SweptStatus, Overdue
  <2> QED BY <2>2, <2>3, <1>8 DEF ArmPacket
<1> QED BY <1>1, <1>2, <1>4, <1>5, <1>6, <1>7, <1>8 DEF Making

LEMMA ArmsTaken ==
    ASSUME Records, Shapes, NEW p \in Packets, NEW e \in Events,
           NEW cut \in Cuts, Consume(e, p, cut)
    PROVE  arms' = arms \/ (Taking(p, Current(p), e) /\ chief' = chief)
<1> SUFFICES ASSUME arms' # arms PROVE Taking(p, Current(p), e) /\ chief' = chief
  OBVIOUS
<1>1. /\ arms' = [SweptArms EXCEPT ![p] = Closing(p, "consumed", e)] /\ chief' = chief
      /\ ~Known(e) /\ p \in Candidates(e) /\ ValidArm(p, SweptStatus)
  BY DEF Consume, Arrived, Accepts, authority
<1>2. status[p] = "armed" /\ Matches(Arm(p), e)
  BY <1>1 DEF Candidates, SweptStatus
<1>3. /\ ~Arm(p).terms.lapsed /\ chief.live /\ Arm(p).terms.chief = chief.record
  BY <1>1 DEF ValidArm
<1>4. arms'[p] = [arms[p] EXCEPT ![Current(p)] = Closed(Arm(p), "consumed", e)]
  BY <1>1, <1>2, CurrentArm, ClosingIs DEF SweptArms, Records, Record, ArmsFit
<1>5. /\ DOMAIN arms'[p] = DOMAIN arms[p] /\ arms'[p][Current(p)] = Closed(Arm(p), "consumed", e)
      /\ \A j \in DOMAIN arms[p] \ {Current(p)} : arms'[p][j] = arms[p][j]
  <2>1. Closed(Arm(p), "consumed", e) \in Attempts /\ arms[p] \in Seq(Attempts)
    BY <1>2, CurrentArm, ClosedTyped DEF Records, Record, ArmsFit
  <2> QED BY <1>2, <1>4, <2>1, CurrentArm, ReplaceIn
<1>6. \A q \in Packets \ {p} : DOMAIN arms'[q] = DOMAIN arms[q] /\ \A i \in DOMAIN arms[q] : Swept(q, i)
  BY <1>1, SweptIsSwept DEF SweptArms
<1>7. \A j \in DOMAIN arms[p] \ {Current(p)} : Swept(p, j)
  BY <1>5 DEF Swept, Same
<1> QED BY <1>1, <1>2, <1>3, <1>5, <1>6, <1>7, CurrentArm DEF Taking

-----------------------------------------------------------------------------
(* The entries a start e has in the document: an arm it consumed, a packet   *)
(* it resumed or helps, an incident.                                         *)
Entry(e, kind, p, i) ==
    \/ kind = "arm" /\ p \in Packets /\ i \in DOMAIN arms[p] /\ arms[p][i].event = e
    \/ kind = "resumed" /\ p \in Packets /\ i = 0 /\ e \in resumed[p]
    \/ kind = "helper" /\ p \in Packets /\ i = 0 /\ e \in helpers[p]
    \/ kind = "incident" /\ p = None /\ i = 0 /\ incidents[e] # "none"

EntryUnique ==
    \A e \in Events : \A k, p, i, l, q, j :
        Entry(e, k, p, i) /\ Entry(e, l, q, j) => k = l /\ p = q /\ i = j

EntryTyped ==
    /\ resumed \in [Packets -> SUBSET Events] /\ helpers \in [Packets -> SUBSET Events]
    /\ incidents \in [Events -> {"none", "open", "accounted"}]

LEMMA KnownByEntry ==
    ASSUME NEW e, ~Known(e)
    PROVE  \A k, p, i : ~Entry(e, k, p, i)
BY DEF Known, ConsumedBy, Entry

(* The arms a step leaves show no event they did not show before.           *)
LEMMA SweptShowsNothing ==
    ASSUME NEW p, NEW i, Swept(p, i) \/ Same(p, i) \/ Shut(p, i), NEW e \in Events,
           arms'[p][i].event = e
    PROVE  arms[p][i].event = e
BY NoneIsNothing DEF Swept, Same, Shut, Closed

LEMMA QuietShowsNothing ==
    ASSUME Records, QuietArms, NEW e \in Events, NEW p \in Packets, NEW i \in DOMAIN arms'[p],
           arms'[p][i].event = e
    PROVE  i \in DOMAIN arms[p] /\ arms[p][i].event = e
<1>1. i \in DOMAIN arms[p] /\ (Same(p, i) \/ Shut(p, i) \/ Late(p, i))
  BY DEF QuietArms
<1>2. CASE Late(p, i)
  <2>1. arms[p][i] \in Attempts
    BY <1>1 DEF Records, Record, ArmsFit
  <2>2. arms'[p][i].event = arms[p][i].event
    BY <2>1, <1>2 DEF Late, Attempts
  <2> QED BY <1>1, <2>2
<1> QED BY <1>1, <1>2, SweptShowsNothing

(* A step adds nothing to what the document says of e, or it adds one entry  *)
(* where there was none.                                                     *)
Grows(e) ==
    \/ \A k, p, i : Entry(e, k, p, i)' => Entry(e, k, p, i)
    \/ /\ ~Known(e)
       /\ \E l, q, j : \A k, p, i :
             Entry(e, k, p, i)' => Entry(e, k, p, i) \/ (k = l /\ p = q /\ i = j)

LEMMA EntriesGrow ==
    ASSUME Records, Shapes, EntryTyped, [Next]_vars
    PROVE  EntryTyped' /\ \A e \in Events : Grows(e)
<1>1. ASSUME NEW q \in Packets, NEW s \in Sessions, NEW k \in Kinds, NEW cut \in Cuts,
             ArmPacket(q, s, k, cut)
      PROVE  EntryTyped' /\ \A e \in Events : Grows(e)
  <2>1. UNCHANGED ledger
    BY <1>1 DEF ArmPacket
  <2>2. ASSUME NEW e \in Events, NEW p \in Packets, NEW i \in DOMAIN arms'[p], arms'[p][i].event = e
        PROVE  i \in DOMAIN arms[p] /\ arms[p][i].event = e
    <3>1. CASE arms' = arms
      BY <2>2, <3>1
    <3>2. CASE Making(q, s, k)
      <4>1. i \in DOMAIN arms[p]
        <5>1. CASE p = q
          <6>1. arms'[p][Len(arms[p]) + 1].event = None
            BY <5>1, <3>2 DEF Making
          <6> QED BY <6>1, <5>1, <2>2, <3>2, NoneIsNothing DEF Making
        <5>2. CASE p # q
          BY <5>2, <3>2 DEF Making
        <5> QED BY <5>1, <5>2
      <4>2. Swept(p, i)
        BY <4>1, <3>2 DEF Making
      <4> QED BY <2>2, <4>1, <4>2, SweptShowsNothing
    <3> QED BY <3>1, <3>2, <1>1, ArmsMade
  <2> QED BY <2>1, <2>2 DEF Grows, Entry, EntryTyped, ledger
<1>2. ASSUME NEW e \in Events, NEW q \in Packets, NEW cut \in Cuts, Consume(e, q, cut)
      PROVE  EntryTyped' /\ \A f \in Events : Grows(f)
  <2>1. UNCHANGED ledger /\ ~Known(e)
    BY <1>2 DEF Consume, Arrived
  <2>2. ASSUME NEW f \in Events, NEW p \in Packets, NEW i \in DOMAIN arms'[p], arms'[p][i].event = f
        PROVE  \/ i \in DOMAIN arms[p] /\ arms[p][i].event = f
               \/ f = e /\ p = q /\ i = Current(q)
    <3>1. CASE arms' = arms
      BY <2>2, <3>1
    <3>2. CASE Taking(q, Current(q), e)
      <4>1. i \in DOMAIN arms[p]
        BY <3>2 DEF Taking
      <4>2. CASE p = q /\ i = Current(q)
        BY <4>2, <2>2, <3>2 DEF Taking, Closed
      <4>3. CASE Swept(p, i)
        BY <4>1, <4>3, <2>2, SweptShowsNothing
      <4> QED BY <4>1, <4>2, <4>3, <3>2 DEF Taking
    <3> QED BY <3>1, <3>2, <1>2, ArmsTaken
  <2>3. ASSUME NEW f \in Events PROVE Grows(f)
    <3>1. CASE f = e
      <4>1. \A k, p, i : Entry(f, k, p, i)' =>
               Entry(f, k, p, i) \/ (k = "arm" /\ p = q /\ i = Current(q))
        BY <2>1, <2>2 DEF Entry, ledger
      <4> QED BY <3>1, <4>1, <2>1 DEF Grows
    <3>2. CASE f # e
      BY <3>2, <2>1, <2>2 DEF Grows, Entry, ledger
    <3> QED BY <3>1, <3>2
  <2>4. EntryTyped'
    BY <2>1 DEF EntryTyped, ledger
  <2> QED BY <2>3, <2>4
<1>3. ASSUME QuietArms, UNCHANGED <<resumed, helpers>>,
             \/ incidents' = incidents
             \/ \E e \in Events : /\ incidents[e] # "none"
                                    /\ incidents' = [incidents EXCEPT ![e] = "accounted"]
      PROVE  EntryTyped' /\ \A f \in Events : Grows(f)
  <2>1. EntryTyped' /\ \A f \in Events : incidents'[f] # "none" => incidents[f] # "none"
    BY <1>3 DEF EntryTyped
  <2>2. ASSUME NEW f \in Events, NEW k, NEW p, NEW i, Entry(f, k, p, i)'
        PROVE  Entry(f, k, p, i)
    BY <1>3, <2>1, <2>2, QuietShowsNothing DEF Entry
  <2> QED BY <2>1, <2>2 DEF Grows
<1>4. ASSUME NEW e \in Events, NEW q \in Packets, Resume(e, q), QuietArms
      PROVE  EntryTyped' /\ \A f \in Events : Grows(f)
  <2>1. /\ ~Known(e) /\ resumed' = [resumed EXCEPT ![q] = @ \cup {e}]
        /\ UNCHANGED <<incidents, helpers>>
    BY <1>4 DEF Resume, Arrived
  <2>2. EntryTyped'
    BY <2>1 DEF EntryTyped
  <2>3. \A f \in Events, p \in Packets : f \in resumed'[p] => f \in resumed[p] \/ (f = e /\ p = q)
    BY <2>1 DEF EntryTyped
  <2>4. ASSUME NEW f \in Events, NEW k, NEW p, NEW i, Entry(f, k, p, i)'
        PROVE  Entry(f, k, p, i) \/ (f = e /\ k = "resumed" /\ p = q /\ i = 0)
    BY <1>4, <2>1, <2>3, <2>4, QuietShowsNothing DEF Entry
  <2> QED BY <2>1, <2>2, <2>4 DEF Grows
<1>5. ASSUME NEW e \in Events, NEW q \in Packets, SpawnHelper(e, q), QuietArms
      PROVE  EntryTyped' /\ \A f \in Events : Grows(f)
  <2>1. /\ ~Known(e) /\ helpers' = [helpers EXCEPT ![q] = @ \cup {e}]
        /\ UNCHANGED <<incidents, resumed>>
    BY <1>5 DEF SpawnHelper, Arrived
  <2>2. EntryTyped'
    BY <2>1 DEF EntryTyped
  <2>3. \A f \in Events, p \in Packets : f \in helpers'[p] => f \in helpers[p] \/ (f = e /\ p = q)
    BY <2>1 DEF EntryTyped
  <2>4. ASSUME NEW f \in Events, NEW k, NEW p, NEW i, Entry(f, k, p, i)'
        PROVE  Entry(f, k, p, i) \/ (f = e /\ k = "helper" /\ p = q /\ i = 0)
    BY <1>5, <2>1, <2>3, <2>4, QuietShowsNothing DEF Entry
  <2> QED BY <2>1, <2>2, <2>4 DEF Grows
<1>6. ASSUME NEW e \in Events, RecordIncident(e), QuietArms
      PROVE  EntryTyped' /\ \A f \in Events : Grows(f)
  <2>1. /\ ~Known(e) /\ incidents' = [incidents EXCEPT ![e] = "open"]
        /\ UNCHANGED <<helpers, resumed>>
    BY <1>6 DEF RecordIncident, Arrived
  <2>2. EntryTyped'
    BY <2>1 DEF EntryTyped
  <2>3. \A f \in Events : incidents'[f] # "none" => incidents[f] # "none" \/ f = e
    BY <2>1 DEF EntryTyped
  <2>4. ASSUME NEW f \in Events, NEW k, NEW p, NEW i, Entry(f, k, p, i)'
        PROVE  Entry(f, k, p, i) \/ (f = e /\ k = "incident" /\ p = None /\ i = 0)
    BY <1>6, <2>1, <2>3, <2>4, QuietShowsNothing DEF Entry
  <2> QED BY <2>1, <2>2, <2>4 DEF Grows
<1>7. ASSUME NEW e \in Events, AccountIncident(e), QuietArms
      PROVE  EntryTyped' /\ \A f \in Events : Grows(f)
  BY <1>3, <1>7 DEF AccountIncident
<1>8. ASSUME QuietArms,
             \/ NewChief \/ ChiefLapse \/ EditPlan \/ ApprovePlan \/ UNCHANGED vars
             \/ \E s \in Sessions, cut \in Cuts : BindSession(s, cut) \/ UnbindSession(s, cut)
             \/ \E p \in Packets, cut \in Cuts : RepairMapping(p, cut)
             \/ \E p \in Packets : CreatePacket(p) \/ ArmLapse(p) \/ DisarmPacket(p)
             \/ \E a \in Agents, p \in Packets, cut \in Cuts : ManualDispatch(p, a, cut)
             \/ \E p \in Packets, s \in Ended : EndPacket(p, s)
             \/ \E j \in Jobs : StartJob(j) \/ EndJob(j)
             \/ \E left \in SUBSET Sessions : EndTask(left)
      PROVE  EntryTyped' /\ \A f \in Events : Grows(f)
  <2>1. UNCHANGED <<incidents, resumed, helpers>>
    BY <1>8 DEF NewChief, ChiefLapse, EditPlan, ApprovePlan, vars, BindSession, UnbindSession,
                RepairMapping, CreatePacket, ArmLapse, DisarmPacket, ManualDispatch, EndPacket,
                StartJob, EndJob, EndTask, ledger
  <2> QED BY <2>1, <1>3, <1>8
<1>9. CASE /\ \A p \in Packets, s \in Sessions, k \in Kinds, cut \in Cuts : ~ArmPacket(p, s, k, cut)
           /\ \A e \in Events, p \in Packets, cut \in Cuts : ~Consume(e, p, cut)
  <2>1. QuietArms
    BY <1>9, ArmsQuiet
  <2> QED BY <2>1, <1>4, <1>5, <1>6, <1>7, <1>8, <1>9, StepKinds DEF Outside
<1> QED BY <1>1, <1>2, <1>9

LEMMA EntryUniqueStep ==
    ASSUME EntryUnique, \A e \in Events : Grows(e)
    PROVE  EntryUnique'
<1> SUFFICES ASSUME NEW e \in Events, NEW k, NEW p, NEW i, NEW l, NEW q, NEW j,
                    Entry(e, k, p, i)', Entry(e, l, q, j)'
             PROVE  k = l /\ p = q /\ i = j
  BY DEF EntryUnique
<1>1. CASE \A a, b, c : Entry(e, a, b, c)' => Entry(e, a, b, c)
  BY <1>1 DEF EntryUnique
<1>2. CASE ~Known(e) /\ \E a, b, c : \A x, y, z :
                Entry(e, x, y, z)' => Entry(e, x, y, z) \/ (x = a /\ y = b /\ z = c)
  BY <1>2, KnownByEntry
<1> QED BY <1>1, <1>2 DEF Grows

(* Unique entries are what AccountedOnce counts.                            *)
LEMMA AtMostOne ==
    ASSUME NEW S, \A x, y \in S : x = y
    PROVE  Cardinality(S) \in {0, 1} /\ (S = {} => Cardinality(S) = 0)
<1>1. CASE S = {}
  BY <1>1, FS_EmptySet
<1>2. CASE S # {}
  <2>1. PICK x \in S : TRUE
    BY <1>2
  <2>2. S = {x}
    BY <2>1
  <2> QED BY <2>2, <1>2, FS_Singleton
<1> QED BY <1>1, <1>2

LEMMA UniqueAccounts ==
    ASSUME EntryUnique
    PROVE  AccountedOnce
<1> SUFFICES ASSUME NEW e \in Events
             PROVE  LET consumed == {o \in Packets \X (1..MaxArms) :
                                       o[2] \in DOMAIN arms[o[1]] /\ arms[o[1]][o[2]].event = e}
                        joined   == {p \in Packets : e \in resumed[p]}
                        helping  == {p \in Packets : e \in helpers[p]} IN
                    Cardinality(consumed) + Cardinality(joined) + Cardinality(helping)
                        + (IF incidents[e] = "none" THEN 0 ELSE 1) <= 1
  BY DEF AccountedOnce
<1>1. PICK C, J, H :
        /\ C = {o \in Packets \X (1..MaxArms) :
                    o[2] \in DOMAIN arms[o[1]] /\ arms[o[1]][o[2]].event = e}
        /\ J = {p \in Packets : e \in resumed[p]}
        /\ H = {p \in Packets : e \in helpers[p]}
  OBVIOUS
<1>2. /\ \A o \in C : Entry(e, "arm", o[1], o[2])
      /\ \A p \in J : Entry(e, "resumed", p, 0)
      /\ \A p \in H : Entry(e, "helper", p, 0)
      /\ incidents[e] # "none" => Entry(e, "incident", None, 0)
  BY <1>1 DEF Entry
<1>3. \A x, y \in C : x = y
  <2> SUFFICES ASSUME NEW x \in C, NEW y \in C PROVE x = y
    OBVIOUS
  <2>1. x[1] = y[1] /\ x[2] = y[2]
    BY <1>2 DEF EntryUnique
  <2>2. x = <<x[1], x[2]>> /\ y = <<y[1], y[2]>>
    BY <1>1
  <2> QED BY <2>1, <2>2
<1>4. (\A x, y \in J : x = y) /\ (\A x, y \in H : x = y)
  BY <1>2 DEF EntryUnique
<1>5. /\ C # {} => J = {} /\ H = {} /\ incidents[e] = "none"
      /\ J # {} => C = {} /\ H = {} /\ incidents[e] = "none"
      /\ H # {} => C = {} /\ J = {} /\ incidents[e] = "none"
  <2>1. ASSUME NEW k, NEW p, NEW i, NEW l, NEW q, NEW j, Entry(e, k, p, i), Entry(e, l, q, j)
        PROVE  k = l
    BY <2>1 DEF EntryUnique
  <2> QED BY <1>2, <2>1
<1>6. /\ Cardinality(C) \in {0, 1} /\ (C = {} => Cardinality(C) = 0)
      /\ Cardinality(J) \in {0, 1} /\ (J = {} => Cardinality(J) = 0)
      /\ Cardinality(H) \in {0, 1} /\ (H = {} => Cardinality(H) = 0)
  BY <1>3, <1>4, AtMostOne
<1>7. Cardinality(C) + Cardinality(J) + Cardinality(H)
          + (IF incidents[e] = "none" THEN 0 ELSE 1) <= 1
  BY <1>5, <1>6
<1> QED BY <1>1, <1>7

-----------------------------------------------------------------------------
(* The open arms of one parent do not contend.                              *)
OpenArm(p, i) ==
    i \in DOMAIN arms[p] /\ arms[p][i].status = "armed" /\ ~arms[p][i].terms.lapsed

SlotsApart ==
    \A p, q \in Packets : \A i \in DOMAIN arms[p], j \in DOMAIN arms[q] :
        /\ OpenArm(p, i) /\ OpenArm(q, j)
        /\ arms[p][i].session = arms[q][j].session
        /\ Contend(arms[p][i].kind, arms[q][j].kind)
        => p = q /\ i = j

(* An arm was issued under the current Chief record or an earlier one.      *)
IssuedBefore ==
    \A p \in Packets : \A i \in DOMAIN arms[p] :
        arms[p][i].status = "armed" => arms[p][i].terms.chief <= chief.record

LEMMA ArmedTerms ==
    ASSUME Records, NEW p \in Packets, NEW i \in DOMAIN arms[p]
    PROVE  /\ arms[p][i] \in Attempts
           /\ arms[p][i].status = "armed" => arms[p][i].terms \in Terms
BY DEF Records, Record, ArmsFit

LEMMA StaysOpen ==
    ASSUME Records, NEW p \in Packets, NEW i \in DOMAIN arms[p],
           Same(p, i) \/ Shut(p, i) \/ Late(p, i) \/ Swept(p, i)
    PROVE  /\ OpenArm(p, i)' => OpenArm(p, i) /\ arms'[p][i] = arms[p][i]
           /\ arms'[p][i].status = "armed" =>
                 arms[p][i].status = "armed" /\ arms'[p][i].terms.chief = arms[p][i].terms.chief
<1>1. CASE Same(p, i)
  BY <1>1 DEF Same, OpenArm
<1>2. CASE Shut(p, i)
  <2>1. arms'[p][i].status # "armed"
    BY <1>2 DEF Shut, Closed
  <2> QED BY <2>1 DEF OpenArm
<1>3. CASE Late(p, i)
  <2>1. PICK a \in Attempts : a = arms[p][i] /\ a.terms \in Terms /\ a.status = "armed"
    BY <1>3, ArmedTerms DEF Late
  <2>2. PICK t : t = [a.terms EXCEPT !.lapsed = TRUE]
    OBVIOUS
  <2>3. t.lapsed = TRUE /\ t.chief = a.terms.chief
    BY <2>1, <2>2 DEF Terms
  <2>4. arms'[p][i] = [a EXCEPT !.terms = t]
    BY <2>1, <2>2, <1>3 DEF Late
  <2>5. arms'[p][i].terms = t
    BY <2>1, <2>4 DEF Attempts
  <2> QED BY <2>1, <2>3, <2>5 DEF OpenArm
<1> QED BY <1>1, <1>2, <1>3 DEF Swept

LEMMA ChiefMoves ==
    ASSUME AuthorityTyped, [Next]_vars
    PROVE  /\ chief' = chief \/ arms' = arms
           /\ \/ chief' = chief
              \/ chief'.record = chief.record + 1
              \/ chief'.record = chief.record /\ chief'.live = FALSE
<1>1. CASE NewChief
  BY <1>1 DEF NewChief, packets
<1>2. CASE ChiefLapse
  BY <1>2 DEF ChiefLapse, packets, AuthorityTyped
<1>3. CASE \/ EditPlan \/ ApprovePlan \/ UNCHANGED vars
           \/ \E s \in Sessions, cut \in Cuts : BindSession(s, cut) \/ UnbindSession(s, cut)
           \/ \E p \in Packets, cut \in Cuts : RepairMapping(p, cut)
           \/ \E e \in Events : AccountIncident(e)
           \/ \E p \in Packets : CreatePacket(p) \/ ArmLapse(p) \/ DisarmPacket(p)
           \/ \E p \in Packets, s \in Sessions, k \in Kinds, cut \in Cuts : ArmPacket(p, s, k, cut)
           \/ \E e \in Events, p \in Packets, cut \in Cuts : Consume(e, p, cut)
           \/ \E a \in Agents, p \in Packets, cut \in Cuts : ManualDispatch(p, a, cut)
           \/ \E e \in Events : RecordIncident(e)
           \/ \E e \in Events, p \in Packets : Resume(e, p) \/ SpawnHelper(e, p)
           \/ \E p \in Packets, s \in Ended : EndPacket(p, s)
           \/ \E j \in Jobs : StartJob(j) \/ EndJob(j)
           \/ \E left \in SUBSET Sessions : EndTask(left)
  <2>1. chief' = chief
    BY ZenonT(40), <1>3 DEF EditPlan, ApprovePlan, vars, BindSession, UnbindSession, RepairMapping,
         AccountIncident, CreatePacket, ArmLapse, DisarmPacket, ArmPacket, Consume,
         ManualDispatch, RecordIncident, Resume, SpawnHelper, EndPacket, StartJob, EndJob,
         EndTask, authority
  <2> QED BY <2>1
<1> QED BY <1>1, <1>2, <1>3, StepKinds DEF Outside

(* The three ways the arms may move.                                        *)
LEMMA ArmsMove ==
    ASSUME Records, Shapes, [Next]_vars
    PROVE  \/ QuietArms
           \/ \E p \in Packets, s \in Sessions, k \in Kinds : Making(p, s, k) /\ chief' = chief
           \/ \E p \in Packets, e \in Events : Taking(p, Current(p), e) /\ chief' = chief
<1>1. ASSUME arms' = arms PROVE QuietArms
  BY <1>1 DEF QuietArms, Same
<1> QED BY <1>1, ArmsQuiet, ArmsMade, ArmsTaken

LEMMA SlotsStep ==
    ASSUME Records, Shapes, AuthorityTyped, SlotsApart, IssuedBefore, [Next]_vars
    PROVE  SlotsApart' /\ IssuedBefore'
<1>0. chief.record \in Nat /\ chief'.record \in Nat /\ chief.record <= chief'.record
  <2>1. AuthorityTyped'
    BY AuthorityStep
  <2>2. chief.record \in Nat /\ chief'.record \in Nat
    BY <2>1 DEF AuthorityTyped
  <2>3. chief'.record = chief.record \/ chief'.record = chief.record + 1
    BY ChiefMoves
  <2> QED BY <2>2, <2>3
<1>1. ASSUME \A p \in Packets : DOMAIN arms'[p] = DOMAIN arms[p],
             \A p \in Packets : \A i \in DOMAIN arms[p] :
                 /\ OpenArm(p, i)' => OpenArm(p, i) /\ arms'[p][i] = arms[p][i]
                 /\ arms'[p][i].status = "armed" =>
                      arms[p][i].status = "armed" /\ arms'[p][i].terms.chief = arms[p][i].terms.chief
      PROVE  SlotsApart' /\ IssuedBefore'
  <2>1. SlotsApart'
    BY <1>1 DEF SlotsApart
  <2>2. ASSUME NEW p \in Packets, NEW i \in DOMAIN arms[p], arms'[p][i].status = "armed"
        PROVE  arms'[p][i].terms.chief <= chief'.record
    <3>1. /\ arms'[p][i].terms.chief = arms[p][i].terms.chief
          /\ arms[p][i].terms.chief <= chief.record /\ arms[p][i].terms.chief \in Nat
      BY <1>1, <2>2, ArmedTerms DEF IssuedBefore, Terms
    <3> QED BY <3>1, <1>0
  <2> QED BY <1>1, <2>1, <2>2 DEF IssuedBefore
<1>2. CASE QuietArms
  <2>1. \A p \in Packets : \A i \in DOMAIN arms[p] :
                 /\ OpenArm(p, i)' => OpenArm(p, i) /\ arms'[p][i] = arms[p][i]
                 /\ arms'[p][i].status = "armed" =>
                      arms[p][i].status = "armed" /\ arms'[p][i].terms.chief = arms[p][i].terms.chief
    BY <1>2, StaysOpen DEF QuietArms
  <2> QED BY <1>1, <1>2, <2>1 DEF QuietArms
<1>3. ASSUME NEW p \in Packets, NEW e \in Events, NEW c, c = Current(p), Taking(p, c, e)
      PROVE  SlotsApart' /\ IssuedBefore'
  <2>1. arms'[p][c].status # "armed"
    BY <1>3 DEF Taking, Closed
  <2>2. \A q \in Packets : \A i \in DOMAIN arms[q] :
                 /\ OpenArm(q, i)' => OpenArm(q, i) /\ arms'[q][i] = arms[q][i]
                 /\ arms'[q][i].status = "armed" =>
                      arms[q][i].status = "armed" /\ arms'[q][i].terms.chief = arms[q][i].terms.chief
    <3> SUFFICES ASSUME NEW q \in Packets, NEW i \in DOMAIN arms[q]
                 PROVE  /\ OpenArm(q, i)' => OpenArm(q, i) /\ arms'[q][i] = arms[q][i]
                        /\ arms'[q][i].status = "armed" =>
                              /\ arms[q][i].status = "armed"
                              /\ arms'[q][i].terms.chief = arms[q][i].terms.chief
      OBVIOUS
    <3>1. CASE q = p /\ i = c
      BY <2>1, <3>1 DEF OpenArm
    <3>2. CASE Swept(q, i)
      BY <3>2, StaysOpen
    <3> QED BY <3>1, <3>2, <1>3 DEF Taking
  <2> QED BY <1>1, <1>3, <2>2 DEF Taking
<1>4. ASSUME NEW p \in Packets, NEW s \in Sessions, NEW k \in Kinds, Making(p, s, k), chief' = chief
      PROVE  SlotsApart' /\ IssuedBefore'
  <2>1. PICK n : n = Len(arms[p]) + 1
    OBVIOUS
  <2>2. /\ DOMAIN arms'[p] = DOMAIN arms[p] \cup {n} /\ n \notin DOMAIN arms[p]
        /\ \A q \in Packets \ {p} : DOMAIN arms'[q] = DOMAIN arms[q]
        /\ arms'[p][n].session = s /\ arms'[p][n].kind = k
        /\ arms'[p][n].terms.chief = chief.record
    BY <1>4, <2>1 DEF Making
  <2>3. ASSUME NEW q \in Packets, NEW i \in DOMAIN arms'[q], ~(q = p /\ i = n)
        PROVE  /\ i \in DOMAIN arms[q]
               /\ OpenArm(q, i)' => OpenArm(q, i) /\ arms'[q][i] = arms[q][i]
               /\ arms'[q][i].status = "armed" =>
                      arms[q][i].status = "armed" /\ arms'[q][i].terms.chief = arms[q][i].terms.chief
    <3>1. i \in DOMAIN arms[q]
      BY <2>2, <2>3
    <3>2. Swept(q, i)
      BY <3>1, <1>4 DEF Making
    <3> QED BY <3>1, <3>2, StaysOpen
  <2>4. ASSUME NEW q \in Packets, NEW i \in DOMAIN arms'[q], ~(q = p /\ i = n), OpenArm(q, i)',
               arms'[q][i].session = s
        PROVE  ~Contend(k, arms'[q][i].kind) /\ ~Contend(arms'[q][i].kind, k)
    <3>1. i \in DOMAIN arms[q] /\ OpenArm(q, i) /\ arms'[q][i] = arms[q][i]
      BY <2>3, <2>4
    <3>2. ~Contend(k, arms[q][i].kind)
      BY <3>1, <2>4, <1>4 DEF Making, OpenArm
    <3> QED BY <3>1, <3>2 DEF Contend
  <2>5. SlotsApart'
    <3> SUFFICES ASSUME NEW q \in Packets, NEW r \in Packets,
                        NEW i \in DOMAIN arms'[q], NEW j \in DOMAIN arms'[r],
                        OpenArm(q, i)', OpenArm(r, j)',
                        arms'[q][i].session = arms'[r][j].session,
                        Contend(arms'[q][i].kind, arms'[r][j].kind)
                 PROVE  q = r /\ i = j
      BY DEF SlotsApart
    <3>1. CASE ~(q = p /\ i = n) /\ ~(r = p /\ j = n)
      BY <3>1, <2>3 DEF SlotsApart
    <3>2. CASE (q = p /\ i = n) /\ ~(r = p /\ j = n)
      BY <3>2, <2>2, <2>4
    <3>3. CASE ~(q = p /\ i = n) /\ (r = p /\ j = n)
      BY <3>3, <2>2, <2>4
    <3> QED BY <3>1, <3>2, <3>3
  <2>6. ASSUME NEW q \in Packets, NEW i \in DOMAIN arms'[q], arms'[q][i].status = "armed"
        PROVE  arms'[q][i].terms.chief <= chief'.record
    <3>1. CASE q = p /\ i = n
      BY <3>1, <2>2, <1>0, <1>4
    <3>2. CASE ~(q = p /\ i = n)
      BY <3>2, <2>3, <2>6, <1>4 DEF IssuedBefore
    <3> QED BY <3>1, <3>2
  <2> QED BY <2>5, <2>6 DEF IssuedBefore
<1> QED BY <1>2, <1>3, <1>4, ArmsMove

LEMMA SlotsGiveOne ==
    ASSUME Records, SlotsApart
    PROVE  OneCandidate
<1> SUFFICES ASSUME NEW e \in Events PROVE Cardinality(Candidates(e)) <= 1
  BY DEF OneCandidate
<1>1. ASSUME NEW p \in Candidates(e)
      PROVE  /\ p \in Packets /\ OpenArm(p, Current(p)) /\ Matches(arms[p][Current(p)], e)
             /\ Current(p) \in DOMAIN arms[p]
  <2>1. p \in Packets /\ SweptStatus[p] = "armed" /\ Matches(Arm(p), e)
    BY <1>1 DEF Candidates
  <2>2. status[p] = "armed" /\ ~Arm(p).terms.lapsed
    BY <2>1 DEF SweptStatus, Overdue
  <2> QED BY <2>1, <2>2, CurrentArm DEF OpenArm
<1>2. \A p, q \in Candidates(e) : p = q
  BY <1>1 DEF SlotsApart, Matches, Contend
<1>3. Cardinality(Candidates(e)) \in {0, 1}
  BY <1>2, AtMostOne
<1> QED BY <1>3

LEMMA RecordsAreSound ==
    ASSUME Records
    PROVE  DocumentSound
<1> SUFFICES ASSUME NEW p \in Packets
             PROVE  LET having(s) == {i \in DOMAIN arms[p] : arms[p][i].status = s}
                        events == {i \in DOMAIN arms[p] : arms[p][i].event # None} IN
                    /\ Cardinality(having("armed")) = IF status[p] = "armed" THEN 1 ELSE 0
                    /\ events = having("consumed")
                    /\ \A i \in events : Matches(arms[p][i], arms[p][i].event)
                    /\ status[p] \in {"ready", "armed"} => origin[p] = "none"
                    /\ status[p] \in {"dispatched", "done", "failed"} => origin[p] \in {"observed", "manual"}
                    /\ origin[p] \in {"observed", "manual"} => agent[p] # None
                    /\ origin[p] = "manual" => events = {} /\ (having("disarmed") # {} \/ p \in Legacy)
                    /\ origin[p] = "observed" =>
                          \E i \in events : events = {i} /\ arms[p][i].event.agent = agent[p]
  BY DEF DocumentSound
<1>1. PICK A : A = arms[p]
  OBVIOUS
<1>2. /\ ArmsFit(status[p], A) /\ EventsFit(agent[p], origin[p], A)
      /\ OriginFits(p, status[p], agent[p], origin[p], A)
  BY <1>1 DEF Records, Record
<1>3. Cardinality({i \in DOMAIN A : A[i].status = "armed"}) = IF status[p] = "armed" THEN 1 ELSE 0
  <2>1. CASE status[p] = "armed"
    <3>1. PICK c \in DOMAIN A : A[c].status = "armed"
      BY <1>2, <2>1 DEF ArmsFit
    <3>2. {i \in DOMAIN A : A[i].status = "armed"} = {c}
      BY <1>2, <3>1 DEF ArmsFit
    <3> QED BY <2>1, <3>2, FS_Singleton
  <2>2. CASE status[p] # "armed"
    <3>1. {i \in DOMAIN A : A[i].status = "armed"} = {}
      BY <1>2, <2>2 DEF ArmsFit
    <3> QED BY <2>2, <3>1, FS_EmptySet
  <2> QED BY <2>1, <2>2
<1>4. /\ {i \in DOMAIN A : A[i].event # None} = {i \in DOMAIN A : A[i].status = "consumed"}
      /\ \A i \in {j \in DOMAIN A : A[j].event # None} : Matches(A[i], A[i].event)
  BY <1>2 DEF EventsFit
<1>5. origin[p] = "manual" =>
        /\ {i \in DOMAIN A : A[i].event # None} = {}
        /\ {i \in DOMAIN A : A[i].status = "disarmed"} # {} \/ p \in Legacy
  BY <1>2 DEF EventsFit, OriginFits
<1>6. origin[p] = "observed" =>
        \E i \in {j \in DOMAIN A : A[j].event # None} :
            {j \in DOMAIN A : A[j].event # None} = {i} /\ A[i].event.agent = agent[p]
  BY <1>2 DEF EventsFit
<1> QED BY <1>1, <1>2, <1>3, <1>4, <1>5, <1>6 DEF OriginFits

-----------------------------------------------------------------------------
(* The rest of the types.                                                    *)
FilesTyped ==
    /\ origin \in [Packets -> {"none", "observed", "manual", "legacy_unverified"}]
    /\ \A p \in Packets : bound[p] \subseteq (Packets \X Ended)
    /\ mapped \in [Sessions -> Packets \cup {Root, None}]
    /\ linked \subseteq Sessions

LEMMA FilesStep ==
    ASSUME Records, Shapes, FilesTyped, [Next]_vars
    PROVE  FilesTyped'
<1> USE DEF FilesTyped
<1>0. /\ Agents \subseteq Sessions /\ \A p \in Packets : Parent[p] # None => Parent[p] \in Packets
      /\ \A e \in Events : e.agent \in Agents
  BY DispatchAssumption DEF Sessions
<1>1. ASSUME NEW s \in Sessions, NEW cut \in Cuts, BindSession(s, cut) \/ UnbindSession(s, cut)
      PROVE  FilesTyped'
  BY <1>1 DEF BindSession, UnbindSession, packets
<1>2. ASSUME NEW p \in Packets, NEW cut \in Cuts, RepairMapping(p, cut)
      PROVE  FilesTyped'
  <2>1. agent[p] \in Agents
    BY <1>2 DEF RepairMapping, Records, Record, OriginFits, Shapes
  <2> QED BY <1>0, <1>2, <2>1 DEF RepairMapping, Mapping, packets
<1>3. ASSUME NEW p \in Packets, CreatePacket(p)
      PROVE  FilesTyped'
  <2>1. Bindings \subseteq (Packets \X Ended)
    BY DEF Bindings
  <2>2. \A q \in Packets : bound'[q] = bound[q] \/ bound'[q] = Bindings \/ bound'[q] = {}
    BY <1>3 DEF CreatePacket, Shapes
  <2> QED BY <1>3, <2>1, <2>2 DEF CreatePacket, sessions
<1>4. ASSUME NEW p \in Packets, NEW s \in Sessions, NEW k \in Kinds, NEW cut \in Cuts,
             ArmPacket(p, s, k, cut)
      PROVE  FilesTyped'
  <2>1. /\ mapped' = mapped \/ (p \notin Depth1 /\ mapped' = Mapping(Parent[p], s))
        /\ linked' = linked \/ linked' = linked \cup {s}
        /\ UNCHANGED <<origin, bound>>
    BY <1>4 DEF ArmPacket
  <2> QED BY <1>0, <2>1 DEF Mapping, Depth1
<1>5. ASSUME NEW e \in Events, NEW p \in Packets, NEW cut \in Cuts, Consume(e, p, cut)
      PROVE  FilesTyped'
  <2>1. /\ mapped' = mapped \/ mapped' = Mapping(p, e.agent)
        /\ linked' = linked \/ linked' = linked \cup {e.agent}
        /\ origin' = origin \/ origin' = [origin EXCEPT ![p] = "observed"]
        /\ bound' = bound
    BY <1>5 DEF Consume
  <2> QED BY <1>0, <2>1 DEF Mapping
<1>6. ASSUME NEW a \in Agents, NEW p \in Packets, NEW cut \in Cuts, ManualDispatch(p, a, cut)
      PROVE  FilesTyped'
  <2>1. /\ mapped' = mapped \/ mapped' = Mapping(p, a)
        /\ linked' = linked \/ linked' = linked \cup {a}
        /\ origin' = origin \/ origin' = [origin EXCEPT ![p] = "manual"]
        /\ bound' = bound
    BY <1>6 DEF ManualDispatch
  <2> QED BY <1>0, <2>1 DEF Mapping
<1>7. ASSUME NEW p \in Packets, NEW s \in Ended, EndPacket(p, s)
      PROVE  FilesTyped'
  BY <1>7 DEF EndPacket, sessions
<1>8. ASSUME NEW left, EndTask(left)
      PROVE  FilesTyped'
  BY <1>8 DEF EndTask, packets
<1>9. CASE \/ NewChief \/ ChiefLapse \/ EditPlan \/ ApprovePlan \/ UNCHANGED vars
           \/ \E e \in Events : AccountIncident(e)
           \/ \E p \in Packets : ArmLapse(p) \/ DisarmPacket(p)
           \/ \E e \in Events : RecordIncident(e)
           \/ \E e \in Events, p \in Packets : Resume(e, p) \/ SpawnHelper(e, p)
           \/ \E j \in Jobs : StartJob(j) \/ EndJob(j)
  <2>1. UNCHANGED <<origin, bound, mapped, linked>>
    BY <1>9 DEF NewChief, ChiefLapse, EditPlan, ApprovePlan, vars, AccountIncident, ArmLapse,
         DisarmPacket, RecordIncident, Resume, SpawnHelper, StartJob, EndJob, packets, sessions
  <2> QED BY <2>1
<1> QED BY <1>1, <1>2, <1>3, <1>4, <1>5, <1>6, <1>7, <1>8, <1>9, StepKinds DEF Outside

(* The invariant behind the offers.                                          *)
OfferInv ==
    /\ Shapes /\ Records /\ AuthorityTyped /\ EntryTyped /\ FilesTyped
    /\ EntryUnique /\ SlotsApart /\ IssuedBefore

LEMMA OfferStarts == Init => OfferInv
<1> SUFFICES ASSUME Init PROVE OfferInv
  OBVIOUS
<1>1. Shapes /\ AuthorityTyped /\ EntryTyped /\ FilesTyped
  BY DispatchAssumption DEF Init, Shapes, AuthorityTyped, EntryTyped, FilesTyped, Statuses
<1>2. \A p \in Packets : /\ arms[p] = <<>> /\ DOMAIN arms[p] = {}
                         /\ status[p] = "none" /\ origin[p] = "none"
                         /\ resumed[p] = {} /\ helpers[p] = {}
  BY DEF Init
<1>3. ASSUME NEW p \in Packets PROVE Record(p, "none", agent[p], "none", <<>>)
  <2>1. <<>> \in Seq(Attempts) /\ Len(<<>>) = 0 /\ DOMAIN <<>> = {} /\ 0 <= MaxArms
    BY DispatchAssumption
  <2> QED BY <2>1 DEF Record, ArmsFit, EventsFit, OriginFits
<1>4. Records /\ SlotsApart /\ IssuedBefore
  BY <1>2, <1>3 DEF Records, SlotsApart, IssuedBefore
<1>5. EntryUnique
  BY <1>2 DEF Init, EntryUnique, Entry
<1> QED BY <1>1, <1>4, <1>5 DEF OfferInv

LEMMA OfferInvStep ==
    ASSUME OfferInv, [Next]_vars
    PROVE  OfferInv'
<1>1. Shapes' /\ AuthorityTyped' /\ FilesTyped'
  BY ShapesKept, AuthorityStep, FilesStep DEF OfferInv
<1>2. Records'
  BY RecordsStep DEF OfferInv, Records
<1>3. EntryTyped' /\ EntryUnique'
  BY EntriesGrow, EntryUniqueStep DEF OfferInv
<1>4. SlotsApart' /\ IssuedBefore'
  BY SlotsStep DEF OfferInv
<1> QED BY <1>1, <1>2, <1>3, <1>4 DEF OfferInv

LEMMA OfferInvariance == Spec => []OfferInv
<1>1. OfferInv /\ [Next]_vars => OfferInv'
  BY OfferInvStep
<1> QED BY OfferStarts, <1>1, PTL DEF Spec

(* Every start meets at most one arm, is on the record once and leaves a     *)
(* document the validator accepts, for any number of packets, arms, starts   *)
(* and sessions (packet-arm's collision check, observe_subagent_start,       *)
(* packet_integrity_errors).                                                 *)
THEOREM OffersAreSound == Spec => []OffersSound
<1>1. OfferInv => TypeOK
  <2> SUFFICES ASSUME OfferInv PROVE TypeOK
    OBVIOUS
  <2>1. \A p \in Packets : Len(arms[p]) <= MaxArms
                          /\ \A i \in DOMAIN arms[p] : arms[p][i] \in Attempts
    BY DEF OfferInv, Records, Record, ArmsFit
  <2> QED BY <2>1 DEF OfferInv, Shapes, AuthorityTyped, EntryTyped, FilesTyped, TypeOK, Statuses
<1>2. OfferInv => OneCandidate /\ AccountedOnce /\ DocumentSound
  BY SlotsGiveOne, UniqueAccounts, RecordsAreSound DEF OfferInv
<1>3. OfferInv => OffersSound
  BY <1>1, <1>2 DEF OffersSound
<1> QED BY <1>3, OfferInvariance, PTL

-----------------------------------------------------------------------------
(* The refinement of OneShotOffers.                                          *)

(* An arm that is kept, closed without an event or overdue is the same      *)
(* offer, or an open offer that is now withdrawn; one that stood withdrawn   *)
(* is not opened again by a change of the Chief.                             *)
LEMMA OfferMoves ==
    ASSUME OfferInv, [Next]_vars, NEW o \in OfferIds, Made(o), Made(o)',
           Same(o[1], o[2]) \/ Shut(o[1], o[2]) \/ Late(o[1], o[2])
    PROVE  /\ \/ FateOf(o)' = FateOf(o)
              \/ FateOf(o) = "open" /\ FateOf(o)' = "withdrawn"
           /\ SlotOf(o)' = SlotOf(o) /\ TakerOf(o)' = TakerOf(o)
<1>1. PICK p, i, a : /\ p \in Packets /\ i \in DOMAIN arms[p] /\ a \in Attempts
                     /\ p = o[1] /\ i = o[2] /\ a = arms[p][i]
  BY ArmedTerms DEF OfferIds, Made, OfferInv
<1>2. PICK b : b = arms'[p][i]
  OBVIOUS
<1>3. /\ SlotOf(o) = [session |-> a.session, kind |-> a.kind] /\ TakerOf(o) = a.event
      /\ SlotOf(o)' = [session |-> b.session, kind |-> b.kind] /\ TakerOf(o)' = b.event
  BY <1>1, <1>2 DEF SlotOf, TakerOf, Try
<1>4. /\ FateOf(o) = IF a.status = "consumed" THEN "taken"
                     ELSE IF a.status = "armed" /\ ~a.terms.lapsed
                             /\ chief.live /\ a.terms.chief = chief.record THEN "open"
                     ELSE "withdrawn"
      /\ FateOf(o)' = IF b.status = "consumed" THEN "taken"
                      ELSE IF b.status = "armed" /\ ~b.terms.lapsed
                              /\ chief'.live /\ b.terms.chief = chief'.record THEN "open"
                      ELSE "withdrawn"
  BY <1>1, <1>2 DEF FateOf, Try
<1>5. CASE Same(o[1], o[2])
  <2>1. b = a
    BY <1>1, <1>2, <1>5 DEF Same
  <2>2. ASSUME a.status = "armed", ~(chief.live /\ a.terms.chief = chief.record)
        PROVE  ~(chief'.live /\ a.terms.chief = chief'.record)
    <3>1. /\ a.terms.chief <= chief.record
          /\ a.terms.chief \in Nat /\ chief.record \in Nat
      BY <1>1, <2>2, ArmedTerms DEF OfferInv, IssuedBefore, AuthorityTyped, Terms
    <3>2. \/ chief' = chief
          \/ chief'.record = chief.record + 1
          \/ chief'.record = chief.record /\ chief'.live = FALSE
      BY ChiefMoves DEF OfferInv
    <3>3. a.terms.chief # chief.record + 1
      BY <3>1
    <3> QED BY <2>2, <3>2, <3>3
  <2> QED BY <1>3, <1>4, <2>1, <2>2
<1>6. CASE Shut(o[1], o[2])
  <2>1. /\ a.status = "armed" /\ b.status \in {"disarmed", "expired"}
        /\ b.session = a.session /\ b.kind = a.kind /\ b.event = None
    BY <1>1, <1>2, <1>6 DEF Shut, Closed
  <2>2. a.event = None
    BY <1>1, <2>1 DEF OfferInv, Records, Record, EventsFit
  <2> QED BY <1>3, <1>4, <2>1, <2>2
<1>7. CASE Late(o[1], o[2])
  <2>1. a.status = "armed" /\ b = [a EXCEPT !.terms = [a.terms EXCEPT !.lapsed = TRUE]]
    BY <1>1, <1>2, <1>7 DEF Late
  <2>2. PICK t : t = [a.terms EXCEPT !.lapsed = TRUE]
    OBVIOUS
  <2>3. t.lapsed = TRUE
    BY <2>1, <2>2, <1>1, ArmedTerms DEF OfferInv, Terms
  <2>4. /\ b.terms = t /\ b.status = "armed" /\ b.session = a.session /\ b.kind = a.kind
        /\ b.event = a.event
    BY <2>1, <2>2 DEF Attempts
  <2> QED BY <1>3, <1>4, <2>1, <2>3, <2>4
<1> QED BY <1>5, <1>6, <1>7

(* The sweep closes no open offer.                                           *)
LEMMA OfferSwept ==
    ASSUME OfferInv, [Next]_vars, NEW o \in OfferIds, Made(o), Made(o)',
           Swept(o[1], o[2]), chief' = chief
    PROVE  FateOf(o)' = FateOf(o) /\ SlotOf(o)' = SlotOf(o) /\ TakerOf(o)' = TakerOf(o)
<1>1. SlotOf(o)' = SlotOf(o) /\ TakerOf(o)' = TakerOf(o)
  BY OfferMoves DEF Swept
<1>2. CASE Same(o[1], o[2])
  <2>1. Try(o)' = Try(o)
    BY <1>2 DEF Try, Same
  <2> QED BY <1>1, <2>1 DEF FateOf
<1>3. CASE Shut(o[1], o[2]) /\ arms[o[1]][o[2]].terms.lapsed
  <2>1. FateOf(o) # "open"
    BY <1>3 DEF FateOf, Try
  <2> QED BY <1>1, <1>3, <2>1, OfferMoves
<1> QED BY <1>1, <1>2, <1>3 DEF Swept

LEMMA UnmadeOffer ==
    ASSUME NEW o \in OfferIds
    PROVE  /\ ~Made(o) => FateOf(o) = "none" /\ SlotOf(o) = None /\ TakerOf(o) = None
           /\ ~Made(o)' => FateOf(o)' = "none" /\ SlotOf(o)' = None /\ TakerOf(o)' = None
           /\ FateOf(o) = "none" => ~Made(o)
BY DEF FateOf, SlotOf, TakerOf

LEMMA QuietWithdraws ==
    ASSUME OfferInv, [Next]_vars, QuietArms
    PROVE  \E S \in SUBSET OfferIds : Offer!Withdraw(S)
<1>1. ASSUME NEW o \in OfferIds
      PROVE  /\ \/ FateOf(o)' = FateOf(o)
                \/ FateOf(o) = "open" /\ FateOf(o)' = "withdrawn"
             /\ SlotOf(o)' = SlotOf(o) /\ TakerOf(o)' = TakerOf(o)
  <2>1. o[1] \in Packets /\ (Made(o)' <=> Made(o))
    BY DEF QuietArms, Made, OfferIds
  <2>2. CASE Made(o)
    <3>1. Same(o[1], o[2]) \/ Shut(o[1], o[2]) \/ Late(o[1], o[2])
      BY <2>1, <2>2 DEF QuietArms, Made
    <3> QED BY <2>1, <2>2, <3>1, OfferMoves
  <2>3. CASE ~Made(o)
    BY <2>1, <2>3, UnmadeOffer
  <2> QED BY <2>2, <2>3
<1>2. PICK S : S = {o \in OfferIds : FateOf(o) = "open" /\ FateOf(o)' = "withdrawn"}
  OBVIOUS
<1>3. \A o \in OfferIds : FateOf(o)' = IF o \in S THEN "withdrawn" ELSE FateOf(o)
  BY <1>1, <1>2
<1>4. Offer!Withdraw(S)
  BY <1>1, <1>2, <1>3 DEF Offer!Withdraw, Offer!Open
<1> QED BY <1>2, <1>4

LEMMA MakingMakes ==
    ASSUME OfferInv, OfferInv', [Next]_vars, NEW p \in Packets, NEW s \in Sessions, NEW k \in Kinds,
           Making(p, s, k), chief' = chief
    PROVE  \E o \in OfferIds : Offer!Make(o)
<1>1. PICK n : n = Len(arms[p]) + 1
  OBVIOUS
<1>2. /\ DOMAIN arms'[p] = DOMAIN arms[p] \cup {n} /\ n \notin DOMAIN arms[p] /\ chief.live
      /\ \A q \in Packets \ {p} : DOMAIN arms'[q] = DOMAIN arms[q]
      /\ arms'[p][n] = [session |-> s, kind |-> k, status |-> "armed", event |-> None,
                      terms |-> [chief |-> chief.record, plan |-> plan, lapsed |-> FALSE]]
  BY <1>1 DEF Making
<1>3. n \in 1 .. MaxArms
  <2>1. /\ arms'[p] \in Seq(Attempts) /\ Len(arms'[p]) <= MaxArms /\ n \in DOMAIN arms'[p]
        /\ MaxArms \in Nat
    BY <1>2, DispatchAssumption DEF OfferInv, Records, Record, ArmsFit
  <2>2. Len(arms'[p]) \in Nat /\ DOMAIN arms'[p] = 1 .. Len(arms'[p])
    BY <2>1
  <2> QED BY <2>1, <2>2
<1>4. PICK x \in OfferIds : x = <<p, n>>
  BY <1>3 DEF OfferIds
<1>5. /\ ~Made(x) /\ Made(x)' /\ FateOf(x) = "none" /\ TakerOf(x) = None
      /\ FateOf(x)' = "open" /\ TakerOf(x)' = None
      /\ SlotOf(x)' = [session |-> s, kind |-> k]
  <2>1. ~Made(x) /\ Made(x)'
    BY <1>2, <1>4 DEF Made
  <2>2. Try(x)' = arms'[p][n]
    BY <1>4 DEF Try
  <2> QED BY <1>2, <2>1, <2>2 DEF FateOf, TakerOf, SlotOf
<1>6. ASSUME NEW y \in OfferIds, y # x
      PROVE  FateOf(y)' = FateOf(y) /\ SlotOf(y)' = SlotOf(y) /\ TakerOf(y)' = TakerOf(y)
  <2>1. y[1] \in Packets /\ y = <<y[1], y[2]>>
    BY DEF OfferIds
  <2>2. Made(y)' <=> Made(y)
    BY <1>2, <1>4, <1>6, <2>1 DEF Made
  <2>3. CASE Made(y)
    <3>1. Swept(y[1], y[2])
      BY <2>1, <2>3 DEF Making, Made
    <3> QED BY <2>2, <2>3, <3>1, OfferSwept
  <2>4. CASE ~Made(y)
    BY <2>2, <2>4, UnmadeOffer
  <2> QED BY <2>3, <2>4
<1>7. ASSUME NEW y \in OfferIds, FateOf(y) = "open"
      PROVE  ~Clash(SlotOf(y), SlotOf(x)')
  <2>1. /\ y[1] \in Packets /\ Made(y) /\ y[2] \in DOMAIN arms[y[1]]
        /\ arms[y[1]][y[2]].status = "armed" /\ ~arms[y[1]][y[2]].terms.lapsed
        /\ SlotOf(y) = [session |-> arms[y[1]][y[2]].session, kind |-> arms[y[1]][y[2]].kind]
    BY <1>7 DEF FateOf, SlotOf, Made, Try, OfferIds
  <2>2. arms[y[1]][y[2]].session = s => ~Contend(k, arms[y[1]][y[2]].kind)
    BY <2>1 DEF Making
  <2> QED BY <1>5, <2>1, <2>2 DEF Clash, Contend
<1>8. Offer!Make(x)
  <2>1. [o \in OfferIds |-> FateOf(o)]' = [[o \in OfferIds |-> FateOf(o)] EXCEPT ![x] = "open"]
    BY <1>5, <1>6
  <2>2. [o \in OfferIds |-> TakerOf(o)]' = [o \in OfferIds |-> TakerOf(o)]
    BY <1>5, <1>6
  <2>3. \A y \in OfferIds \ {x} : [o \in OfferIds |-> SlotOf(o)]'[y] = [o \in OfferIds |-> SlotOf(o)][y]
    BY <1>6
  <2> QED BY <1>5, <1>7, <2>1, <2>2, <2>3 DEF Offer!Make, Offer!Open
<1> QED BY <1>8

LEMMA TakingTakes ==
    ASSUME OfferInv, [Next]_vars, NEW p \in Packets, NEW e \in Events, NEW c,
           c = Current(p), Taking(p, c, e), chief' = chief
    PROVE  \E o \in OfferIds : Offer!Take(o, e)
<1>1. c \in 1 .. MaxArms /\ c \in DOMAIN arms[p]
  <2>1. /\ arms[p] \in Seq(Attempts) /\ Len(arms[p]) <= MaxArms /\ c \in DOMAIN arms[p]
        /\ MaxArms \in Nat
    BY DispatchAssumption DEF OfferInv, Records, Record, ArmsFit, Taking
  <2>2. Len(arms[p]) \in Nat /\ DOMAIN arms[p] = 1 .. Len(arms[p])
    BY <2>1
  <2> QED BY <2>1, <2>2
<1>2. PICK x \in OfferIds : x = <<p, c>>
  BY <1>1 DEF OfferIds
<1>3. Made(x) /\ Made(x)' /\ Try(x) = arms[p][c] /\ Try(x)' = Closed(arms[p][c], "consumed", e)
  BY <1>1, <1>2 DEF Made, Try, Taking
<1>4. /\ FateOf(x) = "open" /\ FateOf(x)' = "taken"
      /\ SlotOf(x) = [session |-> arms[p][c].session, kind |-> arms[p][c].kind]
      /\ SlotOf(x)' = SlotOf(x) /\ TakerOf(x)' = e
  BY <1>3 DEF FateOf, SlotOf, TakerOf, Taking, Closed
<1>5. ASSUME NEW y \in OfferIds, y # x
      PROVE  FateOf(y)' = FateOf(y) /\ SlotOf(y)' = SlotOf(y) /\ TakerOf(y)' = TakerOf(y)
  <2>1. y[1] \in Packets /\ y = <<y[1], y[2]>>
    BY DEF OfferIds
  <2>2. Made(y)' <=> Made(y)
    BY <2>1 DEF Made, Taking
  <2>3. CASE Made(y)
    <3>1. Swept(y[1], y[2])
      BY <1>2, <1>5, <2>1, <2>3 DEF Taking, Made
    <3> QED BY <2>2, <2>3, <3>1, OfferSwept
  <2>4. CASE ~Made(y)
    BY <2>2, <2>4, UnmadeOffer
  <2> QED BY <2>3, <2>4
<1>6. \A y \in OfferIds : TakerOf(y) # e
  <2> SUFFICES ASSUME NEW y \in OfferIds, TakerOf(y) = e PROVE FALSE
    OBVIOUS
  <2>1. Made(y) /\ arms[y[1]][y[2]].event = e
    BY NoneIsNothing DEF TakerOf, Try
  <2> QED BY <2>1 DEF Made, Taking, Known, ConsumedBy, OfferIds
<1>7. Matches(SlotOf(x), e)
  BY <1>4 DEF Taking, Matches
<1>8. Offer!Take(x, e)
  <2>1. [o \in OfferIds |-> FateOf(o)]' = [[o \in OfferIds |-> FateOf(o)] EXCEPT ![x] = "taken"]
    BY <1>4, <1>5
  <2>2. [o \in OfferIds |-> TakerOf(o)]' = [[o \in OfferIds |-> TakerOf(o)] EXCEPT ![x] = e]
    BY <1>4, <1>5
  <2>3. [o \in OfferIds |-> SlotOf(o)]' = [o \in OfferIds |-> SlotOf(o)]
    BY <1>4, <1>5
  <2> QED BY <1>4, <1>6, <1>7, <2>1, <2>2, <2>3 DEF Offer!Take, Offer!Open
<1> QED BY <1>8

(* Arming, disarming, expiry, hooks, manual dispatch and every change of     *)
(* the Chief lease together implement one-shot offers, for every number of   *)
(* packets, arms and starts: an arm of a lease that has changed since is     *)
(* never consumed, and no event consumes two (_validate_current_dispatch_arm, *)
(* observe_subagent_start).                                                  *)
THEOREM ArmsAreOneShot == Spec => ImplementsOffers
<1>1. Init => Offer!Init
  <2> SUFFICES ASSUME Init PROVE Offer!Init
    OBVIOUS
  <2>1. \A o \in OfferIds : ~Made(o)
    BY DEF Init, Made, OfferIds
  <2> QED BY <2>1, UnmadeOffer DEF Offer!Init
<1>2. OfferInv /\ OfferInv' /\ [Next]_vars =>
        [Offer!Next]_<<[o \in OfferIds |-> FateOf(o)], [o \in OfferIds |-> SlotOf(o)],
                       [o \in OfferIds |-> TakerOf(o)]>>
  <2> SUFFICES ASSUME OfferInv, OfferInv', [Next]_vars
               PROVE  Offer!Next
    OBVIOUS
  <2>1. CASE QuietArms
    BY <2>1, QuietWithdraws DEF Offer!Next
  <2>2. ASSUME NEW p \in Packets, NEW s \in Sessions, NEW k \in Kinds,
               Making(p, s, k), chief' = chief
        PROVE  Offer!Next
    BY <2>2, MakingMakes DEF Offer!Next
  <2>3. ASSUME NEW p \in Packets, NEW e \in Events, Taking(p, Current(p), e), chief' = chief
        PROVE  Offer!Next
    BY <2>3, TakingTakes DEF Offer!Next
  <2> QED BY <2>1, <2>2, <2>3, ArmsMove DEF OfferInv
<1> QED BY <1>1, <1>2, OfferInvariance, PTL DEF Spec, ImplementsOffers, Offer!Spec
=============================================================================
