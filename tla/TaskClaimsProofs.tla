--------------------------- MODULE TaskClaimsProofs ---------------------------
(***************************************************************************)
(* Proofs about PathLocks and TaskClaims: reservations stay exclusive,      *)
(* running work stays covered, work of different tasks never overlaps, and  *)
(* the claim files implement LockTable.                                     *)
(***************************************************************************)
EXTENDS TaskClaims, SequenceTheorems, TLAPS

-----------------------------------------------------------------------------
(* The comparison of locks *)

(* Every path is below itself. *)
LEMMA BelowReflexive ==
    ASSUME NEW p \in Seq(STRING)
    PROVE  Below(p, p)
  BY DEF Below

(* Being below is transitive: a lock inside a covered lock stays inside.    *)
LEMMA BelowTransitive ==
    ASSUME NEW p \in Seq(STRING), NEW q \in Seq(STRING), NEW r \in Seq(STRING),
           Below(p, q), Below(q, r)
    PROVE  Below(p, r)
  BY DEF Below

(* The ancestors of one path are ordered by _is_descendant_or_same.         *)
LEMMA AncestorsOrdered ==
    ASSUME NEW p \in Seq(STRING), NEW q \in Seq(STRING), NEW r \in Seq(STRING),
           Below(p, q), Below(p, r)
    PROVE  Below(q, r) \/ Below(r, q)
  <1>1. CASE Len(q) <= Len(r)
    BY <1>1 DEF Below
  <1>2. CASE Len(r) <= Len(q)
    BY <1>2 DEF Below
  <1> QED BY <1>1, <1>2

(* lock_covers passes through: what covers a cover covers the lock.         *)
LEMMA CoversTransitive ==
    ASSUME NEW a \in Lock, NEW b \in Lock, NEW c \in Lock,
           Covers(a, b), Covers(b, c)
    PROVE  Covers(a, c)
  BY BelowTransitive DEF Covers, Lock, Whole

(* Overlap does not depend on which lock was there first.                   *)
LEMMA OverlapSymmetric ==
    ASSUME NEW a \in Lock, NEW b \in Lock, Overlap(a, b)
    PROVE  Overlap(b, a)
  BY DEF Overlap, Whole

(* A lock that overlaps another also overlaps whatever covers that one.     *)
LEMMA OverlapOfCover ==
    ASSUME NEW h \in Lock, NEW l \in Lock, NEW m \in Lock,
           Covers(h, l), Overlap(l, m)
    PROVE  Overlap(h, m)
  <1>1. CASE l.ns \in Whole
    BY <1>1 DEF Covers, Overlap
  <1>2. CASE l.ns \notin Whole
    <2>1. h.path \in Seq(STRING) /\ l.path \in Seq(STRING) /\ m.path \in Seq(STRING)
      BY DEF Lock
    <2>2. CASE h.kind = "file"
      BY <1>2, <2>2 DEF Covers, Overlap
    <2>3. CASE h.kind # "file"
      <3>1. Below(l.path, h.path) /\ h.ns = l.ns /\ h.ns = m.ns
        BY <1>2, <2>3 DEF Covers, Overlap
      <3>2. CASE l.path = m.path
        BY <1>2, <2>1, <2>3, <3>1, <3>2 DEF Overlap
      <3>3. CASE m.kind # "file" /\ Below(l.path, m.path)
        BY <1>2, <2>1, <2>3, <3>1, <3>3, AncestorsOrdered DEF Overlap
      <3>4. CASE Below(m.path, l.path)
        <4>1. Below(m.path, h.path)
          BY <2>1, <3>1, <3>4, BelowTransitive
        <4> QED BY <1>2, <2>3, <3>1, <4>1 DEF Overlap
      <3> QED BY <1>2, <3>2, <3>3, <3>4 DEF Overlap
    <2> QED BY <2>2, <2>3
  <1> QED BY <1>1, <1>2

(* Work inside disjoint reservations is disjoint.                           *)
LEMMA CoveredDisjoint ==
    ASSUME NEW g \in Lock, NEW h \in Lock, NEW l \in Lock, NEW m \in Lock,
           Covers(g, l), Covers(h, m), ~Overlap(g, h)
    PROVE  ~Overlap(l, m)
  <1> SUFFICES ASSUME Overlap(l, m) PROVE FALSE OBVIOUS
  <1>1. Overlap(g, m) BY OverlapOfCover
  <1>2. Overlap(m, g) BY <1>1, OverlapSymmetric
  <1>3. Overlap(h, g) BY <1>2, OverlapOfCover
  <1> QED BY <1>3, OverlapSymmetric

(* Every lock owns the thing of its own path.                               *)
LEMMA OwnsItself ==
    ASSUME NEW l \in Lock
    PROVE  Owns(l, l)
  BY BelowReflexive DEF Owns, Lock

(* A lock that is no file lock owns something strictly below its path.      *)
LEMMA OwnsBelow ==
    ASSUME NEW l \in Lock, l.ns \notin Whole, l.kind # "file"
    PROVE  \E x \in Lock : Owns(l, x) /\ x.path # l.path
  <1> DEFINE x == [l EXCEPT !.path = Append(l.path, l.kind)]
  <1>1. l.path \in Seq(STRING) /\ l.kind \in STRING BY DEF Lock
  <1>2. Append(l.path, l.kind) \in Seq(STRING)
    <2>1. \A S : \A p \in Seq(S), e \in S : Append(p, e) \in Seq(S) BY AppendProperties
    <2> QED BY <1>1, <2>1
  <1>3. x \in Lock BY <1>2 DEF Lock
  <1>4. x.ns = l.ns /\ x.path = Append(l.path, l.kind) BY DEF Lock
  <1>5. Below(Append(l.path, l.kind), l.path) BY <1>1 DEF Below
  <1>6. Append(l.path, l.kind) # l.path BY <1>1
  <1> HIDE DEF x
  <1> QED BY <1>3, <1>4, <1>5, <1>6 DEF Owns

(* locks_overlap answers yes exactly when both holders could change one     *)
(* thing: no two reservations are kept apart that could have shared, and    *)
(* none share that should have been kept apart.                             *)
THEOREM OverlapIsSharing ==
    \A l, m \in Lock : Overlap(l, m) <=> \E x \in Lock : Owns(l, x) /\ Owns(m, x)
  <1> SUFFICES ASSUME NEW l \in Lock, NEW m \in Lock
               PROVE  Overlap(l, m) <=> \E x \in Lock : Owns(l, x) /\ Owns(m, x)
    OBVIOUS
  <1>1. l.path \in Seq(STRING) /\ m.path \in Seq(STRING) BY DEF Lock
  <1>2. ASSUME Overlap(l, m) PROVE Owns(l, m) \/ Owns(m, l)
    BY <1>1, <1>2, BelowReflexive DEF Overlap, Owns
  <1>3. ASSUME NEW x \in Lock, Owns(l, x), Owns(m, x) PROVE Overlap(l, m)
    <2>1. x.path \in Seq(STRING) BY DEF Lock
    <2>2. CASE l.kind # "file" /\ m.kind # "file"
      BY <1>1, <1>3, <2>1, <2>2, AncestorsOrdered DEF Overlap, Owns
    <2> QED BY <1>3, <2>2 DEF Overlap, Owns
  <1> QED BY <1>2, <1>3, OwnsItself

(* lock_covers answers yes exactly when everything the inner lock owns is   *)
(* owned by the outer one: a release is refused for exactly the work that   *)
(* would lose a thing.                                                      *)
THEOREM CoverIsContainment ==
    \A l, m \in Lock : Covers(l, m) <=> \A x \in Lock : Owns(m, x) => Owns(l, x)
  <1> SUFFICES ASSUME NEW l \in Lock, NEW m \in Lock
               PROVE  Covers(l, m) <=> \A x \in Lock : Owns(m, x) => Owns(l, x)
    OBVIOUS
  <1>1. l.path \in Seq(STRING) /\ m.path \in Seq(STRING) BY DEF Lock
  <1>2. ASSUME Covers(l, m), NEW x \in Lock, Owns(m, x) PROVE Owns(l, x)
    <2>1. x.path \in Seq(STRING) BY DEF Lock
    <2>2. CASE l.ns \notin Whole /\ l.kind # "file" /\ m.kind # "file"
      BY <1>1, <1>2, <2>1, <2>2, BelowTransitive DEF Covers, Owns
    <2> QED BY <1>2, <2>2 DEF Covers, Owns
  <1>3. ASSUME \A x \in Lock : Owns(m, x) => Owns(l, x) PROVE Covers(l, m)
    <2>1. Owns(l, m) BY <1>3, OwnsItself
    <2>2. CASE l.ns \notin Whole /\ l.kind = "file" /\ m.kind # "file"
      <3>1. m.ns = l.ns /\ m.path = l.path BY <2>1, <2>2 DEF Owns
      <3>2. PICK x \in Lock : Owns(m, x) /\ x.path # m.path
        BY <2>2, <3>1, OwnsBelow
      <3>3. x.path = l.path BY <1>3, <2>2, <3>2 DEF Owns
      <3> QED BY <3>1, <3>2, <3>3
    <2> QED BY <2>1, <2>2 DEF Covers, Owns
  <1> QED BY <1>2, <1>3

-----------------------------------------------------------------------------
(* The inductive invariant *)

(* A file in claims/active always carries a reserving status.               *)
ActiveReserves == \A k \in Tokens : active[k] # None => Reserved(k)

(* Mini tasks run no packets and no jobs.                                   *)
WorkOfOrdinary == \A w \in Works : work[w] # None => work[w].task \notin Minis

(* What an ordinary task references names it: the active record while there *)
(* is one, the archived record afterwards.                                  *)
ReferencesOwn ==
    \A t \in Tasks \ Minis : \A k \in refs[t] :
        /\ active[k] # None => active[k].task = t
        /\ active[k] = None => archive[k] # None /\ archive[k].task = t

MiniSteps == {"mini-task", "mini-rest", "undo-claim"}

(* The command under way still has the active record it writes about.       *)
OpSound ==
    op # None =>
        /\ op.step \in MiniSteps \cup {"refer", "unlink"} =>
              op.task \in Tasks /\ active[op.token] # None
                /\ active[op.token].task = op.task
        /\ op.step \in MiniSteps \cup {"undo-task"} => op.task \in Minis
        /\ op.step = "refer" => op.task \notin Minis
        /\ op.step = "unlink" =>
              /\ archive[op.token] # None
              /\ archive[op.token].task = op.task
              /\ archive[op.token].locks = active[op.token].locks
              /\ archive[op.token].status \in Terminal
              /\ StaysCovered(op.task, op.token)

IInv ==
    /\ TypeOK
    /\ ActiveReserves
    /\ WorkOfOrdinary
    /\ ReferencesOwn
    /\ OpSound
    /\ ClaimExclusion
    /\ WorkCovered
    /\ ClosedHoldsNothing

LEMMA InitInv == Init => IInv
  <1> SUFFICES ASSUME Init PROVE IInv OBVIOUS
  <1>1. TypeOK BY DEF Init, TypeOK, Ops
  <1>2. ActiveReserves /\ WorkOfOrdinary /\ ReferencesOwn
    BY DEF Init, ActiveReserves, WorkOfOrdinary, ReferencesOwn
  <1>3. OpSound BY DEF Init, OpSound
  <1>4. ClaimExclusion /\ WorkCovered /\ ClosedHoldsNothing
    BY DEF Init, ClaimExclusion, WorkCovered, ClosedHoldsNothing, Reserved
  <1> QED BY <1>1, <1>2, <1>3, <1>4 DEF IInv

(* Every operation keeps the shape of the documents.                        *)
LEMMA TypeStep == TypeOK /\ [Next]_vars => TypeOK'
  <1> SUFFICES ASSUME TypeOK, [Next]_vars PROVE TypeOK' OBVIOUS
  <1> USE DEF TypeOK, Idle, Doing, Then, Ops, Steps
  <1>1. ASSUME NEW t \in Tasks, InitTask(t) \/ CloseTask(t) \/ CancelTask(t)
        PROVE  TypeOK'
    BY <1>1 DEF InitTask, CloseTask, CancelTask
  <1>2. ASSUME NEW S \in SUBSET Rows, ImportLegacy(S) PROVE TypeOK'
    BY <1>2 DEF ImportLegacy
  <1>3. ASSUME NEW t \in Tasks, NEW k \in Tokens, NEW L \in LockSets,
               Claim(t, k, L) \/ Adopt(t, k, L) \/ StartMini(t, k, L)
        PROVE  TypeOK'
    <2>1. [task |-> t, locks |-> L, status |-> "active"] \in Claims
      BY DEF Claims, Reserving
    <2>2. CASE Claim(t, k, L) BY <2>1, <2>2 DEF Claim
    <2>3. CASE Adopt(t, k, L) BY <2>1, <2>3 DEF Adopt
    <2>4. CASE StartMini(t, k, L) BY <2>1, <2>4 DEF StartMini
    <2> QED BY <1>3, <2>2, <2>3, <2>4
  <1>4. ASSUME NEW k \in Tokens, NEW s \in Reserving, SetClaimStatus(k, s)
        PROVE  TypeOK'
    <2>1. [active[k] EXCEPT !.status = s] \in Claims
      BY <1>4 DEF SetClaimStatus, Claims
    <2> QED BY <1>4, <2>1 DEF SetClaimStatus
  <1>5. ASSUME NEW k \in Tokens, NEW s \in Terminal, Release(k, s)
        PROVE  TypeOK'
    <2>1. [active[k] EXCEPT !.status = s] \in Claims /\ active[k].task \in Tasks
      BY <1>5 DEF Release, Claims
    <2> QED BY <1>5, <2>1 DEF Release
  <1>6. ASSUME NEW k \in Tokens, NEW d \in {"still-active", "final"}, Audit(k, d)
        PROVE  TypeOK'
    BY <1>6 DEF Audit, Settled
  <1>7. ASSUME NEW t \in Tasks, NEW w \in Works, NEW L \in LockSets, StartWork(t, w, L)
        PROVE  TypeOK'
    BY <1>7 DEF StartWork, WorkRecords
  <1>8. ASSUME NEW w \in Works, EndWork(w) PROVE TypeOK'
    BY <1>8 DEF EndWork
  <1>9. CASE Refer BY <1>9 DEF Refer
  <1>10. CASE Decide BY <1>10 DEF Decide, Settled
  <1>11. CASE Unpend \/ Unlink \/ MiniRest \/ MiniFail \/ Crash
    <2>1. CASE Unpend \/ MiniRest \/ Crash BY <2>1 DEF Unpend, MiniRest, Crash
    <2>2. CASE Unlink BY <2>2 DEF Unlink
    <2>3. CASE MiniFail BY <2>3 DEF MiniFail
    <2> QED BY <1>11, <2>1, <2>2, <2>3
  <1>12. CASE MiniTask BY <1>12 DEF MiniTask
  <1>13. CASE MiniUndoClaim BY <1>13 DEF MiniUndoClaim
  <1>14. CASE MiniUndoTask BY <1>14 DEF MiniUndoTask
  <1>15. CASE UNCHANGED vars BY <1>15 DEF vars
  <1> QED
    BY <1>1, <1>2, <1>3, <1>4, <1>5, <1>6, <1>7, <1>8, <1>9, <1>10, <1>11,
       <1>12, <1>13, <1>14, <1>15 DEF Next, Start, Proceed

(* A record that is written is a file that exists.                          *)
LEMMA ClaimIsFile ==
    ASSUME NEW t \in Tasks, NEW L \in LockSets
    PROVE  [task |-> t, locks |-> L, status |-> "active"] # None
  <1>1. [task |-> t, locks |-> L, status |-> "active"] \in Claims
    BY DEF Claims, Reserving
  <1> QED BY <1>1, ClaimsAssumption

LEMMA WorkIsFile ==
    ASSUME NEW t \in Tasks, NEW L \in LockSets
    PROVE  [task |-> t, locks |-> L] # None
  <1>1. [task |-> t, locks |-> L] \in WorkRecords
    BY DEF WorkRecords
  <1> QED BY <1>1, ClaimsAssumption

(* What a step leaves alone when it leaves these variables alone.           *)
LEMMA ActiveFrame ==
    ASSUME ActiveReserves, ClaimExclusion, UNCHANGED active
    PROVE  ActiveReserves' /\ ClaimExclusion'
  BY DEF ActiveReserves, ClaimExclusion, Reserved

LEMMA WorkFrame ==
    ASSUME WorkOfOrdinary, WorkCovered, UNCHANGED <<active, work>>
    PROVE  WorkOfOrdinary' /\ WorkCovered'
  <1>1. WorkOfOrdinary' BY DEF WorkOfOrdinary
  <1>3. WorkCovered' BY DEF WorkCovered, OwnedLocks, Reserved
  <1> QED BY <1>1, <1>3

LEMMA ReferencesFrame ==
    ASSUME ReferencesOwn, UNCHANGED <<active, archive, refs>> PROVE ReferencesOwn'
  BY DEF ReferencesOwn

LEMMA ClosedFrame ==
    ASSUME ClosedHoldsNothing, UNCHANGED <<active, work, task>>
    PROVE  ClosedHoldsNothing'
  BY DEF ClosedHoldsNothing, Reserved

(* Locks owned by a task only grow when a record is added.                  *)
LEMMA OwnedGrows ==
    ASSUME NEW t \in Tasks,
           \A k \in Tokens : Reserved(k) =>
              Reserved(k)' /\ active'[k].task = active[k].task
                /\ active'[k].locks = active[k].locks
    PROVE  OwnedLocks(t) \subseteq OwnedLocks(t)'
  BY DEF OwnedLocks

(* Work stays covered when the owned locks of ordinary tasks do not shrink. *)
LEMMA CoveredByMore ==
    ASSUME WorkCovered, UNCHANGED work,
           \A w \in Works : work[w] # None =>
              OwnedLocks(work[w].task) \subseteq OwnedLocks(work[w].task)'
    PROVE  WorkCovered'
  BY DEF WorkCovered, CoveredBy

(* A new record with free locks under an unused token.                      *)
LEMMA GrantStep ==
    ASSUME IInv, NEW t \in Tasks, NEW k \in Tokens, NEW L \in LockSets,
           TokenFree(k), NEW S \in SUBSET Tokens, ~Conflicts(L, S), active[k] = None,
           \A x \in S : x = k,
           active' = [active EXCEPT ![k] = [task |-> t, locks |-> L, status |-> "active"]],
           UNCHANGED <<refs, archive, work>>
    PROVE  /\ ActiveReserves' /\ ClaimExclusion'
           /\ WorkOfOrdinary' /\ WorkCovered' /\ ReferencesOwn'
  <1> DEFINE r == [task |-> t, locks |-> L, status |-> "active"]
  <1> TypeOK /\ ActiveReserves /\ ClaimExclusion /\ WorkOfOrdinary
      /\ WorkCovered /\ ReferencesOwn
    BY DEF IInv
  <1>1. r # None
    BY ClaimIsFile, Zenon
  <1>2. /\ active'[k] = r
        /\ \A x \in Tokens \ {k} : active'[x] = active[x]
    BY DEF TypeOK
  <1>3. Reserved(k)' /\ \A x \in Tokens \ {k} : Reserved(x)' <=> Reserved(x)
    BY <1>1, <1>2 DEF Reserved, Reserving
  <1>4. ~Reserved(k)
    BY DEF Reserved
  <1>5. ActiveReserves'
    BY <1>2, <1>3 DEF ActiveReserves
  <1>6. \A x \in Tokens \ {k} : Reserved(x) => Disjoint(L, active[x].locks)
    BY DEF Conflicts
  <1>7. \A x \in Tokens : Reserved(x) => active[x].locks \subseteq Lock
    BY ClaimsAssumption DEF TypeOK, Claims, Reserved
  <1>8. L \subseteq Lock
    BY ClaimsAssumption
  <1>9. \A x \in Tokens \ {k} : Reserved(x) => Disjoint(active[x].locks, L)
    BY <1>6, <1>7, <1>8, OverlapSymmetric DEF Disjoint
  <1>10. ClaimExclusion'
    <2> SUFFICES ASSUME NEW x \in Tokens, NEW y \in Tokens, x # y,
                        Reserved(x)', Reserved(y)'
                 PROVE  Disjoint(active'[x].locks, active'[y].locks)
      BY DEF ClaimExclusion
    <2>1. CASE x = k
      BY <1>2, <1>3, <1>6, <2>1
    <2>2. CASE y = k
      BY <1>2, <1>3, <1>9, <2>2
    <2>3. CASE x # k /\ y # k
      BY <1>2, <1>3, <2>3 DEF ClaimExclusion
    <2> QED BY <2>1, <2>2, <2>3
  <1>11. WorkOfOrdinary'
    BY DEF WorkOfOrdinary
  <1>12. WorkCovered'
    <2>1. \A w \in Works : work[w] # None => work[w].task \in Tasks
      BY DEF TypeOK, WorkRecords
    <2>2. \A u \in Tasks : OwnedLocks(u) \subseteq OwnedLocks(u)'
      BY <1>2, <1>3, <1>4, OwnedGrows
    <2> QED BY <2>1, <2>2, CoveredByMore
  <1>13. ReferencesOwn'
    <2>1. \A u \in Tasks \ Minis : k \notin refs[u]
      BY DEF ReferencesOwn, TokenFree
    <2> QED BY <1>2, <2>1 DEF ReferencesOwn, TypeOK
  <1> QED BY <1>5, <1>10, <1>11, <1>12, <1>13

(* A token that loses its active record, its work being covered without it. *)
LEMMA RemoveStep ==
    ASSUME IInv, NEW k \in Tokens, active' = [active EXCEPT ![k] = None],
           UNCHANGED <<archive, refs, work>>,
           \A t \in Tasks \ Minis : k \in refs[t] =>
              archive[k] # None /\ archive[k].task = t,
           \A w \in Works : work[w] # None =>
              \/ active[k] = None
              \/ active[k].task # work[w].task
              \/ StaysCovered(work[w].task, k)
    PROVE  /\ ActiveReserves' /\ ClaimExclusion'
           /\ WorkOfOrdinary' /\ WorkCovered' /\ ReferencesOwn'
  <1> TypeOK /\ ActiveReserves /\ ClaimExclusion /\ WorkOfOrdinary
      /\ WorkCovered /\ ReferencesOwn
    BY DEF IInv
  <1>1. /\ active'[k] = None
        /\ \A x \in Tokens \ {k} : active'[x] = active[x]
    BY DEF TypeOK
  <1>2. ~Reserved(k)' /\ \A x \in Tokens \ {k} : Reserved(x)' <=> Reserved(x)
    BY <1>1 DEF Reserved
  <1>3. ActiveReserves' /\ ClaimExclusion'
    BY <1>1, <1>2 DEF ActiveReserves, ClaimExclusion
  <1>4. WorkOfOrdinary'
    BY DEF WorkOfOrdinary
  <1>5. ReferencesOwn'
    BY <1>1 DEF ReferencesOwn, TypeOK
  <1>6. ASSUME NEW w \in Works, work[w] # None, NEW l \in work[w].locks
        PROVE  \E x \in Tokens : /\ x # k /\ Reserved(x) /\ active[x].task = work[w].task
                                /\ \E h \in active[x].locks : Covers(h, l)
    <2>1. work[w].task \in Tasks \ Minis
      BY <1>6 DEF TypeOK, WorkRecords, WorkOfOrdinary
    <2>2. CASE active[k] = None \/ active[k].task # work[w].task
      <3>1. PICK h \in OwnedLocks(work[w].task) : Covers(h, l)
        BY <1>6 DEF WorkCovered, CoveredBy
      <3>2. PICK x \in Tokens : /\ Reserved(x) /\ active[x].task = work[w].task
                                /\ h \in active[x].locks
        BY <3>1 DEF OwnedLocks
      <3>3. x # k
        BY <2>2, <3>2 DEF Reserved
      <3> QED BY <3>1, <3>2, <3>3
    <2>3. CASE active[k] # None /\ active[k].task = work[w].task
      <3>1. StaysCovered(work[w].task, k)
        BY <1>6, <2>3
      <3>2. PICK h \in RemainingLocks(work[w].task, k) : Covers(h, l)
        BY <1>6, <3>1 DEF StaysCovered, CoveredBy
      <3>3. PICK x \in refs[work[w].task] \ {k} : Reserved(x) /\ h \in active[x].locks
        BY <3>2 DEF RemainingLocks
      <3>4. x \in Tokens /\ active[x].task = work[w].task
        BY <2>1, <3>3 DEF TypeOK, ReferencesOwn, Reserved
      <3> QED BY <3>2, <3>3, <3>4
    <2> QED BY <2>2, <2>3
  <1>7. WorkCovered'
    <2> SUFFICES ASSUME NEW w \in Works, (work[w] # None)', NEW l \in (work[w].locks)'
                 PROVE  CoveredBy(l, OwnedLocks(work[w].task))'
      BY DEF WorkCovered
    <2>1. PICK x \in Tokens : /\ x # k /\ Reserved(x) /\ active[x].task = work[w].task
                              /\ \E h \in active[x].locks : Covers(h, l)
      BY <1>6
    <2>2. Reserved(x)' /\ active'[x] = active[x]
      BY <1>1, <1>2, <2>1
    <2>3. (active[x].locks \subseteq OwnedLocks(work[w].task))'
      BY <2>1, <2>2 DEF OwnedLocks
    <2> QED BY <2>1, <2>2, <2>3 DEF CoveredBy
  <1> QED BY <1>3, <1>4, <1>5, <1>7

-----------------------------------------------------------------------------
(* Every step preserves the invariant *)

Grants(t, k, L) == Claim(t, k, L) \/ Adopt(t, k, L) \/ StartMini(t, k, L)

LEMMA GrantInv ==
    ASSUME IInv, TypeOK', NEW t \in Tasks, NEW k \in Tokens, NEW L \in LockSets,
           Grants(t, k, L)
    PROVE  IInv'
  <1> TypeOK /\ ActiveReserves /\ ClosedHoldsNothing /\ WorkOfOrdinary
    BY DEF IInv
  <1> DEFINE r == [task |-> t, locks |-> L, status |-> "active"]
  <1>1. /\ TokenFree(k) /\ active[k] = None /\ active' = [active EXCEPT ![k] = r]
        /\ UNCHANGED <<refs, archive, work>>
        /\ \E S \in SUBSET Tokens : ~Conflicts(L, S) /\ \A x \in S : x = k
    <2>1. {k} \in SUBSET Tokens /\ {} \in SUBSET Tokens OBVIOUS
    <2> QED BY <2>1 DEF Grants, Claim, Adopt, StartMini, Grantable, TokenFree
  <1>2. /\ ActiveReserves' /\ ClaimExclusion'
        /\ WorkOfOrdinary' /\ WorkCovered' /\ ReferencesOwn'
    BY <1>1, GrantStep
  <1>3. r # None /\ r.task = t
    BY ClaimIsFile, Zenon
  <1>4. active'[k] = r /\ \A x \in Tokens \ {k} : active'[x] = active[x]
    BY <1>1 DEF TypeOK
  <1>5. /\ op' # None => op'.token = k /\ op'.task = t
        /\ op' # None => op'.step \in {"refer", "mini-task"}
        /\ op' # None /\ op'.step = "refer" => t \notin Minis
        /\ op' # None /\ op'.step = "mini-task" => t \in Minis
    BY DEF Grants, Claim, Adopt, StartMini, Then
  <1>6. OpSound'
    BY <1>3, <1>4, <1>5 DEF OpSound, MiniSteps
  <1>7. ClosedHoldsNothing'
    <2>1. \A u \in Tasks : task'[u] = "closed" => task[u] = "closed" /\ u # t
      BY DEF Grants, Claim, Adopt, StartMini, TypeOK
    <2>2. \A x \in Tokens : active[x] # None => active[x].task \in Tasks
      BY DEF TypeOK, Claims
    <2>3. \A w \in Works : work[w] # None => work[w].task \in Tasks
      BY DEF TypeOK, WorkRecords
    <2>4. \A x \in Tokens : Reserved(x)' => task'[active'[x].task] # "closed"
      BY <1>3, <1>4, <2>1, <2>2 DEF Reserved, ClosedHoldsNothing
    <2>5. \A w \in Works : work[w] # None => task'[work[w].task] # "closed"
      BY <2>1, <2>3 DEF ClosedHoldsNothing
    <2> QED BY <1>1, <2>4, <2>5 DEF ClosedHoldsNothing
  <1> QED BY <1>2, <1>6, <1>7 DEF IInv

LEMMA QuietInv ==
    ASSUME IInv, TypeOK', UNCHANGED <<task, refs, active, archive, work>>,
           op' = None \/ op'.step \in {"decide", "unpend"}
    PROVE  IInv'
  <1>1. OpSound' BY DEF OpSound, MiniSteps
  <1> QED BY <1>1, ActiveFrame, WorkFrame, ReferencesFrame, ClosedFrame DEF IInv

LEMMA InitTaskInv ==
    ASSUME IInv, TypeOK', NEW t \in Tasks, InitTask(t)
    PROVE  IInv'
  <1> IInv /\ TypeOK BY DEF IInv
  <1>1. op' = None /\ UNCHANGED <<refs, active, archive, work>>
    BY DEF InitTask, Idle
  <1>2. ClosedHoldsNothing'
    <2>1. \A u \in Tasks : task'[u] = "closed" => task[u] = "closed"
      BY DEF InitTask, TypeOK
    <2>2. \A x \in Tokens : active[x] # None => active[x].task \in Tasks
      BY DEF TypeOK, Claims
    <2>3. \A w \in Works : work[w] # None => work[w].task \in Tasks
      BY DEF TypeOK, WorkRecords
    <2> QED BY <1>1, <2>1, <2>2, <2>3 DEF IInv, ClosedHoldsNothing, Reserved
  <1>3. OpSound' BY <1>1 DEF OpSound
  <1> QED BY <1>1, <1>2, <1>3, ActiveFrame, WorkFrame, ReferencesFrame DEF IInv

(* close_gate and the cancel gate look at every record of the task.         *)
LEMMA CloseInv ==
    ASSUME IInv, TypeOK', NEW t \in Tasks, CloseTask(t) \/ CancelTask(t)
    PROVE  IInv'
  <1> IInv /\ TypeOK BY DEF IInv
  <1>1. /\ op' = None /\ UNCHANGED <<refs, active, archive, work>> /\ HoldsNothing(t)
        /\ task' = [task EXCEPT ![t] = "closed"]
    BY DEF CloseTask, CancelTask, Idle
  <1>2. ClosedHoldsNothing'
    <2>1. \A u \in Tasks \ {t} : task'[u] = task[u]
      BY <1>1 DEF TypeOK
    <2>2. \A x \in Tokens : active[x] # None => active[x].task \in Tasks
      BY DEF TypeOK, Claims
    <2>3. \A w \in Works : work[w] # None => work[w].task \in Tasks
      BY DEF TypeOK, WorkRecords
    <2> QED BY <1>1, <2>1, <2>2, <2>3 DEF IInv, ClosedHoldsNothing, HoldsNothing, Reserved
  <1>3. OpSound' BY <1>1 DEF OpSound
  <1> QED BY <1>1, <1>2, <1>3, ActiveFrame, WorkFrame, ReferencesFrame DEF IInv

LEMMA ReferInv ==
    ASSUME IInv, TypeOK', Refer
    PROVE  IInv'
  <1> IInv /\ TypeOK BY DEF IInv
  <1>1. /\ UNCHANGED <<task, active, archive, work>>
        /\ refs' = [refs EXCEPT ![op.task] = @ \cup {op.token}]
        /\ op' = None \/ op'.step = "decide"
    BY DEF Refer, Then
  <1>2. /\ op.task \in Tasks \ Minis /\ active[op.token] # None
        /\ active[op.token].task = op.task
    BY DEF IInv, OpSound, Refer, Doing
  <1>3. ReferencesOwn'
    <2>1. \A u \in Tasks : refs'[u] \subseteq refs[u] \cup (IF u = op.task THEN {op.token} ELSE {})
      BY <1>1, <1>2 DEF TypeOK
    <2> QED BY <1>1, <1>2, <2>1 DEF IInv, ReferencesOwn
  <1>4. OpSound' BY <1>1 DEF OpSound, MiniSteps
  <1> QED BY <1>1, <1>3, <1>4, ActiveFrame, WorkFrame, ClosedFrame DEF IInv

LEMMA SetStatusInv ==
    ASSUME IInv, TypeOK', NEW k \in Tokens, NEW s \in Reserving, SetClaimStatus(k, s)
    PROVE  IInv'
  <1> IInv /\ TypeOK /\ ActiveReserves /\ ClaimExclusion /\ WorkCovered
    BY DEF IInv
  <1>1. active[k] \in Claims /\ active[k] # None
    BY DEF SetClaimStatus, TypeOK
  <1> DEFINE r == [active[k] EXCEPT !.status = s]
  <1>2. /\ active'[k] = r /\ \A x \in Tokens \ {k} : active'[x] = active[x]
        /\ op' = None /\ UNCHANGED <<task, refs, archive, work>>
    BY DEF SetClaimStatus, TypeOK, Idle
  <1>3. /\ r \in Claims /\ r.task = active[k].task /\ r.locks = active[k].locks
        /\ r.status = s
    BY <1>1 DEF Claims
  <1>4. r # None
    BY <1>3, ClaimsAssumption
  <1> HIDE DEF r
  <1>5. Reserved(k)
    BY <1>1 DEF ActiveReserves
  <1>6. \A x \in Tokens : /\ Reserved(x)' <=> Reserved(x)
                          /\ (active'[x] = None) <=> (active[x] = None)
                          /\ active[x] # None => /\ active'[x].task = active[x].task
                                                 /\ active'[x].locks = active[x].locks
    BY <1>1, <1>2, <1>3, <1>4, <1>5 DEF Reserved
  <1>7. ActiveReserves' BY <1>6 DEF ActiveReserves
  <1>8. ClaimExclusion'
    <2>1. \A x \in Tokens : Reserved(x) => active[x] # None BY DEF Reserved
    <2> QED BY <1>6, <2>1 DEF ClaimExclusion
  <1>9. WorkOfOrdinary' BY <1>2 DEF IInv, WorkOfOrdinary
  <1>10. WorkCovered'
    <2>1. \A x \in Tokens : Reserved(x) => active[x] # None BY DEF Reserved
    <2>2. \A u \in Tasks : OwnedLocks(u) \subseteq OwnedLocks(u)'
      BY <1>6, <2>1, OwnedGrows
    <2>3. \A w \in Works : work[w] # None => work[w].task \in Tasks
      BY DEF TypeOK, WorkRecords
    <2> QED BY <1>2, <2>2, <2>3, CoveredByMore
  <1>11. ReferencesOwn'
    <2>1. \A u \in Tasks : refs[u] \subseteq Tokens BY DEF TypeOK
    <2> QED BY <1>2, <1>6, <2>1 DEF IInv, ReferencesOwn
  <1>12. OpSound' BY <1>2 DEF OpSound
  <1>13. ClosedHoldsNothing'
    <2>1. \A x \in Tokens : Reserved(x) => active[x] # None BY DEF Reserved
    <2> QED BY <1>2, <1>6, <2>1 DEF IInv, ClosedHoldsNothing
  <1> QED BY <1>7, <1>8, <1>9, <1>10, <1>11, <1>12, <1>13 DEF IInv

(* release-claim writes the archive copy while the active file reserves.    *)
LEMMA ReleaseInv ==
    ASSUME IInv, TypeOK', NEW k \in Tokens, NEW s \in Terminal, Release(k, s)
    PROVE  IInv'
  <1> IInv /\ TypeOK BY DEF IInv
  <1>1. active[k] \in Claims /\ active[k] # None /\ active[k].task \in Tasks
    BY DEF Release, TypeOK, Claims
  <1> DEFINE r == [active[k] EXCEPT !.status = s]
  <1>2. /\ archive'[k] = r /\ \A x \in Tokens \ {k} : archive'[x] = archive[x]
        /\ UNCHANGED <<task, refs, active, work>>
        /\ StaysCovered(active[k].task, k)
    BY DEF Release, TypeOK
  <1>3. /\ r \in Claims /\ r.task = active[k].task /\ r.locks = active[k].locks
        /\ r.status = s
    BY <1>1 DEF Claims
  <1>4. r # None
    BY <1>3, ClaimsAssumption
  <1> HIDE DEF r
  <1>5. ReferencesOwn'
    <2>1. \A u \in Tasks : refs[u] \subseteq Tokens BY DEF TypeOK
    <2> QED BY <1>1, <1>2, <2>1 DEF IInv, ReferencesOwn
  <1>6. OpSound'
    <2>1. /\ op'.step = "unlink" /\ op'.task = active[k].task /\ op'.token = k
      BY DEF Release, Then
    <2>2. StaysCovered(active[k].task, k)'
      BY <1>2 DEF StaysCovered, RemainingLocks, Reserved
    <2>3. StaysCovered(op.task, op.token)'
      BY <2>1, <2>2, <1>2
    <2> QED BY <1>1, <1>2, <1>3, <1>4, <2>1, <2>3 DEF OpSound, MiniSteps
  <1> QED BY <1>2, <1>5, <1>6, ActiveFrame, WorkFrame, ClosedFrame DEF IInv

LEMMA ClosedWithFewer ==
    ASSUME ClosedHoldsNothing, UNCHANGED <<task, work>>,
           \A x \in Tokens : Reserved(x)' => Reserved(x) /\ active'[x] = active[x]
    PROVE  ClosedHoldsNothing'
  BY DEF ClosedHoldsNothing

LEMMA UnlinkInv ==
    ASSUME IInv, TypeOK', Unlink
    PROVE  IInv'
  <1> IInv /\ TypeOK BY DEF IInv
  <1> DEFINE k == op.token
  <1>1. /\ op # None /\ op.step = "unlink" /\ k \in Tokens /\ op' = None
        /\ active' = [active EXCEPT ![k] = None]
        /\ UNCHANGED <<task, refs, archive, work>>
    BY DEF Unlink, Doing, TypeOK, Ops
  <1>2. /\ active[k] # None /\ active[k].task = op.task
        /\ archive[k] # None /\ archive[k].task = op.task
        /\ StaysCovered(op.task, k)
    BY <1>1 DEF IInv, OpSound
  <1> HIDE DEF k
  <1>3. \A t \in Tasks \ Minis : k \in refs[t] => archive[k].task = t
    BY <1>2 DEF IInv, ReferencesOwn
  <1>4. \A w \in Works : work[w] # None =>
           \/ active[k].task # work[w].task \/ StaysCovered(work[w].task, k)
    BY <1>2
  <1>5. /\ ActiveReserves' /\ ClaimExclusion'
        /\ WorkOfOrdinary' /\ WorkCovered' /\ ReferencesOwn'
    BY <1>1, <1>2, <1>3, <1>4, RemoveStep
  <1>6. ClosedHoldsNothing'
    <2>1. \A x \in Tokens : Reserved(x)' => Reserved(x) /\ active'[x] = active[x]
      BY <1>1 DEF Reserved, TypeOK
    <2> QED BY <1>1, <2>1, ClosedWithFewer DEF IInv
  <1>7. OpSound' BY <1>1 DEF OpSound
  <1> QED BY <1>5, <1>6, <1>7 DEF IInv

(* The rollback of start-mini removes a claim no work runs under.           *)
LEMMA MiniUndoClaimInv ==
    ASSUME IInv, TypeOK', MiniUndoClaim
    PROVE  IInv'
  <1> IInv /\ TypeOK BY DEF IInv
  <1> DEFINE k == op.token
  <1>1. /\ op # None /\ op.step = "undo-claim" /\ k \in Tokens
        /\ op'.step = "undo-task" /\ op'.task = op.task
        /\ UNCHANGED <<task, refs, archive, work>>
        /\ active' = active \/ active' = [active EXCEPT ![k] = None]
    BY DEF MiniUndoClaim, Doing, TypeOK, Ops, Then
  <1>2. active[k] # None /\ active[k].task = op.task /\ op.task \in Minis
    BY <1>1 DEF IInv, OpSound, MiniSteps
  <1>3. OpSound'
    BY <1>1, <1>2 DEF OpSound, MiniSteps
  <1> HIDE DEF k
  <1>4. CASE active' = active
    BY <1>1, <1>3, <1>4, ActiveFrame, WorkFrame, ReferencesFrame, ClosedFrame DEF IInv
  <1>5. CASE active' = [active EXCEPT ![k] = None]
    <2>1. \A t \in Tasks \ Minis : k \notin refs[t]
      BY <1>2 DEF IInv, ReferencesOwn
    <2>2. \A w \in Works : work[w] # None => active[k].task # work[w].task
      BY <1>2 DEF IInv, WorkOfOrdinary
    <2>3. /\ ActiveReserves' /\ ClaimExclusion'
          /\ WorkOfOrdinary' /\ WorkCovered' /\ ReferencesOwn'
      BY <1>1, <1>5, <2>1, <2>2, RemoveStep
    <2>4. ClosedHoldsNothing'
      <3>1. \A x \in Tokens : Reserved(x)' => Reserved(x) /\ active'[x] = active[x]
        BY <1>1, <1>5 DEF Reserved, TypeOK
      <3> QED BY <1>1, <3>1, ClosedWithFewer DEF IInv
    <2> QED BY <1>3, <2>3, <2>4 DEF IInv
  <1> QED BY <1>1, <1>4, <1>5

LEMMA MiniTaskInv ==
    ASSUME IInv, TypeOK', MiniTask \/ MiniUndoTask
    PROVE  IInv'
  <1> IInv /\ TypeOK BY DEF IInv
  <1>1. /\ op # None /\ op.step \in {"mini-task", "undo-task"}
        /\ UNCHANGED <<active, archive, work>>
        /\ \A u \in Tasks \ {op.task} : task'[u] = task[u] /\ refs'[u] = refs[u]
        /\ op.task \in Tasks => task'[op.task] # "closed"
    BY DEF MiniTask, MiniUndoTask, Doing, TypeOK
  <1>2. op.task \in Minis
    BY <1>1 DEF IInv, OpSound, MiniSteps
  <1>3. ReferencesOwn'
    BY <1>1, <1>2 DEF IInv, ReferencesOwn
  <1>4. ClosedHoldsNothing'
    <2>1. \A u \in Tasks : task'[u] = "closed" => task[u] = "closed"
      BY <1>1
    <2>2. \A x \in Tokens : active[x] # None => active[x].task \in Tasks
      BY DEF TypeOK, Claims
    <2>3. \A w \in Works : work[w] # None => work[w].task \in Tasks
      BY DEF TypeOK, WorkRecords
    <2> QED BY <1>1, <2>1, <2>2, <2>3 DEF IInv, ClosedHoldsNothing, Reserved
  <1>5. OpSound'
    BY <1>1 DEF MiniTask, MiniUndoTask, IInv, OpSound, MiniSteps, Then, Doing
  <1> QED BY <1>1, <1>3, <1>4, <1>5, ActiveFrame, WorkFrame DEF IInv

(* create-packet and job-start accept only locks their task owns.           *)
LEMMA StartWorkInv ==
    ASSUME IInv, TypeOK', NEW t \in Tasks, NEW w \in Works, NEW L \in LockSets,
           StartWork(t, w, L)
    PROVE  IInv'
  <1> IInv /\ TypeOK BY DEF IInv
  <1> DEFINE r == [task |-> t, locks |-> L]
  <1>1. /\ op' = None /\ UNCHANGED <<task, refs, active, archive>>
        /\ task[t] = "open" /\ t \notin Minis
        /\ \A l \in L : CoveredBy(l, OwnedLocks(t))
        /\ work'[w] = r /\ \A v \in Works \ {w} : work'[v] = work[v]
    BY DEF StartWork, Idle, TypeOK
  <1>2. r.task = t /\ r.locks = L OBVIOUS
  <1> HIDE DEF r
  <1>3. WorkOfOrdinary' BY <1>1, <1>2 DEF IInv, WorkOfOrdinary
  <1>4. WorkCovered'
    <2>1. \A v \in Works : work'[v] # None =>
             \A l \in work'[v].locks : CoveredBy(l, OwnedLocks(work'[v].task))
      BY <1>1, <1>2 DEF IInv, WorkCovered
    <2> QED BY <1>1, <2>1 DEF WorkCovered, OwnedLocks, Reserved
  <1>5. ClosedHoldsNothing'
    BY <1>1, <1>2 DEF IInv, ClosedHoldsNothing, Reserved
  <1>6. OpSound' BY <1>1 DEF OpSound
  <1> QED BY <1>1, <1>3, <1>4, <1>5, <1>6, ActiveFrame, ReferencesFrame DEF IInv

LEMMA EndWorkInv ==
    ASSUME IInv, TypeOK', NEW w \in Works, EndWork(w)
    PROVE  IInv'
  <1> IInv /\ TypeOK BY DEF IInv
  <1>1. /\ op' = None /\ UNCHANGED <<task, refs, active, archive>>
        /\ \A v \in Works : work'[v] # None => work'[v] = work[v]
    BY DEF EndWork, Idle, TypeOK
  <1>2. WorkOfOrdinary' BY <1>1 DEF IInv, WorkOfOrdinary
  <1>3. WorkCovered'
    <2>1. \A v \in Works : work'[v] # None =>
             \A l \in work'[v].locks : CoveredBy(l, OwnedLocks(work'[v].task))
      BY <1>1 DEF IInv, WorkCovered
    <2> QED BY <1>1, <2>1 DEF WorkCovered, OwnedLocks, Reserved
  <1>4. ClosedHoldsNothing'
    BY <1>1 DEF IInv, ClosedHoldsNothing, Reserved
  <1>5. OpSound' BY <1>1 DEF OpSound
  <1> QED BY <1>1, <1>2, <1>3, <1>4, <1>5, ActiveFrame, ReferencesFrame DEF IInv

LEMMA MiniFailInv ==
    ASSUME IInv, TypeOK', MiniFail
    PROVE  IInv'
  <1> IInv /\ TypeOK BY DEF IInv
  <1>1. UNCHANGED <<task, refs, active, archive, work>>
    BY DEF MiniFail
  <1>2. OpSound'
    BY DEF MiniFail, IInv, OpSound, MiniSteps, Then, Doing
  <1> QED BY <1>1, <1>2, ActiveFrame, WorkFrame, ReferencesFrame, ClosedFrame DEF IInv

LEMMA StutterInv ==
    ASSUME IInv, TypeOK', UNCHANGED vars
    PROVE  IInv'
  <1> IInv /\ TypeOK BY DEF IInv
  <1>1. OpSound'
    BY DEF IInv, OpSound, StaysCovered, RemainingLocks, Reserved, vars
  <1> QED BY <1>1, ActiveFrame, WorkFrame, ReferencesFrame, ClosedFrame DEF IInv, vars

LEMMA StepInv == IInv /\ [Next]_vars => IInv'
  <1> SUFFICES ASSUME IInv, [Next]_vars PROVE IInv' OBVIOUS
  <1> TypeOK BY DEF IInv
  <1>0. TypeOK' BY TypeStep
  <1>1. ASSUME NEW t \in Tasks, InitTask(t) PROVE IInv'
    BY <1>0, <1>1, InitTaskInv
  <1>2. ASSUME NEW t \in Tasks, CloseTask(t) \/ CancelTask(t) PROVE IInv'
    BY <1>0, <1>2, CloseInv
  <1>3. ASSUME NEW S \in SUBSET Rows, ImportLegacy(S) PROVE IInv'
    BY <1>0, <1>3, QuietInv DEF ImportLegacy, Idle
  <1>4. ASSUME NEW t \in Tasks, NEW k \in Tokens, NEW L \in LockSets,
               Claim(t, k, L) \/ Adopt(t, k, L) \/ StartMini(t, k, L)
        PROVE  IInv'
    BY <1>0, <1>4, GrantInv DEF Grants
  <1>5. ASSUME NEW k \in Tokens, NEW s \in Reserving, SetClaimStatus(k, s) PROVE IInv'
    BY <1>0, <1>5, SetStatusInv
  <1>6. ASSUME NEW k \in Tokens, NEW s \in Terminal, Release(k, s) PROVE IInv'
    BY <1>0, <1>6, ReleaseInv
  <1>7. ASSUME NEW k \in Tokens, NEW d \in {"still-active", "final"}, Audit(k, d)
        PROVE  IInv'
    BY <1>0, <1>7, QuietInv DEF Audit, Then
  <1>8. ASSUME NEW t \in Tasks, NEW w \in Works, NEW L \in LockSets, StartWork(t, w, L)
        PROVE  IInv'
    BY <1>0, <1>8, StartWorkInv
  <1>9. ASSUME NEW w \in Works, EndWork(w) PROVE IInv'
    BY <1>0, <1>9, EndWorkInv
  <1>10. CASE Refer BY <1>0, <1>10, ReferInv
  <1>11. CASE Unlink BY <1>0, <1>11, UnlinkInv
  <1>12. CASE Decide \/ Unpend \/ MiniRest \/ Crash
    BY <1>0, <1>12, QuietInv DEF Decide, Unpend, MiniRest, Crash, Then
  <1>13. CASE MiniTask \/ MiniUndoTask BY <1>0, <1>13, MiniTaskInv
  <1>14. CASE MiniFail BY <1>0, <1>14, MiniFailInv
  <1>15. CASE MiniUndoClaim BY <1>0, <1>15, MiniUndoClaimInv
  <1>16. CASE UNCHANGED vars BY <1>0, <1>16, StutterInv
  <1> QED
    BY <1>1, <1>2, <1>3, <1>4, <1>5, <1>6, <1>7, <1>8, <1>9, <1>10, <1>11,
       <1>12, <1>13, <1>14, <1>15, <1>16 DEF Next, Start, Proceed

LEMMA ClaimsInvariance == Spec => []IInv
  BY InitInv, StepInv, PTL DEF Spec

-----------------------------------------------------------------------------
(* Theorems *)

(* Documents keep their shape whatever is killed.                           *)
THEOREM ClaimsTypes == Spec => []TypeOK
  BY ClaimsInvariance, PTL DEF IInv

(* Reservations of two tokens never overlap (find_conflicts).               *)
THEOREM Exclusion == Spec => []ClaimExclusion
  BY ClaimsInvariance, PTL DEF IInv

(* release-claim never uncovers a running packet or job.                    *)
THEOREM Coverage == Spec => []WorkCovered
  BY ClaimsInvariance, PTL DEF IInv

(* A finished task holds nothing, also after commands cut short.            *)
THEOREM ClosedTasks == Spec => []ClosedHoldsNothing
  BY ClaimsInvariance, PTL DEF IInv

(* Packets and jobs of different tasks run on disjoint locks.               *)
THEOREM DisjointWork == Spec => []WorkExclusion
  <1>1. IInv => WorkExclusion
    <2> SUFFICES ASSUME IInv, NEW v \in Works, NEW w \in Works,
                        work[v] # None, work[w] # None, work[v].task # work[w].task,
                        NEW l \in work[v].locks, NEW m \in work[w].locks
                 PROVE  ~Overlap(l, m)
      BY DEF WorkExclusion, Disjoint
    <2> TypeOK /\ ClaimExclusion /\ WorkCovered BY DEF IInv
    <2>1. PICK g \in OwnedLocks(work[v].task) : Covers(g, l)
      BY DEF WorkCovered, CoveredBy
    <2>2. PICK h \in OwnedLocks(work[w].task) : Covers(h, m)
      BY DEF WorkCovered, CoveredBy
    <2>3. PICK x \in Tokens : /\ Reserved(x) /\ active[x].task = work[v].task
                              /\ g \in active[x].locks
      BY <2>1 DEF OwnedLocks
    <2>4. PICK y \in Tokens : /\ Reserved(y) /\ active[y].task = work[w].task
                              /\ h \in active[y].locks
      BY <2>2 DEF OwnedLocks
    <2>5. ~Overlap(g, h)
      BY <2>3, <2>4 DEF ClaimExclusion, Disjoint
    <2>6. active[x].locks \in LockSets /\ active[y].locks \in LockSets
      BY <2>3, <2>4 DEF TypeOK, Claims, Reserved
    <2>7. work[v].locks \in LockSets /\ work[w].locks \in LockSets
      BY DEF TypeOK, WorkRecords
    <2>8. g \in Lock /\ h \in Lock /\ l \in Lock /\ m \in Lock
      BY <2>3, <2>4, <2>6, <2>7, ClaimsAssumption
    <2> QED BY <2>1, <2>2, <2>5, <2>8, CoveredDisjoint
  <1> QED BY <1>1, ClaimsInvariance, PTL

(* What an ordinary task references has a record that names the task.       *)
THEOREM References == Spec => []ReferencesBacked
  <1>1. IInv => ReferencesBacked
    <2> SUFFICES ASSUME IInv, NEW t \in Tasks \ Minis, NEW k \in refs[t]
                 PROVE  k \in RecordsOf(t)
      BY DEF ReferencesBacked
    <2>1. k \in Tokens BY DEF IInv, TypeOK
    <2> QED BY <2>1 DEF IInv, ReferencesOwn, RecordsOf
  <1> QED BY <1>1, ClaimsInvariance, PTL

(* "A crash may leave duplicate records, never an early lock release."      *)
THEOREM ReleaseOrder == Spec => NoEarlyRelease
  <1>1. ASSUME IInv, [Next]_vars
        PROVE  \A k \in Tokens : active[k] # None /\ active'[k] = None =>
                  \/ archive[k] # None /\ archive[k].status \in Terminal
                     /\ archive[k].locks = active[k].locks
                  \/ Doing("undo-claim") /\ op.token = k
    <2> SUFFICES ASSUME NEW k \in Tokens, active[k] # None, active'[k] = None
                 PROVE  \/ archive[k] # None /\ archive[k].status \in Terminal
                           /\ archive[k].locks = active[k].locks
                        \/ Doing("undo-claim") /\ op.token = k
      OBVIOUS
    <2> TypeOK BY <1>1 DEF IInv
    <2>1. CASE Unlink
      BY <1>1, <2>1 DEF Unlink, IInv, OpSound, Doing, TypeOK
    <2>2. CASE MiniUndoClaim
      BY <2>2 DEF MiniUndoClaim, TypeOK, Doing
    <2>3. ASSUME NEW t \in Tasks, NEW m \in Tokens, NEW L \in LockSets,
                 Grants(t, m, L)
          PROVE  FALSE
      <3>1. active' = [active EXCEPT ![m] = [task |-> t, locks |-> L, status |-> "active"]]
        BY <2>3 DEF Grants, Claim, Adopt, StartMini
      <3>2. [task |-> t, locks |-> L, status |-> "active"] # None
        BY ClaimIsFile, Zenon
      <3> QED BY <3>1, <3>2 DEF TypeOK
    <2>4. ASSUME NEW m \in Tokens, NEW s \in Reserving, SetClaimStatus(m, s)
          PROVE  FALSE
      <3>1. active[m] \in Claims
        BY <2>4 DEF SetClaimStatus, TypeOK
      <3> DEFINE r == [active[m] EXCEPT !.status = s]
      <3>2. r \in Claims BY <3>1 DEF Claims
      <3>3. r # None BY <3>2, ClaimsAssumption
      <3>4. active' = [active EXCEPT ![m] = r] BY <2>4 DEF SetClaimStatus
      <3> HIDE DEF r
      <3> QED BY <3>3, <3>4 DEF TypeOK
    <2>5. ASSUME UNCHANGED active PROVE FALSE
      BY <2>5
    <2> QED
      BY <1>1, <2>1, <2>2, <2>3, <2>4, <2>5
      DEF Next, Start, Proceed, Grants, vars, InitTask, CloseTask, CancelTask,
          ImportLegacy, Release, Audit, StartWork, EndWork, Refer, Decide, Unpend,
          MiniTask, MiniRest, MiniFail, MiniUndoTask, Crash
  <1> QED BY <1>1, ClaimsInvariance, PTL DEF Spec, NoEarlyRelease

(* A new claim is clear of every reservation that find_conflicts scans, of   *)
(* whichever task, and of every pending legacy row but the one it adopts.   *)
THEOREM GrantsAreClear == Spec => GrantClear
  <1> DEFINE Clear(k) == /\ \A m \in Tokens \ {k} :
                               Reserved(m) => Disjoint(active'[k].locks, active[m].locks)
                         /\ \A m \in pending : ~Disjoint(active'[k].locks, RowLocks[m])
                               => m = k /\ op'.adopts
  <1>1. ASSUME IInv, [Next]_vars
        PROVE  \A k \in Tokens : active[k] = None /\ active'[k] # None => Clear(k)
    <2> SUFFICES ASSUME NEW k \in Tokens, active[k] = None, active'[k] # None
                 PROVE  Clear(k)
      OBVIOUS
    <2> TypeOK BY <1>1 DEF IInv
    <2>1. ASSUME NEW t \in Tasks, NEW m \in Tokens, NEW L \in LockSets,
                 Claim(t, m, L) \/ Adopt(t, m, L) \/ StartMini(t, m, L)
          PROVE  Clear(k)
      <3>1. PICK c : c = [task |-> t, locks |-> L, status |-> "active"]
        OBVIOUS
      <3>2. active' = [active EXCEPT ![m] = c] /\ c.locks = L
        BY <2>1, <3>1 DEF Claim, Adopt, StartMini
      <3>3. m = k /\ active'[k].locks = L
        BY <3>2 DEF TypeOK
      <3>4. CASE Adopt(t, m, L)
        <4>1. ~Conflicts(L, {k}) /\ op'.adopts
          BY <3>3, <3>4 DEF Adopt, Grantable, Then
        <4> QED BY <3>3, <4>1 DEF Conflicts
      <3>5. CASE ~Adopt(t, m, L)
        <4>1. ~Conflicts(L, {})
          BY <2>1, <3>5 DEF Claim, StartMini, Grantable
        <4> QED BY <3>3, <4>1 DEF Conflicts
      <3> QED BY <3>4, <3>5
    <2>2. ASSUME NEW m \in Tokens, NEW s \in Reserving, SetClaimStatus(m, s)
          PROVE  FALSE
      BY <2>2 DEF SetClaimStatus, TypeOK
    <2>3. ASSUME UNCHANGED active \/ Unlink \/ MiniUndoClaim PROVE FALSE
      BY <2>3 DEF Unlink, MiniUndoClaim, TypeOK
    <2> QED
      BY <1>1, <2>1, <2>2, <2>3
      DEF Next, Start, Proceed, vars, InitTask, CloseTask, CancelTask,
          ImportLegacy, Release, Audit, StartWork, EndWork, Refer, Decide, Unpend,
          MiniTask, MiniRest, MiniFail, MiniUndoTask, Crash
  <1> QED BY <1>1, ClaimsInvariance, PTL DEF Spec, GrantClear

-----------------------------------------------------------------------------
(* Adoption *)

(* The record r owns all that the legacy row of k reserved.                 *)
Scoped(k, r) == r # None /\ \A l \in RowLocks[k] : CoveredBy(l, r.locks)

(* The two copies a killed release leaves agree on the locks.               *)
CopiesAgree == \A k \in Tokens : active[k] # None /\ archive[k] # None
                   => archive[k].locks = active[k].locks

RowsScoped == \A k \in Rows : decided[k] = "adopted_structured" =>
                  Scoped(k, active[k]) \/ Scoped(k, archive[k])

(* An adoption under way has its claim; the claim that start-mini may take  *)
(* back is not what a row was left to.                                      *)
AdoptionReady ==
    op # None =>
        /\ op.step = "decide" \/ (op.step = "refer" /\ op.adopts) =>
              Scoped(op.token, active[op.token])
        /\ op.step \in MiniSteps /\ op.token \in Rows =>
              decided[op.token] # "adopted_structured"

ScopeInv == CopiesAgree /\ RowsScoped /\ AdoptionReady

LEMMA ScopeGrant ==
    ASSUME TypeOK, ScopeInv, NEW t \in Tasks, NEW k \in Tokens, NEW L \in LockSets,
           Claim(t, k, L) \/ Adopt(t, k, L) \/ StartMini(t, k, L)
    PROVE  ScopeInv'
  <1>1. PICK c : c = [task |-> t, locks |-> L, status |-> "active"]
    OBVIOUS
  <1>2. /\ active' = [active EXCEPT ![k] = c] /\ c.locks = L /\ c # None
        /\ active[k] = None /\ archive[k] = None
        /\ archive' = archive /\ decided' = decided
    BY <1>1, ClaimIsFile DEF Claim, Adopt, StartMini, TokenFree
  <1>3. active'[k] = c /\ \A m \in Tokens : m # k => active'[m] = active[m]
    BY <1>2 DEF TypeOK
  <1>4. CopiesAgree'
    BY <1>2, <1>3 DEF ScopeInv, CopiesAgree
  <1>5. k \in Rows => decided[k] # "adopted_structured"
    BY <1>2 DEF ScopeInv, RowsScoped, Scoped
  <1>6. RowsScoped'
    <2> SUFFICES ASSUME NEW m \in Rows, decided'[m] = "adopted_structured"
                 PROVE  Scoped(m, active'[m]) \/ Scoped(m, archive'[m])
      BY DEF RowsScoped, Scoped
    <2>1. m # k /\ m \in Tokens /\ (Scoped(m, active[m]) \/ Scoped(m, archive[m]))
      BY <1>2, <1>5, ClaimsAssumption DEF ScopeInv, RowsScoped
    <2> QED BY <1>2, <1>3, <2>1
  <1>7. AdoptionReady'
    <2>1. op' # None => op'.token = k
      BY DEF Claim, Adopt, StartMini, Then
    <2>2. CASE Adopt(t, k, L)
      <3>1. op'.step = "refer" /\ \A l \in RowLocks[k] : CoveredBy(l, L)
        BY <2>2 DEF Adopt, Then
      <3>2. Scoped(k, active'[k])
        BY <1>2, <1>3, <3>1 DEF Scoped
      <3>3. op'.step \notin MiniSteps
        BY <3>1 DEF MiniSteps
      <3> QED BY <2>1, <3>2, <3>3 DEF AdoptionReady, Scoped
    <2>3. CASE ~Adopt(t, k, L)
      <3>1. op'.step \in {"refer", "mini-task"} /\ ~op'.adopts
        BY <2>3 DEF Claim, StartMini, Then
      <3> QED BY <1>2, <1>5, <2>1, <3>1 DEF AdoptionReady
    <2> QED BY <2>2, <2>3
  <1> QED BY <1>4, <1>6, <1>7 DEF ScopeInv

LEMMA ScopeSetStatus ==
    ASSUME TypeOK, ScopeInv, NEW k \in Tokens, NEW s \in Reserving, SetClaimStatus(k, s)
    PROVE  ScopeInv'
  <1>1. active[k] \in Claims
    BY DEF SetClaimStatus, TypeOK
  <1>2. PICK c : c = [active[k] EXCEPT !.status = s]
    OBVIOUS
  <1>3. c \in Claims /\ c.locks = active[k].locks
    BY <1>1, <1>2 DEF Claims
  <1>4. c # None
    BY <1>3, ClaimsAssumption
  <1>5. /\ active' = [active EXCEPT ![k] = c] /\ active[k] # None
        /\ archive' = archive /\ decided' = decided /\ op = None /\ op' = None
    BY <1>2 DEF SetClaimStatus, Idle
  <1>6. \A m \in Tokens : /\ active'[m] # None <=> active[m] # None
                          /\ active'[m] # None => active'[m].locks = active[m].locks
    BY <1>3, <1>4, <1>5 DEF TypeOK
  <1>7. CopiesAgree'
    BY <1>5, <1>6 DEF ScopeInv, CopiesAgree
  <1>8. RowsScoped'
    <2> SUFFICES ASSUME NEW m \in Rows, decided'[m] = "adopted_structured"
                 PROVE  Scoped(m, active'[m]) \/ Scoped(m, archive'[m])
      BY DEF RowsScoped, Scoped
    <2>1. m \in Tokens /\ (Scoped(m, active[m]) \/ Scoped(m, archive[m]))
      BY <1>5, ClaimsAssumption DEF ScopeInv, RowsScoped
    <2> QED BY <1>5, <1>6, <2>1 DEF Scoped
  <1> QED BY <1>5, <1>7, <1>8 DEF ScopeInv, AdoptionReady

LEMMA ScopeRelease ==
    ASSUME TypeOK, ScopeInv, NEW k \in Tokens, NEW s \in Terminal, Release(k, s)
    PROVE  ScopeInv'
  <1>1. active[k] \in Claims
    BY DEF Release, TypeOK
  <1>2. PICK c : c = [active[k] EXCEPT !.status = s]
    OBVIOUS
  <1>3. c \in Claims /\ c.locks = active[k].locks
    BY <1>1, <1>2 DEF Claims
  <1>4. c # None
    BY <1>3, ClaimsAssumption
  <1>5. /\ archive' = [archive EXCEPT ![k] = c] /\ active' = active /\ decided' = decided
        /\ active[k] # None /\ op'.step = "unlink"
    BY <1>2 DEF Release, Then
  <1>6. archive'[k] = c /\ \A m \in Tokens : m # k => archive'[m] = archive[m]
    BY <1>5 DEF TypeOK
  <1>7. CopiesAgree'
    BY <1>3, <1>5, <1>6 DEF ScopeInv, CopiesAgree
  <1>8. RowsScoped'
    <2> SUFFICES ASSUME NEW m \in Rows, decided'[m] = "adopted_structured"
                 PROVE  Scoped(m, active'[m]) \/ Scoped(m, archive'[m])
      BY DEF RowsScoped, Scoped
    <2>1. m \in Tokens /\ (Scoped(m, active[m]) \/ Scoped(m, archive[m]))
      BY <1>5, ClaimsAssumption DEF ScopeInv, RowsScoped
    <2>2. CASE m = k
      <3>1. Scoped(m, archive[m]) => Scoped(m, active[m])
        BY <1>5, <2>1, <2>2 DEF Scoped, ScopeInv, CopiesAgree
      <3> QED BY <1>5, <2>1, <3>1
    <2>3. CASE m # k
      BY <1>5, <1>6, <2>1, <2>3
    <2> QED BY <2>2, <2>3
  <1>9. AdoptionReady'
    BY <1>5 DEF AdoptionReady, MiniSteps
  <1> QED BY <1>7, <1>8, <1>9 DEF ScopeInv

LEMMA ScopeRemove ==
    ASSUME IInv, ScopeInv, Unlink \/ MiniUndoClaim
    PROVE  ScopeInv'
  <1> TypeOK BY DEF IInv
  <1>1. op \in Ops /\ op # None
    BY DEF TypeOK, Unlink, MiniUndoClaim, Doing
  <1>2. PICK k : k = op.token
    OBVIOUS
  <1>3. k \in Tokens
    BY <1>1, <1>2 DEF Ops
  <1>4. /\ \A m \in Tokens : m # k => active'[m] = active[m]
        /\ active'[k] \in {active[k], None}
        /\ archive' = archive /\ decided' = decided
    BY <1>2, <1>3 DEF Unlink, MiniUndoClaim, TypeOK
  <1>5. CopiesAgree'
    BY <1>4 DEF ScopeInv, CopiesAgree
  <1>6. RowsScoped'
    <2> SUFFICES ASSUME NEW m \in Rows, decided'[m] = "adopted_structured"
                 PROVE  Scoped(m, active'[m]) \/ Scoped(m, archive'[m])
      BY DEF RowsScoped, Scoped
    <2>1. m \in Tokens /\ (Scoped(m, active[m]) \/ Scoped(m, archive[m])) /\ decided[m] = "adopted_structured"
      BY <1>4, ClaimsAssumption DEF ScopeInv, RowsScoped
    <2>2. CASE m # k
      BY <1>4, <2>1, <2>2
    <2>3. CASE m = k /\ Unlink
      <3>1. archive[k] # None /\ archive[k].locks = active[k].locks
        BY <1>1, <1>2, <2>3 DEF Unlink, Doing, IInv, OpSound
      <3> QED BY <1>4, <2>1, <2>3, <3>1 DEF Scoped
    <2>4. CASE m = k /\ MiniUndoClaim
      BY <1>1, <1>2, <2>1, <2>4 DEF MiniUndoClaim, Doing, ScopeInv, AdoptionReady, MiniSteps
    <2> QED BY <2>2, <2>3, <2>4
  <1>7. AdoptionReady'
    <2>1. op' = None \/ op'.step = "undo-task"
      BY DEF Unlink, MiniUndoClaim, Then
    <2> QED BY <2>1 DEF AdoptionReady, MiniSteps
  <1> QED BY <1>5, <1>6, <1>7 DEF ScopeInv

LEMMA ScopeDecide ==
    ASSUME TypeOK, ScopeInv, Decide \/ \E k \in Tokens, d \in {"still-active", "final"} : Audit(k, d)
    PROVE  ScopeInv'
  <1>1. active' = active /\ archive' = archive /\ (op' = None \/ op'.step = "unpend")
    BY DEF Decide, Audit, Then
  <1>2. ASSUME NEW m \in Rows, decided'[m] = "adopted_structured"
        PROVE  Scoped(m, active[m]) \/ Scoped(m, archive[m])
    <2>1. CASE decided[m] = "adopted_structured"
      BY <2>1 DEF ScopeInv, RowsScoped
    <2>2. CASE decided[m] # "adopted_structured"
      <3>1. m \in Tokens
        BY ClaimsAssumption
      <3>2. Decide
        BY <1>2, <2>2, <3>1 DEF Audit, TypeOK
      <3>3. op # None /\ op.step = "decide" /\ m = op.token
        BY <1>2, <2>2, <3>1, <3>2 DEF Decide, Doing, TypeOK
      <3> QED BY <3>3 DEF ScopeInv, AdoptionReady
    <2> QED BY <2>1, <2>2
  <1>3. CopiesAgree'
    BY <1>1 DEF ScopeInv, CopiesAgree
  <1>4. RowsScoped'
    BY <1>1, <1>2 DEF RowsScoped, Scoped
  <1>5. AdoptionReady'
    BY <1>1 DEF AdoptionReady, MiniSteps
  <1> QED BY <1>3, <1>4, <1>5 DEF ScopeInv

LEMMA ScopeFrame ==
    ASSUME ScopeInv, UNCHANGED <<active, archive, decided>>,
           \/ op' = None \/ op' = op
           \/ op # None /\ op'.token = op.token /\ op'.step = "decide" /\ op.step = "refer" /\ op.adopts
           \/ /\ op # None /\ op'.token = op.token /\ op.step \in MiniSteps
              /\ op'.step \in MiniSteps
    PROVE  ScopeInv'
  <1>1. CopiesAgree' /\ RowsScoped'
    BY DEF ScopeInv, CopiesAgree, RowsScoped, Scoped
  <1>2. AdoptionReady'
    BY DEF ScopeInv, AdoptionReady, Scoped, MiniSteps
  <1> QED BY <1>1, <1>2 DEF ScopeInv

LEMMA ScopeStep == IInv /\ ScopeInv /\ [Next]_vars => ScopeInv'
  <1> SUFFICES ASSUME IInv, ScopeInv, [Next]_vars PROVE ScopeInv'
    OBVIOUS
  <1> TypeOK BY DEF IInv
  <1>1. ASSUME NEW t \in Tasks, NEW k \in Tokens, NEW L \in LockSets,
               Claim(t, k, L) \/ Adopt(t, k, L) \/ StartMini(t, k, L)
        PROVE  ScopeInv'
    BY <1>1, ScopeGrant
  <1>2. ASSUME NEW k \in Tokens, NEW s \in Reserving, SetClaimStatus(k, s) PROVE ScopeInv'
    BY <1>2, ScopeSetStatus
  <1>3. ASSUME NEW k \in Tokens, NEW s \in Terminal, Release(k, s) PROVE ScopeInv'
    BY <1>3, ScopeRelease
  <1>4. CASE Unlink \/ MiniUndoClaim
    BY <1>4, ScopeRemove
  <1>5. CASE Decide \/ \E k \in Tokens, d \in {"still-active", "final"} : Audit(k, d)
    BY <1>5, ScopeDecide
  <1>6. ASSUME UNCHANGED <<active, archive, decided>>, op' = None \/ op' = op PROVE ScopeInv'
    BY <1>6, ScopeFrame
  <1>7. CASE Refer
    BY <1>7, ScopeFrame DEF Refer, Doing, Then
  <1>8. CASE MiniTask \/ MiniFail
    BY <1>8, ScopeFrame DEF MiniTask, MiniFail, Doing, Then, MiniSteps
  <1> QED
    BY <1>1, <1>2, <1>3, <1>4, <1>5, <1>6, <1>7, <1>8
    DEF Next, Start, Proceed, vars, InitTask, CloseTask, CancelTask, ImportLegacy,
        StartWork, EndWork, Unpend, MiniRest, MiniUndoTask, Crash

(* A legacy row decided as adopted has left all of its scope to a record,   *)
(* active or archived, through kills between the claim, the reference, the  *)
(* decision and the removal of the pending file.                            *)
THEOREM AdoptedRowsScoped == Spec => []AdoptionKeepsScope
  <1>1. Init => ScopeInv
    BY ClaimsAssumption DEF Init, ScopeInv, CopiesAgree, RowsScoped, AdoptionReady, Scoped
  <1>2. ScopeInv => AdoptionKeepsScope
    BY DEF ScopeInv, RowsScoped, Scoped, AdoptionKeepsScope
  <1> QED BY <1>1, <1>2, ScopeStep, ClaimsInvariance, PTL DEF Spec

-----------------------------------------------------------------------------
(* The claim files implement LockTable *)

(* An entry exists exactly for a reserving record, with its task and locks. *)
LEMMA EntryIsFile ==
    ASSUME NEW t \in Tasks, NEW L \in LockSets
    PROVE  [task |-> t, locks |-> L] # None
  BY WorkIsFile, Zenon

LEMMA Entry ==
    ASSUME TypeOK, NEW k \in Tokens
    PROVE  /\ EntryOf(k) # None <=> Reserved(k)
           /\ Reserved(k) => /\ EntryOf(k).task = active[k].task
                             /\ EntryOf(k).locks = active[k].locks
                             /\ EntryOf(k) \in Table!Entries
  <1>1. CASE Reserved(k)
    <2>1. active[k].task \in Tasks /\ active[k].locks \in LockSets
      BY <1>1 DEF Reserved, TypeOK, Claims
    <2>2. [task |-> active[k].task, locks |-> active[k].locks] # None
      BY <2>1, WorkIsFile, Zenon
    <2>3. EntryOf(k) = [task |-> active[k].task, locks |-> active[k].locks]
      BY <1>1 DEF EntryOf
    <2>4. active[k].locks \in SUBSET UNION LockSets
      BY <2>1
    <2>5. EntryOf(k) \in Table!Entries
      BY <2>1, <2>3, <2>4 DEF Table!Entries
    <2>6. EntryOf(k) # None BY <2>2, <2>3
    <2>7. EntryOf(k).task = active[k].task /\ EntryOf(k).locks = active[k].locks
      BY <2>3
    <2> QED BY <1>1, <2>5, <2>6, <2>7
  <1>2. CASE ~Reserved(k)
    BY <1>2 DEF EntryOf
  <1> QED BY <1>1, <1>2

(* The locks a task holds in the table are those its records reserve.       *)
LEMMA Held ==
    ASSUME TypeOK, NEW t \in Tasks
    PROVE  Table!HeldBy(t) = OwnedLocks(t)
  <1> DEFINE tbl == [k \in Tokens |-> EntryOf(k)]
  <1>1. \A k \in Tokens :
            /\ tbl[k] # None <=> Reserved(k)
            /\ Reserved(k) => tbl[k].task = active[k].task /\ tbl[k].locks = active[k].locks
    BY Entry
  <1>2. Table!HeldBy(t) = UNION {tbl[k].locks :
                              k \in {x \in Tokens : tbl[x] # None /\ tbl[x].task = t}}
    BY DEF Table!HeldBy
  <1> HIDE DEF tbl
  <1>3. {x \in Tokens : tbl[x] # None /\ tbl[x].task = t}
          = {x \in Tokens : Reserved(x) /\ active[x].task = t}
    BY <1>1
  <1>4. {tbl[k].locks : k \in {x \in Tokens : Reserved(x) /\ active[x].task = t}}
          = {active[k].locks : k \in {x \in Tokens : Reserved(x) /\ active[x].task = t}}
    BY <1>1
  <1> QED BY <1>2, <1>3, <1>4 DEF OwnedLocks

LEMMA HeldNow == TypeOK => \A t \in Tasks : Table!HeldBy(t) = OwnedLocks(t)
  BY Held

LEMMA HeldNext == TypeOK' => \A t \in Tasks : (Table!HeldBy(t) = OwnedLocks(t))'
  <1>1. (TypeOK => \A t \in Tasks : Table!HeldBy(t) = OwnedLocks(t))'
    BY HeldNow, PTL
  <1> QED BY <1>1

LEMMA EntryNow ==
    TypeOK => \A k \in Tokens :
        /\ EntryOf(k) # None <=> Reserved(k)
        /\ Reserved(k) => /\ EntryOf(k).task = active[k].task
                          /\ EntryOf(k).locks = active[k].locks
                          /\ EntryOf(k) \in Table!Entries
  BY Entry

LEMMA EntryNext ==
    TypeOK' => \A k \in Tokens :
        /\ (EntryOf(k))' # None <=> Reserved(k)'
        /\ Reserved(k)' => /\ (EntryOf(k))'.task = active'[k].task
                           /\ (EntryOf(k))'.locks = active'[k].locks
                           /\ (EntryOf(k))' \in Table!Entries
  <1>1. (TypeOK => \A k \in Tokens :
           /\ EntryOf(k) # None <=> Reserved(k)
           /\ Reserved(k) => /\ EntryOf(k).task = active[k].task
                             /\ EntryOf(k).locks = active[k].locks
                             /\ EntryOf(k) \in Table!Entries)'
    BY EntryNow, PTL
  <1> QED BY <1>1 DEF Table!Entries

(* A step that leaves the reservations alone leaves the table alone.        *)
LEMMA TableFrame ==
    ASSUME NEW k \in Tokens, TypeOK, TypeOK', active'[k] = active[k]
    PROVE  (EntryOf(k))' = EntryOf(k)
  BY DEF EntryOf, Reserved

(* LockTable compares locks by the same PathLocks.                          *)
LEMMA SameComparison ==
    /\ \A l, S : Table!CoveredBy(l, S) <=> CoveredBy(l, S)
    /\ \A S, R : Table!Disjoint(S, R) <=> Disjoint(S, R)
  <1>1. \A a, b : Table!Covers(a, b) <=> Covers(a, b)
    BY DEF Table!Covers, Covers, Table!Below, Below, Table!Whole, Whole
  <1>2. \A a, b : Table!Overlap(a, b) <=> Overlap(a, b)
    BY DEF Table!Overlap, Overlap, Table!Below, Below, Table!Whole, Whole
  <1>3. \A l, S : Table!CoveredBy(l, S) <=> CoveredBy(l, S)
    BY <1>1 DEF Table!CoveredBy, CoveredBy
  <1>4. \A S, R : Table!Disjoint(S, R) <=> Disjoint(S, R)
    BY <1>2 DEF Table!Disjoint, Disjoint
  <1> QED BY <1>3, <1>4

LEMMA GrantRefines ==
    ASSUME IInv, IInv', NEW t \in Tasks, NEW k \in Tokens, NEW L \in LockSets,
           Grants(t, k, L)
    PROVE  Table!Next
  <1> DEFINE tbl == [x \in Tokens |-> EntryOf(x)]
  <1> TypeOK /\ TypeOK' /\ ClaimExclusion' /\ ActiveReserves' BY DEF IInv
  <1>1. /\ active[k] = None /\ UNCHANGED work
        /\ active' = [active EXCEPT ![k] = [task |-> t, locks |-> L, status |-> "active"]]
    BY DEF Grants, Claim, Adopt, StartMini, TokenFree
  <1>2. active'[k] # None /\ \A x \in Tokens \ {k} : active'[x] = active[x]
    <2>1. [task |-> t, locks |-> L, status |-> "active"] # None
      BY ClaimIsFile, Zenon
    <2> QED BY <1>1, <2>1 DEF TypeOK
  <1>3. Reserved(k)' /\ ~Reserved(k)
    BY <1>1, <1>2 DEF ActiveReserves, Reserved
  <1>4. tbl[k] = None /\ tbl'[k] \in Table!Entries
    BY <1>3, EntryNow, EntryNext
  <1>5. \A x \in Tokens \ {k} : tbl'[x] = tbl[x]
    BY <1>2, TableFrame
  <1>6. \A x \in Tokens \ {k} : tbl[x] # None => Disjoint(tbl'[k].locks, tbl[x].locks)
    <2> SUFFICES ASSUME NEW x \in Tokens \ {k}, tbl[x] # None
                 PROVE  Disjoint(tbl'[k].locks, tbl[x].locks)
      OBVIOUS
    <2>1. tbl'[x] # None BY <1>5
    <2>2. Reserved(x)' BY <2>1, EntryNext
    <2>3. Disjoint(active'[k].locks, active'[x].locks)
      BY <1>3, <2>2 DEF ClaimExclusion
    <2>4. tbl'[x].locks = active'[x].locks /\ tbl'[k].locks = active'[k].locks
      BY <1>3, <2>2, EntryNext
    <2> QED BY <1>5, <2>3, <2>4
  <1>7. Table!Grant(k)
    BY <1>1, <1>4, <1>5, <1>6, SameComparison DEF Table!Grant
  <1> QED BY <1>7 DEF Table!Next

(* What is left covers the work, because WorkCovered holds after the step.  *)
LEMMA RevokeRefines ==
    ASSUME IInv, IInv', NEW k \in Tokens, UNCHANGED work,
           active' = [active EXCEPT ![k] = None], active[k] # None
    PROVE  Table!Next
  <1> DEFINE tbl == [x \in Tokens |-> EntryOf(x)]
  <1> TypeOK /\ TypeOK' /\ WorkCovered' /\ ActiveReserves BY DEF IInv
  <1>1. active'[k] = None /\ \A x \in Tokens \ {k} : active'[x] = active[x]
    BY DEF TypeOK
  <1>2. Reserved(k) /\ ~Reserved(k)'
    BY <1>1 DEF ActiveReserves, Reserved
  <1>3. tbl[k] # None /\ tbl'[k] = None
    BY <1>2, EntryNow, EntryNext
  <1>4. \A x \in Tokens \ {k} : tbl'[x] = tbl[x]
    BY <1>1, TableFrame
  <1>5. tbl' = [tbl EXCEPT ![k] = None]
    BY <1>3, <1>4
  <1>6. \A w \in Works : work[w] # None =>
           \A l \in work[w].locks : CoveredBy(l, (Table!HeldBy(work[w].task))')
    <2> SUFFICES ASSUME NEW w \in Works, work[w] # None, NEW l \in work[w].locks
                 PROVE  CoveredBy(l, (Table!HeldBy(work[w].task))')
      OBVIOUS
    <2>1. work[w].task \in Tasks BY DEF TypeOK, WorkRecords
    <2>2. CoveredBy(l, (OwnedLocks(work[w].task))') BY DEF WorkCovered, CoveredBy
    <2>3. (Table!HeldBy(work[w].task))' = (OwnedLocks(work[w].task))'
      BY <2>1, HeldNext
    <2> QED BY <2>2, <2>3
  <1>7. Table!Revoke(k)
    BY <1>3, <1>5, <1>6, SameComparison DEF Table!Revoke
  <1> QED BY <1>7 DEF Table!Next

(* A step that leaves records and work alone is a stutter of the table.     *)
LEMMA QuietRefines ==
    ASSUME TypeOK, TypeOK', UNCHANGED <<active, work>>
    PROVE  UNCHANGED <<[k \in Tokens |-> EntryOf(k)], work>>
  <1>1. \A k \in Tokens : (EntryOf(k))' = EntryOf(k)
    BY TableFrame
  <1> QED BY <1>1

LEMMA SetStatusRefines ==
    ASSUME TypeOK, TypeOK', NEW m \in Tokens, NEW s \in Reserving, SetClaimStatus(m, s),
           ActiveReserves
    PROVE  UNCHANGED <<[k \in Tokens |-> EntryOf(k)], work>>
  <1> DEFINE r == [active[m] EXCEPT !.status = s]
  <1>1. active[m] \in Claims /\ active' = [active EXCEPT ![m] = r] /\ UNCHANGED work
    BY DEF SetClaimStatus, TypeOK
  <1>2. r \in Claims /\ r.task = active[m].task /\ r.locks = active[m].locks
        /\ r.status \in Reserving
    BY <1>1 DEF Claims
  <1>3. r # None BY <1>2, ClaimsAssumption
  <1> HIDE DEF r
  <1>4. active'[m] = r /\ \A x \in Tokens \ {m} : active'[x] = active[x]
    BY <1>1 DEF TypeOK
  <1>5. Reserved(m)' /\ Reserved(m)
    BY <1>1, <1>2, <1>3, <1>4, ClaimsAssumption DEF Reserved, ActiveReserves
  <1>6. (EntryOf(m))' = EntryOf(m)
    BY <1>2, <1>4, <1>5 DEF EntryOf
  <1>7. \A x \in Tokens \ {m} : (EntryOf(x))' = EntryOf(x)
    BY <1>4, TableFrame
  <1> QED BY <1>1, <1>6, <1>7

LEMMA WorkRefines ==
    ASSUME IInv, IInv', NEW w \in Works, UNCHANGED active,
           \/ EndWork(w)
           \/ \E t \in Tasks, L \in LockSets : StartWork(t, w, L)
    PROVE  Table!Next
  <1> TypeOK /\ TypeOK' BY DEF IInv
  <1>1. [k \in Tokens |-> EntryOf(k)]' = [k \in Tokens |-> EntryOf(k)]
    BY TableFrame
  <1>2. CASE EndWork(w)
    <2>1. Table!Stop(w)
      BY <1>1, <1>2 DEF EndWork, Table!Stop
    <2> QED BY <2>1 DEF Table!Next
  <1>3. ASSUME NEW t \in Tasks, NEW L \in LockSets, StartWork(t, w, L)
        PROVE  Table!Next
    <2>1. /\ work[w] = None
          /\ work' = [work EXCEPT ![w] = [task |-> t, locks |-> L]]
          /\ \A l \in L : CoveredBy(l, OwnedLocks(t))
      BY <1>3 DEF StartWork
    <2>2. L \in SUBSET UNION LockSets OBVIOUS
    <2>3. [task |-> t, locks |-> L] \in Table!Entries
      BY <2>2 DEF Table!Entries
    <2>4. Table!HeldBy(t) = OwnedLocks(t) BY Held
    <2>5. work'[w] = [task |-> t, locks |-> L]
          /\ \A x \in Works \ {w} : work'[x] = work[x]
      BY <2>1 DEF TypeOK
    <2>6. \A l \in work'[w].locks : CoveredBy(l, Table!HeldBy(work'[w].task))
      BY <2>1, <2>4, <2>5
    <2>7. Table!Start(w)
      BY <1>1, <2>1, <2>3, <2>5, <2>6, SameComparison DEF Table!Start
    <2> QED BY <2>7 DEF Table!Next
  <1> QED BY <1>2, <1>3

LEMMA RefineStep ==
    ASSUME IInv, IInv', [Next]_vars
    PROVE  [Table!Next]_<<[k \in Tokens |-> EntryOf(k)], work>>
  <1> TypeOK /\ TypeOK' /\ ActiveReserves BY DEF IInv
  <1>1. ASSUME NEW t \in Tasks, NEW k \in Tokens, NEW L \in LockSets, Grants(t, k, L)
        PROVE  Table!Next
    BY <1>1, GrantRefines
  <1>2. ASSUME NEW k \in Tokens, NEW s \in Reserving, SetClaimStatus(k, s)
        PROVE  UNCHANGED <<[x \in Tokens |-> EntryOf(x)], work>>
    BY <1>2, SetStatusRefines
  <1>3. ASSUME NEW w \in Works,
               EndWork(w) \/ \E t \in Tasks, L \in LockSets : StartWork(t, w, L)
        PROVE  Table!Next
    BY <1>3, WorkRefines DEF EndWork, StartWork
  <1>4. CASE Unlink
    <2>1. /\ op.token \in Tokens /\ active[op.token] # None /\ UNCHANGED work
          /\ active' = [active EXCEPT ![op.token] = None]
      BY <1>4 DEF Unlink, Doing, IInv, OpSound, TypeOK, Ops
    <2> QED BY <2>1, RevokeRefines
  <1>5. CASE MiniUndoClaim
    <2>1. /\ op.token \in Tokens /\ active[op.token] # None /\ UNCHANGED work
          /\ active' \in {active, [active EXCEPT ![op.token] = None]}
      BY <1>5 DEF MiniUndoClaim, Doing, IInv, OpSound, TypeOK, Ops, MiniSteps
    <2> QED BY <2>1, RevokeRefines, QuietRefines
  <1>6. CASE UNCHANGED <<active, work>>
    BY <1>6, QuietRefines
  <1> QED
    BY <1>1, <1>2, <1>3, <1>4, <1>5, <1>6
    DEF Next, Start, Proceed, Grants, vars, InitTask, CloseTask, CancelTask,
        ImportLegacy, Release, Audit, Refer, Decide, Unpend,
        MiniTask, MiniRest, MiniFail, MiniUndoTask, Crash

(* claims/active, read as a table of owned locks, implements LockTable: no  *)
(* kill, rollback or repeated write of the commands shows through.          *)
THEOREM ClaimsImplementTable == Spec => ImplementsTable
  <1>1. Init => Table!Init
    BY DEF Init, Table!Init, EntryOf, Reserved
  <1>2. IInv /\ IInv' /\ [Next]_vars
          => [Table!Next]_<<[k \in Tokens |-> EntryOf(k)], work>>
    BY RefineStep
  <1> QED BY <1>1, <1>2, ClaimsInvariance, PTL DEF Spec, ImplementsTable, Table!Spec
=============================================================================
