------------------------ MODULE ChiefAuthorityProofs ------------------------
(***************************************************************************)
(* The safety of the Chief lease for every set of processes and sessions:   *)
(* types, fencing of the handlers, one grant per epoch, the credential of   *)
(* the live lease on disk, and the refinement of FencedLease.  Its second   *)
(* part shows that the records the transitions build are the records the    *)
(* validator accepts, for every length of the audit tail.                   *)
(***************************************************************************)
EXTENDS ChiefAuthority, FiniteSetTheorems, SequenceTheorems, TLAPS

Grants == {"acquire", "takeover"}

(* Only the owner of the project lock is inside the critical section.       *)
LockOwned == \A p \in Procs : pc[p] \in Inside => lock = p

(* Every request in progress names a session.                               *)
RequestNamed == \A p \in Procs : pc[p] # "idle" => req[p].session \in Sessions

(* A record about to be staged or published opens the next epoch, prolongs  *)
(* the published lease, or ends it.                                         *)
OpensEpoch(p) ==
    /\ req[p].cmd \in Grants
    /\ work[p].status = "active"
    /\ work[p].epoch = authority.epoch + 1
    /\ work[p].session \in Sessions

Prolongs(p) ==
    /\ req[p].cmd = "renew"
    /\ work[p].status = "active"
    /\ authority.status = "active"
    /\ LeaseOf(work[p]) = LeaseOf(authority)

Ends(p) ==
    /\ req[p].cmd = "release"
    /\ work[p].status = "inactive"
    /\ authority.status = "active"
    /\ work[p].epoch = authority.epoch

WorkReady ==
    \A p \in Procs :
        /\ pc[p] = "stage" => OpensEpoch(p)
        /\ pc[p] = "publish" =>
              \/ OpensEpoch(p) /\ LeaseOf(work[p]) \in creds
              \/ Prolongs(p)
              \/ Ends(p)
        /\ pc[p] = "cleanup" => authority.status = "inactive"

(* The published record carries the highest epoch ever granted or used.     *)
EpochHighest ==
    /\ \A g \in granted : g.epoch <= authority.epoch
    /\ \A i \in 1..Len(writes) : writes[i].epoch <= authority.epoch
    /\ authority.status = "active" =>
          authority.session \in Sessions /\ LeaseOf(authority) \in granted

IInv ==
    /\ TypeOK
    /\ LockOwned
    /\ RequestNamed
    /\ WorkReady
    /\ EpochHighest
    /\ HandlerFenced
    /\ OneGrantPerEpoch
    /\ LeaseNotStranded
    /\ WritesOrdered

-----------------------------------------------------------------------------
(* The records the transitions build *)

(* The audit tail grows by one event and may drop its oldest one.           *)
LEMMA WithEventType ==
    ASSUME NEW r \in Records, NEW a \in Actions, NEW at \in Times,
           NEW e \in Epochs, NEW s \in Sessions,
           NEW ps \in Sessions \cup {NoSession}, NEW f \in BOOLEAN
    PROVE  /\ WithEvent(r, a, at, e, s, ps, f) \in Records
           /\ WithEvent(r, a, at, e, s, ps, f).epoch = e
           /\ WithEvent(r, a, at, e, s, ps, f).token = r.token
           /\ WithEvent(r, a, at, e, s, ps, f).session = r.session
           /\ WithEvent(r, a, at, e, s, ps, f).status = r.status
<1> DEFINE ev == [seq |-> r.seq + 1, action |-> a, at |-> at, old |-> r.epoch,
                  new |-> e, session |-> s, previous |-> ps, forced |-> f]
           full == Append(r.tail, ev)
           over == Len(full) > AuditTailMax
           tl == IF over THEN Tail(full) ELSE full
           om == IF over THEN r.omitted + 1 ELSE r.omitted
<1>1. ev \in Events
  BY DEF Events, Records, Epochs
<1>2. r.tail \in Seq(Events)
  BY DEF Records
<1>3. full \in Seq(Events) /\ full # <<>>
  BY <1>1, <1>2
<1>4. tl \in Seq(Events)
  BY <1>3
<1>5. om \in Nat /\ r.seq + 1 \in Nat
  BY DEF Records
<1>6. WithEvent(r, a, at, e, s, ps, f)
        = [r EXCEPT !.epoch = e, !.seq = r.seq + 1, !.updated = at,
                    !.omitted = om, !.tail = tl]
  BY DEF WithEvent, Records
<1> HIDE DEF ev, full, over, tl, om
<1> QED
  BY ZenonT(40), <1>4, <1>5, <1>6 DEF Records, Times, Epochs

(* Writing typed fields into a record keeps it a record.                    *)
With(w, st, s, t, i, n, x, k) ==
    [w EXCEPT !.status = st, !.session = s, !.token = t, !.issued = i,
              !.renewed = n, !.expires = x, !.renewals = k]

LEMMA WithType ==
    ASSUME NEW w \in Records, NEW st \in {"uninitialized", "active", "inactive"},
           NEW s \in Sessions \cup {NoSession}, NEW t \in Tokens,
           NEW i \in Times, NEW n \in Times, NEW x \in Times, NEW k \in Nat
    PROVE  /\ With(w, st, s, t, i, n, x, k) \in Records
           /\ With(w, st, s, t, i, n, x, k).status = st
           /\ With(w, st, s, t, i, n, x, k).epoch = w.epoch
           /\ With(w, st, s, t, i, n, x, k).session = s
           /\ With(w, st, s, t, i, n, x, k).token = t
BY DEF Records, With

LEMMA GrantedType ==
    ASSUME NEW r \in Records, NEW a \in Actions, NEW at \in Times,
           NEW s \in Sessions, NEW ps \in Sessions \cup {NoSession},
           NEW f \in BOOLEAN, NEW t \in Tokens, NEW ttl \in Nat
    PROVE  /\ Granted(r, a, at, s, ps, f, t, ttl) \in Records
           /\ Granted(r, a, at, s, ps, f, t, ttl).status = "active"
           /\ Granted(r, a, at, s, ps, f, t, ttl).epoch = r.epoch + 1
           /\ Granted(r, a, at, s, ps, f, t, ttl).session = s
           /\ Granted(r, a, at, s, ps, f, t, ttl).token = t
<1> DEFINE e == r.epoch + 1
           x == at + ttl
           active == "active"
           zero == 0
           w == WithEvent(r, a, at, e, s, ps, f)
<1>1. e \in Epochs
  BY DEF Records, Epochs
<1>2. x \in Times /\ zero \in Nat
  BY DEF Times
<1>3. active \in {"uninitialized", "active", "inactive"}
  OBVIOUS
<1>4. s \in Sessions \cup {NoSession}
  OBVIOUS
<1>5. Granted(r, a, at, s, ps, f, t, ttl) = With(w, active, s, t, at, at, x, zero)
  BY DEF Granted, With
<1> HIDE DEF e, x, active, zero
<1>6. w \in Records /\ w.epoch = e
  BY <1>1, WithEventType
<1> HIDE DEF w
<1>7. /\ With(w, active, s, t, at, at, x, zero) \in Records
      /\ With(w, active, s, t, at, at, x, zero).status = active
      /\ With(w, active, s, t, at, at, x, zero).epoch = w.epoch
      /\ With(w, active, s, t, at, at, x, zero).session = s
      /\ With(w, active, s, t, at, at, x, zero).token = t
  BY <1>2, <1>3, <1>4, <1>6, WithType
<1> QED
  BY <1>5, <1>6, <1>7 DEF e, active

LEMMA RenewedType ==
    ASSUME NEW r \in Records, NEW at \in Times, NEW ttl \in Nat,
           r.session \in Sessions
    PROVE  /\ Renewed(r, at, ttl) \in Records
           /\ Renewed(r, at, ttl).status = r.status
           /\ LeaseOf(Renewed(r, at, ttl)) = LeaseOf(r)
<1> DEFINE e == r.epoch
           s == r.session
           x == at + ttl
           no == FALSE
           a == "renew"
           w == WithEvent(r, a, at, e, s, s, no)
<1>1. e \in Epochs /\ s \in Sessions /\ x \in Times
  BY DEF Records, Epochs, Times
<1>2. a \in Actions /\ no \in BOOLEAN
  BY DEF Actions
<1>3. Renewed(r, at, ttl) = [w EXCEPT !.renewed = at, !.expires = x,
                                      !.renewals = @ + 1]
  BY DEF Renewed
<1> HIDE DEF e, s, x, no, a
<1>4. s \in Sessions \cup {NoSession}
  BY <1>1
<1>5. /\ w \in Records /\ w.epoch = e /\ w.token = r.token
      /\ w.session = r.session /\ w.status = r.status
  BY <1>1, <1>2, <1>4, WithEventType
<1> HIDE DEF w
<1>6. w.renewals + 1 \in Nat
  BY <1>5 DEF Records
<1>7. Renewed(r, at, ttl) \in Records
  BY <1>1, <1>3, <1>5, <1>6 DEF Records
<1> QED
  BY <1>3, <1>5, <1>7 DEF Records, LeaseOf, Lease, e

LEMMA ReleasedType ==
    ASSUME NEW r \in Records, NEW at \in Times, r.session \in Sessions
    PROVE  /\ Released(r, at) \in Records
           /\ Released(r, at).status = "inactive"
           /\ Released(r, at).epoch = r.epoch
<1> DEFINE e == r.epoch
           s == r.session
           no == FALSE
           a == "release"
           inactive == "inactive"
           none == NoSession
           zero == 0
           w == WithEvent(r, a, at, e, s, s, no)
<1>1. e \in Epochs /\ s \in Sessions /\ a \in Actions /\ no \in BOOLEAN
  BY DEF Records, Actions
<1>2. /\ zero \in Nat /\ zero \in Times /\ zero \in Tokens
      /\ inactive \in {"uninitialized", "active", "inactive"}
      /\ none \in Sessions \cup {NoSession}
  BY DEF Times, Tokens
<1>3. Released(r, at)
        = With(w, inactive, none, zero, zero, zero, zero, zero)
  BY DEF Released, With
<1> HIDE DEF e, s, no, a, inactive, none, zero
<1>4. s \in Sessions \cup {NoSession}
  BY <1>1
<1>5. w \in Records /\ w.epoch = e
  BY <1>1, <1>4, WithEventType
<1> HIDE DEF w
<1> DEFINE out == With(w, inactive, none, zero, zero, zero, zero, zero)
<1>6. out \in Records /\ out.status = inactive /\ out.epoch = w.epoch
  <2>1. out \in Records
    BY <1>2, <1>5, WithType
  <2>2. out.status = inactive /\ out.epoch = w.epoch
    BY <1>2, <1>5 DEF Records, With
  <2> QED
    BY <2>1, <2>2
<1> HIDE DEF out
<1>7. Released(r, at) = out
  BY <1>3 DEF out
<1> QED
  BY <1>5, <1>6, <1>7 DEF e, inactive

LEMMA NotBeforeType ==
    ASSUME NEW now \in Times, NEW ref \in Times
    PROVE  NotBefore(now, ref) \in Times
BY DEF NotBefore, Times

-----------------------------------------------------------------------------
(* Initial states *)

LEMMA InitInv == ASSUME Init PROVE IInv
<1> USE DEF Init, NoRecord, NoRequest
<1>1. NoRecord \in Records
  BY DEF Records, Epochs, Tokens, Times, Events
<1>2. NoRequest \in RequestTypes
  BY DEF RequestTypes, Epochs, Tokens
<1>3. TypeOK
  BY <1>1, <1>2 DEF TypeOK, PCs, Times
<1>4. LockOwned /\ RequestNamed /\ WorkReady /\ HandlerFenced
  BY DEF LockOwned, RequestNamed, WorkReady, HandlerFenced, Inside
<1>5. EpochHighest /\ OneGrantPerEpoch /\ LeaseNotStranded /\ WritesOrdered
  BY DEF EpochHighest, OneGrantPerEpoch, LeaseNotStranded, WritesOrdered
<1> QED
  BY <1>3, <1>4, <1>5 DEF IInv

-----------------------------------------------------------------------------
(* Types: the requests name credentials and epochs that exist, the records  *)
(* come from the builders above.                                            *)

LEMMA RequestsTyped ==
    ASSUME TypeOK, NEW r \in Requests
    PROVE  r \in RequestTypes /\ r.session \in Sessions
<1> DEFINE cmds == {"none", "acquire", "takeover", "renew", "release", "mutate"}
<1>1. /\ TTLs \subseteq Nat /\ authority.epoch \in Nat
      /\ 1..authority.epoch \subseteq Nat
  BY ChiefAssumption DEF TypeOK, Records, Epochs, ChiefAssumption
<1>2. /\ {0} \subseteq Nat /\ {FALSE} \subseteq BOOLEAN
      /\ Sessions \subseteq Sessions \cup {NoSession}
      /\ {"acquire"} \subseteq cmds /\ {"takeover"} \subseteq cmds
      /\ {"renew"} \subseteq cmds /\ {"release", "mutate"} \subseteq cmds
  OBVIOUS
<1>3. RequestTypes = [cmd : cmds, session : Sessions \cup {NoSession},
                      epoch : Nat, token : Nat, byFile : BOOLEAN, ttl : Nat,
                      force : BOOLEAN]
  BY DEF RequestTypes, Epochs, Tokens
<1> HIDE DEF cmds
<1>4. ASSUME NEW k \in creds, r \in CredentialRequests(k)
      PROVE  r \in RequestTypes /\ r.session \in Sessions
  <2>1. k.session \in Sessions /\ k.epoch \in Nat /\ k.token \in Nat
    BY DEF TypeOK, Leases, Epochs, Tokens
  <2>2. /\ {k.session} \subseteq Sessions \cup {NoSession}
        /\ {k.epoch} \subseteq Nat /\ {k.token} \subseteq Nat
    BY <2>1
  <2>3. r \in RequestTypes
    BY <1>1, <1>2, <1>3, <1>4, <2>2, Zenon DEF CredentialRequests
  <2>4. r.session = k.session
    BY <1>4 DEF CredentialRequests
  <2> QED
    BY <2>1, <2>3, <2>4
<1>5. CASE \E k \in creds : r \in CredentialRequests(k)
  BY <1>4, <1>5
<1>6. CASE \A k \in creds : r \notin CredentialRequests(k)
  <2> DEFINE acquires == [cmd : {"acquire"}, session : Sessions, epoch : {0},
                          token : {0}, byFile : {FALSE}, ttl : TTLs,
                          force : {FALSE}]
             takeovers == [cmd : {"takeover"}, session : Sessions,
                           epoch : 1..authority.epoch, token : {0},
                           byFile : {FALSE}, ttl : TTLs, force : BOOLEAN]
  <2>1. acquires \subseteq RequestTypes /\ takeovers \subseteq RequestTypes
    BY <1>1, <1>2, <1>3, Zenon
  <2>2. r.session \in Sessions /\ r \in acquires \cup takeovers
    BY <1>6 DEF Requests
  <2> QED
    BY <2>1, <2>2
<1> QED
  BY <1>5, <1>6

(* What the four lease transitions put in work.                             *)
LEMMA GrantAdmitted ==
    ASSUME TypeOK, RequestNamed, NEW p \in Procs,
           AdmitAcquire(p) \/ AdmitTakeover(p)
    PROVE  /\ work'[p] \in Records /\ work' = [work EXCEPT ![p] = work'[p]]
           /\ req[p].cmd \in Grants
           /\ work'[p].status = "active" /\ work'[p].session \in Sessions
           /\ work'[p].epoch = authority.epoch + 1
           /\ pc[p] = "locked" /\ pc' = [pc EXCEPT ![p] = "stage"]
           /\ nextToken' = nextToken + 1
           /\ UNCHANGED <<authority, creds, lock, clock, req, granted, writes>>
<1> DEFINE acq == AdmitAcquire(p)
           a == IF acq THEN "acquire" ELSE "takeover"
           ref == IF acq THEN authority.updated ELSE authority.renewed
           at == NotBefore(clock, ref)
           s == req[p].session
           ps == IF acq THEN NoSession ELSE authority.session
           forced == IF acq THEN FALSE ELSE LiveAt(clock)
           ttl == req[p].ttl
           w == Granted(authority, a, at, s, ps, forced, nextToken, ttl)
<1>1. /\ req[p].cmd \in Grants
      /\ pc[p] = "locked" /\ pc' = [pc EXCEPT ![p] = "stage"]
      /\ nextToken' = nextToken + 1
      /\ UNCHANGED <<authority, creds, lock, clock, req, granted, writes>>
  BY DEF AdmitAcquire, AdmitTakeover, Grants
<1>2. work' = [work EXCEPT ![p] = w]
  BY DEF AdmitAcquire, AdmitTakeover
<1>3. authority \in Records /\ a \in Actions /\ nextToken \in Tokens
  BY DEF TypeOK, Actions, Tokens
<1>4. at \in Times
  <2>1. ref \in Times /\ clock \in Times
    BY DEF TypeOK, Records
  <2> HIDE DEF ref
  <2> QED
    BY <2>1, NotBeforeType
<1>5. s \in Sessions /\ ttl \in Nat
  BY <1>1 DEF TypeOK, RequestNamed, RequestTypes
<1>6. ps \in Sessions \cup {NoSession}
  BY DEF TypeOK, Records
<1>7. forced \in BOOLEAN
  <2>1. LiveAt(clock) \in BOOLEAN
    BY DEF LiveAt
  <2>2. CASE acq
    BY <2>2
  <2>3. CASE ~acq
    BY <2>1, <2>3
  <2> QED
    BY <2>2, <2>3
<1> HIDE DEF a, at, s, ps, forced, ttl
<1>8. w \in Records
  BY <1>3, <1>4, <1>5, <1>6, <1>7, GrantedType, Zenon
<1>9. w.status = "active" /\ w.session = s
  <2>1. w.status = "active"
    BY <1>3, <1>4, <1>5, <1>6, <1>7, GrantedType
  <2>2. w.session = s
    BY <1>3, <1>4, <1>5, <1>6, <1>7, GrantedType
  <2> QED
    BY <2>1, <2>2
<1>10. w.epoch = authority.epoch + 1
  BY <1>3, <1>4, <1>5, <1>6, <1>7, GrantedType
<1> HIDE DEF w
<1>11. work'[p] = w
  BY <1>2 DEF TypeOK
<1> QED
  BY <1>1, <1>2, <1>5, <1>8, <1>9, <1>10, <1>11

LEMMA RenewAdmitted ==
    ASSUME TypeOK, EpochHighest, NEW p \in Procs,
           AdmitRenew(p) \/ AdmitRelease(p)
    PROVE  /\ work'[p] \in Records /\ work' = [work EXCEPT ![p] = work'[p]]
           /\ authority.status = "active"
           /\ \/ /\ req[p].cmd = "renew" /\ work'[p].status = "active"
                 /\ LeaseOf(work'[p]) = LeaseOf(authority)
              \/ /\ req[p].cmd = "release" /\ work'[p].status = "inactive"
                 /\ work'[p].epoch = authority.epoch
           /\ pc[p] = "locked" /\ pc' = [pc EXCEPT ![p] = "publish"]
           /\ UNCHANGED <<authority, creds, lock, clock, req, nextToken,
                          granted, writes>>
<1> DEFINE at == NotBefore(clock, authority.renewed)
           ttl == req[p].ttl
<1>1. /\ authority \in Records /\ authority.session \in Sessions
      /\ authority.status = "active" /\ ttl \in Nat
  BY DEF AdmitRenew, AdmitRelease, Authenticates, TypeOK, EpochHighest,
         RequestTypes
<1>2. at \in Times
  BY NotBeforeType DEF TypeOK, Records
<1>3. CASE AdmitRenew(p)
  <2>1. work' = [work EXCEPT ![p] = Renewed(authority, at, ttl)]
    BY <1>3 DEF AdmitRenew
  <2> HIDE DEF at, ttl
  <2>2. /\ Renewed(authority, at, ttl) \in Records
        /\ Renewed(authority, at, ttl).status = authority.status
        /\ LeaseOf(Renewed(authority, at, ttl)) = LeaseOf(authority)
    BY <1>1, <1>2, RenewedType
  <2> QED
    BY <1>1, <1>3, <2>1, <2>2 DEF AdmitRenew, TypeOK
<1>4. CASE ~AdmitRenew(p)
  <2>1. AdmitRelease(p) /\ work' = [work EXCEPT ![p] = Released(authority, at)]
    BY <1>4 DEF AdmitRelease
  <2> HIDE DEF at, ttl
  <2>2. /\ Released(authority, at) \in Records
        /\ Released(authority, at).status = "inactive"
        /\ Released(authority, at).epoch = authority.epoch
    BY <1>1, <1>2, ReleasedType
  <2> QED
    BY <1>1, <1>4, <2>1, <2>2 DEF AdmitRelease, TypeOK
<1> QED
  BY <1>3, <1>4

LEMMA TypeStep == ASSUME IInv, [Next]_vars PROVE TypeOK' /\ RequestNamed'
<1> TypeOK /\ RequestNamed /\ WorkReady /\ EpochHighest
  BY DEF IInv
<1>0. NoRecord \in Records /\ NoRequest \in RequestTypes
  BY DEF NoRecord, NoRequest, Records, RequestTypes, Epochs, Tokens, Times,
         Events
<1>1. ASSUME NEW p \in Procs, Invoke(p) PROVE TypeOK' /\ RequestNamed'
  <2>1. PICK r \in Requests : req' = [req EXCEPT ![p] = r]
    BY <1>1 DEF Invoke
  <2>2. r \in RequestTypes /\ r.session \in Sessions
    BY <2>1, RequestsTyped
  <2> QED
    BY <1>1, <2>1, <2>2 DEF Invoke, TypeOK, RequestNamed, PCs
<1>2. ASSUME NEW p \in Procs, AcquireLock(p) PROVE TypeOK' /\ RequestNamed'
  BY <1>2 DEF AcquireLock, TypeOK, RequestNamed, PCs
<1>3. ASSUME NEW p \in Procs, AdmitAcquire(p) \/ AdmitTakeover(p)
      PROVE  TypeOK' /\ RequestNamed'
  <2>1. /\ work'[p] \in Records /\ work' = [work EXCEPT ![p] = work'[p]]
        /\ pc[p] = "locked" /\ pc' = [pc EXCEPT ![p] = "stage"]
        /\ nextToken' = nextToken + 1
        /\ UNCHANGED <<authority, creds, lock, clock, req, granted, writes>>
    BY <1>3, GrantAdmitted
  <2> QED
    BY <2>1 DEF TypeOK, RequestNamed, PCs
<1>5. ASSUME NEW p \in Procs, AdmitRenew(p) \/ AdmitRelease(p)
      PROVE  TypeOK' /\ RequestNamed'
  <2>1. /\ work'[p] \in Records /\ work' = [work EXCEPT ![p] = work'[p]]
        /\ pc[p] = "locked" /\ pc' = [pc EXCEPT ![p] = "publish"]
        /\ UNCHANGED <<authority, creds, lock, clock, req, nextToken, granted,
                       writes>>
    BY <1>5, RenewAdmitted
  <2> QED
    BY <2>1 DEF TypeOK, RequestNamed, PCs
<1>7. ASSUME NEW p \in Procs, AdmitMutate(p) \/ Refuse(p)
      PROVE  TypeOK' /\ RequestNamed'
  BY <1>7 DEF AdmitMutate, Refuse, TypeOK, RequestNamed, PCs
<1>8. ASSUME NEW p \in Procs, pc[p] \in {"stage", "publish"},
             work[p].status = "active", work[p].session \in Sessions
      PROVE  LeaseOf(work[p]) \in Leases
  BY <1>8 DEF LeaseOf, Lease, Leases, TypeOK, Records
<1>9. ASSUME NEW p \in Procs, Stage(p) PROVE TypeOK' /\ RequestNamed'
  <2>1. LeaseOf(work[p]) \in Leases
    BY <1>8, <1>9 DEF Stage, WorkReady, OpensEpoch
  <2> QED
    BY <1>9, <2>1 DEF Stage, TypeOK, RequestNamed, PCs
<1>10. ASSUME NEW p \in Procs, Publish(p) \/ PublishFailsAfter(p)
       PROVE  TypeOK' /\ RequestNamed'
  <2>1. pc[p] = "publish" /\ authority' = work[p] /\ granted' = GrantedAfter(work[p])
    BY <1>10 DEF Publish, PublishFailsAfter
  <2>2. GrantedAfter(work[p]) \in SUBSET Leases
    <3>1. CASE work[p].status = "active"
      <4>1. work[p].session \in Sessions
        BY <2>1, <3>1 DEF WorkReady, OpensEpoch, Prolongs, Ends, LeaseOf,
                          Lease, EpochHighest
      <4> QED
        BY <1>8, <2>1, <3>1, <4>1 DEF GrantedAfter, TypeOK
    <3>2. CASE work[p].status # "active"
      BY <3>2 DEF GrantedAfter, TypeOK
    <3> QED
      BY <3>1, <3>2
  <2> QED
    BY <1>10, <2>1, <2>2 DEF Publish, PublishFailsAfter, TypeOK, RequestNamed, PCs
<1>11. ASSUME NEW p \in Procs, PublishFailsBefore(p) \/ RemoveCredential(p)
       PROVE  TypeOK' /\ RequestNamed'
  BY <1>11 DEF PublishFailsBefore, RemoveCredential, TypeOK, RequestNamed, PCs
<1>12. ASSUME NEW p \in Procs, HandlerWrite(p) PROVE TypeOK' /\ RequestNamed'
  <2>1. Lease(req[p].epoch, req[p].session, req[p].token) \in Leases
    BY <1>12 DEF HandlerWrite, TypeOK, RequestNamed, RequestTypes, Lease, Leases
  <2> QED
    BY <1>12, <2>1 DEF HandlerWrite, TypeOK, RequestNamed
<1>13. ASSUME NEW p \in Procs, HandlerReturn(p) \/ ReleaseLock(p) \/ Crash(p)
       PROVE  TypeOK' /\ RequestNamed'
  BY <1>0, <1>13 DEF HandlerReturn, ReleaseLock, Crash, TypeOK, RequestNamed, PCs
<1>14. CASE SetClock
  BY <1>14, ChiefAssumption
     DEF SetClock, TypeOK, RequestNamed, Times, ChiefAssumption
<1>15. CASE UNCHANGED vars
  BY <1>15 DEF vars, TypeOK, RequestNamed
<1> QED
  BY <1>1, <1>2, <1>3, <1>5, <1>7, <1>9, <1>10, <1>11, <1>12, <1>13,
     <1>14, <1>15 DEF Next, Proceed, Admit

-----------------------------------------------------------------------------
(* One step *)

(* A process outside the critical section cannot enter it while the lock is *)
(* held, so what the owner knows about the record stays true.               *)
LEMMA LockStep == ASSUME IInv, [Next]_vars PROVE LockOwned'
<1> TypeOK /\ LockOwned
  BY DEF IInv
<1> USE DEF LockOwned, TypeOK, Inside
<1>1. ASSUME NEW p \in Procs, Invoke(p) \/ AcquireLock(p) PROVE LockOwned'
  BY <1>1, ChiefAssumption DEF Invoke, AcquireLock, ChiefAssumption
<1>2. ASSUME NEW p \in Procs, Admit(p) PROVE LockOwned'
  BY <1>2 DEF Admit, AdmitAcquire, AdmitTakeover, AdmitRenew, AdmitRelease,
              AdmitMutate, Refuse
<1>3. ASSUME NEW p \in Procs,
             \/ Stage(p) \/ Publish(p) \/ PublishFailsBefore(p)
             \/ PublishFailsAfter(p) \/ RemoveCredential(p)
      PROVE  LockOwned'
  BY <1>3 DEF Stage, Publish, PublishFailsBefore, PublishFailsAfter,
              RemoveCredential
<1>4. ASSUME NEW p \in Procs, HandlerWrite(p) \/ HandlerReturn(p)
      PROVE  LockOwned'
  BY <1>4 DEF HandlerWrite, HandlerReturn
<1>5. ASSUME NEW p \in Procs, ReleaseLock(p) \/ Crash(p) PROVE LockOwned'
  BY <1>5, ChiefAssumption DEF ReleaseLock, Crash, ChiefAssumption
<1>6. CASE SetClock \/ UNCHANGED vars
  BY <1>6 DEF SetClock, vars
<1> QED
  BY <1>1, <1>2, <1>3, <1>4, <1>5, <1>6 DEF Next, Proceed

(* What the process inside the critical section is about to write.          *)
LEMMA WorkStep == ASSUME IInv, [Next]_vars PROVE WorkReady' /\ HandlerFenced'
<1> TypeOK /\ LockOwned /\ RequestNamed /\ WorkReady /\ HandlerFenced
  BY DEF IInv
<1>0. authority.session \in Sessions \/ authority.status # "active"
  BY DEF IInv, EpochHighest
<1> DEFINE Keep == WorkReady' /\ HandlerFenced'
<1> USE DEF WorkReady, HandlerFenced, LockOwned, Inside, OpensEpoch, Prolongs,
            Ends
<1>1. ASSUME NEW p \in Procs, Invoke(p) \/ AcquireLock(p) PROVE Keep
  BY <1>1 DEF Invoke, AcquireLock, TypeOK
<1>2. ASSUME NEW p \in Procs, AdmitAcquire(p) \/ AdmitTakeover(p) PROVE Keep
  <2>1. /\ work' = [work EXCEPT ![p] = work'[p]]
        /\ req[p].cmd \in Grants
        /\ work'[p].status = "active" /\ work'[p].session \in Sessions
        /\ work'[p].epoch = authority.epoch + 1
        /\ pc[p] = "locked" /\ pc' = [pc EXCEPT ![p] = "stage"]
        /\ UNCHANGED <<authority, creds, lock, clock, req, granted, writes>>
    BY <1>2, GrantAdmitted
  <2> QED
    BY <2>1 DEF TypeOK
<1>3. ASSUME NEW p \in Procs, AdmitRenew(p) \/ AdmitRelease(p) PROVE Keep
  <2>1. /\ work' = [work EXCEPT ![p] = work'[p]]
        /\ authority.status = "active"
        /\ \/ /\ req[p].cmd = "renew" /\ work'[p].status = "active"
              /\ LeaseOf(work'[p]) = LeaseOf(authority)
           \/ /\ req[p].cmd = "release" /\ work'[p].status = "inactive"
              /\ work'[p].epoch = authority.epoch
        /\ pc[p] = "locked" /\ pc' = [pc EXCEPT ![p] = "publish"]
        /\ UNCHANGED <<authority, creds, lock, clock, req, nextToken, granted,
                       writes>>
    BY <1>3, RenewAdmitted DEF IInv
  <2>2. \A q \in Procs : q # p => pc[q] \notin Inside /\ pc'[q] = pc[q]
    BY <2>1 DEF TypeOK
  <2>3. pc'[p] = "publish" /\ (Prolongs(p)' \/ Ends(p)')
    BY <2>1 DEF TypeOK, LeaseOf, Lease
  <2> QED
    BY <2>1, <2>2, <2>3
<1>4. ASSUME NEW p \in Procs, AdmitMutate(p) PROVE Keep
  <2>1. /\ authority.status = "active"
        /\ LeaseOf(authority) = Lease(req[p].epoch, req[p].session, req[p].token)
    BY <1>4 DEF AdmitMutate, Authenticates
  <2>2. /\ pc[p] = "locked" /\ pc' = [pc EXCEPT ![p] = "handler"]
        /\ UNCHANGED <<authority, creds, lock, req, work>>
    BY <1>4 DEF AdmitMutate
  <2> QED
    BY <2>1, <2>2 DEF TypeOK, LeaseOf, Lease
<1>5. ASSUME NEW p \in Procs, Refuse(p) PROVE Keep
  BY <1>5 DEF Refuse, TypeOK, LeaseOf, Lease
<1>7. ASSUME NEW p \in Procs, Stage(p) PROVE Keep
  BY <1>7 DEF Stage, TypeOK
<1>8. ASSUME NEW p \in Procs, Publish(p) PROVE Keep
  <2>1. \A q \in Procs : q # p => pc[q] \notin Inside /\ pc'[q] = pc[q]
    BY <1>8 DEF Publish, TypeOK
  <2>2. /\ authority' = work[p] /\ UNCHANGED <<creds, req, work>>
        /\ pc'[p] = "unlock" \/ (pc'[p] = "cleanup" /\ req[p].cmd = "release")
        /\ pc[p] = "publish"
    BY <1>8 DEF Publish, TypeOK
  <2>3. pc'[p] = "cleanup" => work[p].status = "inactive"
    BY <2>2 DEF Grants
  <2>4. \A q \in Procs : pc'[q] \notin {"stage", "publish"}
                          /\ (pc'[q] = "cleanup" => q = p)
    BY <2>1, <2>2
  <2>5. WorkReady'
    BY <2>2, <2>3, <2>4
  <2>6. HandlerFenced'
    BY <2>1, <2>2
  <2> QED
    BY <2>5, <2>6
<1>9. ASSUME NEW p \in Procs, PublishFailsBefore(p) PROVE Keep
  BY <1>9 DEF PublishFailsBefore, TypeOK
<1>10. ASSUME NEW p \in Procs, PublishFailsAfter(p) PROVE Keep
  BY <1>10 DEF PublishFailsAfter, TypeOK
<1>11. ASSUME NEW p \in Procs, RemoveCredential(p) PROVE Keep
  BY <1>11 DEF RemoveCredential, TypeOK
<1>12. ASSUME NEW p \in Procs, HandlerWrite(p) \/ HandlerReturn(p) PROVE Keep
  BY <1>12 DEF HandlerWrite, HandlerReturn, TypeOK
<1>13. ASSUME NEW p \in Procs, ReleaseLock(p) \/ Crash(p) PROVE Keep
  BY <1>13 DEF ReleaseLock, Crash, TypeOK
<1>14. CASE SetClock \/ UNCHANGED vars
  BY <1>14 DEF SetClock, vars
<1> QED
  BY <1>1, <1>2, <1>3, <1>4, <1>5, <1>7, <1>8, <1>9, <1>10, <1>11, <1>12,
     <1>13, <1>14 DEF Next, Proceed, Admit

(* What publication does to the record and to the history: it opens the     *)
(* next epoch with its credential on disk, or keeps the lease, or ends it.  *)
LEMMA PublishEffect ==
    ASSUME IInv, NEW p \in Procs, Publish(p) \/ PublishFailsAfter(p)
    PROVE  /\ UNCHANGED <<creds, writes>>
           /\ authority' = work[p]
           /\ \/ /\ authority'.status = "active"
                 /\ authority'.session \in Sessions
                 /\ authority'.epoch = authority.epoch + 1
                 /\ LeaseOf(authority') \in creds
                 /\ granted' = granted \cup {LeaseOf(authority')}
              \/ /\ authority.status = "active" /\ authority'.status = "active"
                 /\ LeaseOf(authority') = LeaseOf(authority)
                 /\ granted' = granted \cup {LeaseOf(authority)}
              \/ /\ authority.status = "active" /\ authority'.status = "inactive"
                 /\ authority'.epoch = authority.epoch
                 /\ granted' = granted
<1>1. /\ pc[p] = "publish" /\ authority' = work[p]
      /\ granted' = GrantedAfter(work[p]) /\ UNCHANGED <<creds, writes>>
  BY DEF Publish, PublishFailsAfter
<1>2. \/ OpensEpoch(p) /\ LeaseOf(work[p]) \in creds
      \/ Prolongs(p)
      \/ Ends(p)
  BY <1>1 DEF IInv, WorkReady
<1> QED
  BY <1>1, <1>2 DEF OpensEpoch, Prolongs, Ends, GrantedAfter

LEMMA HistoryStep ==
    ASSUME IInv, [Next]_vars
    PROVE  EpochHighest' /\ OneGrantPerEpoch' /\ LeaseNotStranded' /\ WritesOrdered'
<1> DEFINE Keep == /\ EpochHighest' /\ OneGrantPerEpoch'
                   /\ LeaseNotStranded' /\ WritesOrdered'
<1>0. /\ EpochHighest /\ OneGrantPerEpoch /\ LeaseNotStranded /\ WritesOrdered
      /\ authority.epoch \in Nat /\ authority \in Records
      /\ writes \in Seq(Leases) /\ granted \subseteq Leases
  BY DEF IInv, TypeOK, Records, Epochs
<1>1. CASE UNCHANGED <<authority, creds, granted, writes>>
  BY <1>0, <1>1 DEF EpochHighest, OneGrantPerEpoch, LeaseNotStranded,
                    WritesOrdered, LeaseOf
<1>2. ASSUME NEW p \in Procs, Stage(p) PROVE Keep
  BY <1>0, <1>2 DEF Stage, EpochHighest, OneGrantPerEpoch, LeaseNotStranded,
                    WritesOrdered, LeaseOf
<1>3. ASSUME NEW p \in Procs, Publish(p) \/ PublishFailsAfter(p) PROVE Keep
  <2>1. authority' \in Records
    BY <1>3, PublishEffect DEF IInv, TypeOK
  <2>2. CASE /\ authority'.status = "active"
             /\ authority'.session \in Sessions
             /\ authority'.epoch = authority.epoch + 1
             /\ LeaseOf(authority') \in creds
             /\ granted' = granted \cup {LeaseOf(authority')}
             /\ UNCHANGED <<creds, writes>>
    <3> DEFINE new == LeaseOf(authority')
    <3>1. new.epoch = authority.epoch + 1
      BY <2>2 DEF LeaseOf, Lease
    <3>2. \A g \in granted : g.epoch \in Nat /\ g.epoch <= authority.epoch
      BY <1>0 DEF EpochHighest, Leases, Epochs
    <3>3. \A i \in 1..Len(writes) : writes[i].epoch \in Nat
                                     /\ writes[i].epoch <= authority.epoch
      <4>1. \A i \in 1..Len(writes) : writes[i] \in Leases
        BY <1>0
      <4>2. \A k \in Leases : k.epoch \in Nat
        BY DEF Leases, Epochs
      <4> QED
        BY <1>0, <4>1, <4>2 DEF EpochHighest
    <3> HIDE DEF new
    <3>4. granted' = granted \cup {new}
      BY <2>2 DEF new
    <3>5. EpochHighest'
      BY <1>0, <2>2, <3>1, <3>2, <3>3, <3>4 DEF EpochHighest, new
    <3>6. OneGrantPerEpoch'
      BY <1>0, <3>1, <3>2, <3>4 DEF OneGrantPerEpoch
    <3>7. LeaseNotStranded' /\ WritesOrdered'
      BY <1>0, <2>2 DEF LeaseNotStranded, WritesOrdered
    <3> QED
      BY <3>5, <3>6, <3>7
  <2>3. CASE /\ authority.status = "active" /\ authority'.status = "active"
             /\ LeaseOf(authority') = LeaseOf(authority)
             /\ granted' = granted \cup {LeaseOf(authority)}
             /\ UNCHANGED <<creds, writes>>
    <3>1. authority'.epoch = authority.epoch /\ authority'.session = authority.session
      BY <2>3 DEF LeaseOf, Lease
    <3>2. granted' = granted
      BY <1>0, <2>3 DEF EpochHighest
    <3> QED
      BY <1>0, <2>3, <3>1, <3>2 DEF EpochHighest, OneGrantPerEpoch,
                              LeaseNotStranded, WritesOrdered
  <2>4. CASE /\ authority.status = "active" /\ authority'.status = "inactive"
             /\ authority'.epoch = authority.epoch
             /\ granted' = granted
             /\ UNCHANGED <<creds, writes>>
    BY <1>0, <2>4 DEF EpochHighest, OneGrantPerEpoch, LeaseNotStranded,
                      WritesOrdered
  <2> QED
    BY <1>3, <2>2, <2>3, <2>4, PublishEffect
<1>4. ASSUME NEW p \in Procs, PublishFailsBefore(p) PROVE Keep
  <2>1. authority.status = "active" => LeaseOf(authority) \in creds'
    <3>1. CASE req[p].cmd \in Grants
      <4>1. work[p].epoch = authority.epoch + 1
        BY <1>4, <3>1 DEF IInv, WorkReady, PublishFailsBefore, OpensEpoch,
                          Prolongs, Ends, Grants
      <4>2. LeaseOf(work[p]) # LeaseOf(authority)
        BY <1>0, <4>1 DEF LeaseOf, Lease
      <4> QED
        BY <1>0, <1>4, <3>1, <4>2 DEF PublishFailsBefore, Grants, LeaseNotStranded
    <3>2. CASE req[p].cmd \notin Grants
      BY <1>0, <1>4, <3>2 DEF PublishFailsBefore, Grants, LeaseNotStranded
    <3> QED
      BY <3>1, <3>2
  <2> QED
    BY <1>0, <1>4, <2>1 DEF PublishFailsBefore, EpochHighest,
                            OneGrantPerEpoch, LeaseNotStranded, WritesOrdered,
                            LeaseOf
<1>5. ASSUME NEW p \in Procs, RemoveCredential(p) PROVE Keep
  <2>1. authority.status = "inactive"
    BY <1>5 DEF IInv, WorkReady, RemoveCredential
  <2> QED
    BY <1>0, <1>5, <2>1 DEF RemoveCredential, EpochHighest, OneGrantPerEpoch,
                            LeaseNotStranded, WritesOrdered, LeaseOf
<1>6. ASSUME NEW p \in Procs, HandlerWrite(p) PROVE Keep
  <2> DEFINE w == Lease(req[p].epoch, req[p].session, req[p].token)
  <2>1. w = LeaseOf(authority) /\ w.epoch = authority.epoch
    BY <1>6 DEF IInv, HandlerFenced, HandlerWrite, LeaseOf, Lease
  <2>2. writes' = Append(writes, w) /\ UNCHANGED <<authority, creds, granted>>
    BY <1>6 DEF HandlerWrite
  <2> HIDE DEF w
  <2>3. Len(writes') = Len(writes) + 1 /\ Len(writes) \in Nat
    BY <1>0, <2>2
  <2>4. \A i \in 1..Len(writes') :
          writes'[i] = IF i = Len(writes) + 1 THEN w ELSE writes[i]
    BY <1>0, <2>2
  <2>5. \A i \in 1..Len(writes) : writes[i].epoch <= authority.epoch
    BY <1>0 DEF EpochHighest
  <2>6. EpochHighest'
    BY <1>0, <2>1, <2>2, <2>3, <2>4, <2>5 DEF EpochHighest, LeaseOf
  <2>7. WritesOrdered'
    BY <1>0, <2>1, <2>3, <2>4, <2>5 DEF WritesOrdered
  <2> QED
    BY <1>0, <2>2, <2>6, <2>7 DEF OneGrantPerEpoch, LeaseNotStranded, LeaseOf
<1>7. ASSUME NEW p \in Procs,
             \/ Invoke(p) \/ AcquireLock(p) \/ Admit(p) \/ HandlerReturn(p)
             \/ ReleaseLock(p) \/ Crash(p)
      PROVE  UNCHANGED <<authority, creds, granted, writes>>
  BY <1>7 DEF Invoke, AcquireLock, Admit, AdmitAcquire, AdmitTakeover,
              AdmitRenew, AdmitRelease, AdmitMutate, Refuse, HandlerReturn,
              ReleaseLock, Crash
<1>8. CASE SetClock \/ UNCHANGED vars
  BY <1>1, <1>8 DEF SetClock, vars
<1> QED
  BY <1>1, <1>2, <1>3, <1>4, <1>5, <1>6, <1>7, <1>8 DEF Next, Proceed

-----------------------------------------------------------------------------
(* Theorems *)

(* The inductive invariant holds in every reachable state.                  *)
LEMMA Invariance == Spec => []IInv
<1>1. ASSUME Init PROVE IInv
  BY <1>1, InitInv
<1>2. ASSUME IInv, [Next]_vars PROVE IInv'
  BY <1>2, TypeStep, LockStep, WorkStep, HistoryStep DEF IInv
<1> QED
  BY <1>1, <1>2, PTL DEF Spec

(* Every variable keeps its type, whatever the processes, sessions and      *)
(* bounds: records, credentials and requests stay well formed through       *)
(* failed writes and crashes (harnesslib.py, the chief transitions).        *)
THEOREM TypeCorrect == Spec => []TypeOK
BY Invariance, PTL DEF IInv

(* A fenced handler of cli._execute_project_command always runs under the   *)
(* published lease: no transition comes between its check and its writes.   *)
THEOREM Fencing == Spec => []HandlerFenced
BY Invariance, PTL DEF IInv

(* acquire_chief_authority and takeover_chief_authority never hand the same *)
(* epoch out twice, however often they crash after staging a credential.    *)
THEOREM GrantUniqueness == Spec => []OneGrantPerEpoch
BY Invariance, PTL DEF IInv

(* The secret of the live lease is never lost: no failed publication, no    *)
(* clean-up of a release and no crash removes its credential file.          *)
THEOREM CredentialKept == Spec => []LeaseNotStranded
BY Invariance, PTL DEF IInv

(* The writes of the fenced handlers are ordered by the epoch of the lease  *)
(* they were made under.                                                    *)
THEOREM WriteOrder == Spec => []WritesOrdered
BY Invariance, PTL DEF IInv

-----------------------------------------------------------------------------
(* Refinement *)

LEMMA RefineInit == ASSUME Init PROVE Promise!Init
BY DEF Init, NoRecord, Promise!Init, Current

LEMMA RefineStep ==
    ASSUME IInv, IInv', [Next]_vars
    PROVE  [Promise!Next]_Promise!vars
<1>1. CASE UNCHANGED <<authority, granted, writes>>
  BY <1>1 DEF Promise!vars, Current, LeaseOf
<1>2. ASSUME NEW p \in Procs, Publish(p) \/ PublishFailsAfter(p)
      PROVE  [Promise!Next]_Promise!vars
  <2>1. authority \in Records /\ authority' \in Records
    BY DEF IInv, TypeOK
  <2>2. CASE /\ authority'.status = "active"
             /\ authority'.session \in Sessions
             /\ authority'.epoch = authority.epoch + 1
             /\ granted' = granted \cup {LeaseOf(authority')}
             /\ UNCHANGED writes
    <3>1. Current' = LeaseOf(authority')
      BY <2>2 DEF Current
    <3>2. LeaseOf(authority') \in [epoch : Nat \ {0}, session : Sessions, token : Nat]
      BY <2>1, <2>2 DEF LeaseOf, Lease, Records, Epochs, Tokens
    <3>3. \A g \in granted : g.epoch < LeaseOf(authority').epoch
      <4>1. LeaseOf(authority').epoch = authority.epoch + 1 /\ authority.epoch \in Nat
        BY <2>1, <2>2 DEF LeaseOf, Lease, Records, Epochs
      <4>2. \A g \in granted : g.epoch \in Nat /\ g.epoch <= authority.epoch
        BY DEF IInv, EpochHighest, TypeOK, Leases, Epochs
      <4> QED
        BY <4>1, <4>2
    <3>4. Promise!Grant
      BY <2>2, <3>1, <3>2, <3>3 DEF Promise!Grant
    <3> QED
      BY <3>4 DEF Promise!Next
  <2>3. CASE /\ authority.status = "active" /\ authority'.status = "active"
             /\ LeaseOf(authority') = LeaseOf(authority)
             /\ granted' = granted \cup {LeaseOf(authority)}
             /\ UNCHANGED writes
    <3>1. granted' = granted
      BY <2>3 DEF IInv, EpochHighest
    <3> QED
      BY <2>3, <3>1 DEF Promise!vars, Current
  <2>4. CASE /\ authority.status = "active" /\ authority'.status = "inactive"
             /\ granted' = granted
             /\ UNCHANGED writes
    <3>1. Current = LeaseOf(authority) /\ Current' = NoLease
      BY <2>4 DEF Current
    <3>2. LeaseOf(authority) # NoLease
      BY <2>4, ChiefAssumption
         DEF IInv, EpochHighest, LeaseOf, Lease, NoLease, ChiefAssumption
    <3>3. Promise!Drop
      BY <2>4, <3>1, <3>2 DEF Promise!Drop
    <3> QED
      BY <3>3 DEF Promise!Next
  <2> QED
    BY <1>2, <2>2, <2>3, <2>4, PublishEffect
<1>3. ASSUME NEW p \in Procs, HandlerWrite(p) PROVE [Promise!Next]_Promise!vars
  <2>1. /\ authority.status = "active"
        /\ LeaseOf(authority) = Lease(req[p].epoch, req[p].session, req[p].token)
    BY <1>3 DEF IInv, HandlerFenced, HandlerWrite
  <2>2. writes' = Append(writes, LeaseOf(authority)) /\ UNCHANGED <<authority, granted>>
    BY <1>3, <2>1 DEF HandlerWrite
  <2>3. Current = LeaseOf(authority) /\ Current' = Current /\ Current # NoLease
    BY <2>1, <2>2, ChiefAssumption
       DEF Current, IInv, EpochHighest, LeaseOf, Lease, NoLease, ChiefAssumption
  <2>4. Promise!Write
    BY <2>2, <2>3 DEF Promise!Write
  <2> QED
    BY <2>4 DEF Promise!Next
<1>4. ASSUME NEW p \in Procs,
             \/ Invoke(p) \/ AcquireLock(p) \/ Admit(p) \/ Stage(p)
             \/ PublishFailsBefore(p) \/ RemoveCredential(p)
             \/ HandlerReturn(p) \/ ReleaseLock(p) \/ Crash(p)
      PROVE  UNCHANGED <<authority, granted, writes>>
  BY <1>4 DEF Invoke, AcquireLock, Admit, AdmitAcquire, AdmitTakeover,
              AdmitRenew, AdmitRelease, AdmitMutate, Refuse, Stage,
              PublishFailsBefore, RemoveCredential, HandlerReturn,
              ReleaseLock, Crash
<1>5. CASE SetClock \/ UNCHANGED vars
  BY <1>1, <1>5 DEF SetClock, vars
<1> QED
  BY <1>1, <1>2, <1>3, <1>4, <1>5 DEF Next, Proceed

(* The processes, lock, credential files and crashes implement the lease of *)
(* FencedLease: superseded and released leases never come back, and every   *)
(* write of a fenced handler is made under the lease current at that moment.*)
THEOREM Refinement == Spec => ImplementsLease
<1>1. ASSUME Init PROVE Promise!Init
  BY <1>1, RefineInit
<1>2. ASSUME IInv, IInv', [Next]_vars PROVE [Promise!Next]_Promise!vars
  BY <1>2, RefineStep
<1> QED
  BY <1>1, <1>2, Invariance, PTL DEF Spec, ImplementsLease, Promise!Spec

-----------------------------------------------------------------------------
(***************************************************************************)
(* The audit tail: it stays a chain of valid events while its oldest ones   *)
(* are dropped, and the renewals it still shows agree with the counter of   *)
(* the record.                                                              *)
(***************************************************************************)

(* A tail T behind o dropped events: every event and every pair of          *)
(* neighbours is valid, and the numbers run on.                             *)
Linked(T, o) ==
    /\ \A i \in 1..Len(T) : ValidEvent(T[i]) /\ T[i].seq = o + i
    /\ \A i \in 1..(Len(T) - 1) : ValidSuccessor(T[i], T[i + 1])
    /\ o = 0 /\ Len(T) > 0 => T[1].action = "acquire" /\ T[1].old = 0

(* The last k events, as far as the tail shows them, are the renewals of    *)
(* epoch n, and before them stands the event that opened it.                *)
Opened(T, n, k, at) ==
    /\ \A i \in 1..Len(T) : T[i].new <= n
    /\ \A i \in 1..Len(T) : i > Len(T) - k => T[i].action = "renew" /\ T[i].new = n
    /\ \A i \in 1..Len(T) : i = Len(T) - k =>
           T[i].action \in {"acquire", "takeover"} /\ T[i].new = n /\ T[i].at = at
    /\ \A i \in 1..Len(T) : i < Len(T) - k => T[i].new < n

(* U is T with e at its end, and with its first d events dropped.           *)
Shifted(U, T, d, e) ==
    /\ d \in {0, 1} /\ Len(U) = Len(T) + 1 - d /\ Len(U) > 0
    /\ U[Len(U)] = e
    /\ \A i \in 1..(Len(U) - 1) : i + d \in 1..Len(T) /\ U[i] = T[i + d]

After(T, e) == IF Len(Append(T, e)) > AuditTailMax THEN Tail(Append(T, e)) ELSE Append(T, e)
Dropped(T, e) == IF Len(Append(T, e)) > AuditTailMax THEN 1 ELSE 0

(* The audit trail of a record: the validator's checks that do not depend   *)
(* on the status.                                                           *)
Trail(r) ==
    /\ Len(r.tail) \in 1..AuditTailMax
    /\ r.seq = r.omitted + Len(r.tail)
    /\ 1 <= r.epoch /\ r.epoch <= r.seq
    /\ Linked(r.tail, r.omitted)
    /\ \A i \in 1..Len(r.tail) : r.tail[i].new <= r.epoch
    /\ r.tail[Len(r.tail)].new = r.epoch
    /\ r.tail[Len(r.tail)].at = r.updated

(* The lease of an active record, with the renewals counted by position.    *)
Holds(r, last) ==
    /\ r.session = last.session
    /\ r.token # 0
    /\ r.issued <= r.renewed
    /\ r.expires - r.renewed \in TTLs
    /\ r.renewed = r.updated
    /\ last.action \in {"acquire", "renew", "takeover"}
    /\ Opened(r.tail, r.epoch, r.renewals, r.issued)

Sound(r) ==
    /\ r \in Records
    /\ r.status = "uninitialized" => r = NoRecord
    /\ r.status # "uninitialized" => Trail(r)
    /\ r.status = "active" => Holds(r, r.tail[Len(r.tail)])
    /\ r.status = "inactive" => ValidInactive(r, r.tail[Len(r.tail)])

-----------------------------------------------------------------------------
(* One event more *)

LEMMA AfterShifts ==
    ASSUME NEW T \in Seq(Events), NEW e \in Events, Len(T) <= AuditTailMax
    PROVE  /\ After(T, e) \in Seq(Events) /\ Len(After(T, e)) \in 1..AuditTailMax
           /\ Shifted(After(T, e), T, Dropped(T, e), e)
<1>1. PICK F : F = Append(T, e)
  OBVIOUS
<1>2. /\ F \in Seq(Events) /\ Len(F) = Len(T) + 1 /\ F[Len(F)] = e
      /\ \A i \in 1..Len(T) : F[i] = T[i]
  BY <1>1
<1>3. CASE Len(F) > AuditTailMax
  <2>1. After(T, e) = Tail(F) /\ Dropped(T, e) = 1 /\ Len(T) = AuditTailMax
    BY <1>1, <1>2, <1>3, ChiefAssumption DEF After, Dropped
  <2>2. F # <<>>
    BY <1>2
  <2>3. Tail(F) \in Seq(Events) /\ Len(Tail(F)) = Len(F) - 1
        /\ \A i \in 1..(Len(F) - 1) : Tail(F)[i] = F[i + 1]
    BY <1>2, <2>2
  <2> QED BY <1>2, <2>1, <2>3, ChiefAssumption DEF Shifted
<1>4. CASE ~(Len(F) > AuditTailMax)
  BY <1>1, <1>2, <1>4, ChiefAssumption DEF After, Dropped, Shifted
<1> QED BY <1>3, <1>4

LEMMA LinkedAfter ==
    ASSUME NEW T \in Seq(Events), NEW o \in Nat, Linked(T, o),
           NEW e \in Events, ValidEvent(e), e.seq = o + Len(T) + 1,
           Len(T) > 0 => ValidSuccessor(T[Len(T)], e),
           Len(T) = 0 => o = 0 /\ e.action = "acquire" /\ e.old = 0,
           NEW U \in Seq(Events), NEW d, Shifted(U, T, d, e)
    PROVE  Linked(U, o + d)
<1>1. /\ d \in {0, 1} /\ Len(U) = Len(T) + 1 - d /\ Len(U) > 0 /\ Len(U) \in Nat /\ Len(T) \in Nat
      /\ U[Len(U)] = e
      /\ \A i \in 1..(Len(U) - 1) : i + d \in 1..Len(T) /\ U[i] = T[i + d]
  BY DEF Shifted
<1>2. ASSUME NEW i \in 1..Len(U)
      PROVE  ValidEvent(U[i]) /\ U[i].seq = o + d + i
  <2>1. CASE i = Len(U)
    BY <1>1, <2>1
  <2>2. CASE i # Len(U)
    <3>1. i \in 1..(Len(U) - 1) /\ i + d \in 1..Len(T) /\ U[i] = T[i + d]
      BY <1>1, <2>2
    <3>2. ValidEvent(T[i + d]) /\ T[i + d].seq = o + (i + d)
      BY <3>1 DEF Linked
    <3> QED BY <1>1, <3>1, <3>2
  <2> QED BY <2>1, <2>2
<1>3. ASSUME NEW i \in 1..(Len(U) - 1)
      PROVE  ValidSuccessor(U[i], U[i + 1])
  <2>1. i + d \in 1..Len(T) /\ U[i] = T[i + d]
    BY <1>1
  <2>2. CASE i = Len(U) - 1
    <3>1. i + d = Len(T) /\ i + 1 = Len(U) /\ Len(T) > 0
      BY <1>1, <2>1, <2>2
    <3> QED BY <1>1, <2>1, <3>1
  <2>3. CASE i # Len(U) - 1
    <3>1. i + 1 \in 1..(Len(U) - 1) /\ i + d \in 1..(Len(T) - 1) /\ (i + 1) + d = (i + d) + 1
      BY <1>1, <2>3
    <3>2. U[i + 1] = T[(i + d) + 1]
      BY <1>1, <3>1
    <3> QED BY <2>1, <3>1, <3>2 DEF Linked
  <2> QED BY <2>2, <2>3
<1>4. ASSUME o + d = 0
      PROVE  U[1].action = "acquire" /\ U[1].old = 0
  <2>1. o = 0 /\ d = 0
    BY <1>1, <1>4
  <2>2. CASE Len(T) = 0
    BY <1>1, <2>1, <2>2
  <2>3. CASE Len(T) > 0
    <3>1. 1 \in 1..(Len(U) - 1) /\ U[1] = T[1]
      BY <1>1, <2>1, <2>3
    <3> QED BY <2>1, <2>3, <3>1 DEF Linked
  <2> QED BY <1>1, <2>2, <2>3
<1> QED BY <1>2, <1>3, <1>4 DEF Linked

LEMMA EventNumbers ==
    ASSUME NEW e \in Events
    PROVE  e.new \in Nat /\ e.old \in Nat /\ e.at \in Nat /\ e.seq \in Nat /\ e.session \in Sessions
  BY DEF Events, Epochs, Times

LEMMA BoundedAfter ==
    ASSUME NEW T \in Seq(Events), NEW e \in Events, NEW n \in Nat, NEW m \in Nat, n <= m,
           \A i \in 1..Len(T) : T[i].new <= n, e.new <= m,
           NEW U \in Seq(Events), NEW d, Shifted(U, T, d, e)
    PROVE  \A i \in 1..Len(U) : U[i].new <= m
<1> SUFFICES ASSUME NEW i \in 1..Len(U) PROVE U[i].new <= m
  OBVIOUS
<1>1. CASE i = Len(U)
  BY <1>1 DEF Shifted
<1>2. CASE i # Len(U)
  <2>1. i \in 1..(Len(U) - 1)
    BY <1>2
  <2>2. i + d \in 1..Len(T) /\ U[i] = T[i + d]
    BY <2>1 DEF Shifted
  <2>3. T[i + d] \in Events /\ T[i + d].new <= n
    BY <2>2
  <2>4. T[i + d].new \in Nat
    BY <2>3, EventNumbers
  <2>5. PICK x \in Nat : x = T[i + d].new
    BY <2>4
  <2>6. x <= n
    BY <2>3, <2>5
  <2>7. x <= m
    BY <2>6
  <2> QED BY <2>2, <2>5, <2>7
<1> QED BY <1>1, <1>2

(* A renewal is one more event of the epoch.                                *)
LEMMA OpenedRenew ==
    ASSUME NEW T \in Seq(Events), NEW e \in Events, NEW n \in Nat, NEW k \in Nat, NEW at \in Nat,
           Opened(T, n, k, at), e.action = "renew", e.new = n,
           NEW U \in Seq(Events), NEW d, Shifted(U, T, d, e)
    PROVE  Opened(U, n, k + 1, at)
<1>1. /\ d \in {0, 1} /\ Len(U) = Len(T) + 1 - d /\ Len(U) \in Nat /\ Len(T) \in Nat
      /\ U[Len(U)] = e
      /\ \A i \in 1..(Len(U) - 1) : i + d \in 1..Len(T) /\ U[i] = T[i + d]
  BY DEF Shifted
<1>2. ASSUME NEW i \in 1..Len(U)
      PROVE  /\ U[i].new <= n
             /\ i > Len(U) - (k + 1) => U[i].action = "renew" /\ U[i].new = n
             /\ i = Len(U) - (k + 1) => U[i].action \in {"acquire", "takeover"} /\ U[i].new = n
                                        /\ U[i].at = at
             /\ i < Len(U) - (k + 1) => U[i].new < n
  <2>1. CASE i = Len(U)
    BY <1>1, <2>1
  <2>2. CASE i # Len(U)
    <3>1. i \in 1..(Len(U) - 1)
      BY <1>1, <2>2
    <3>2. i + d \in 1..Len(T) /\ U[i] = T[i + d]
      BY <1>1, <3>1
    <3>3. /\ i > Len(U) - (k + 1) <=> i + d > Len(T) - k
          /\ i = Len(U) - (k + 1) <=> i + d = Len(T) - k
          /\ i < Len(U) - (k + 1) <=> i + d < Len(T) - k
      BY <1>1
    <3> QED BY <3>2, <3>3 DEF Opened
  <2> QED BY <2>1, <2>2
<1> QED BY <1>2 DEF Opened

(* A grant opens the next epoch.                                            *)
LEMMA OpenedGrant ==
    ASSUME NEW T \in Seq(Events), NEW e \in Events, NEW n \in Nat,
           \A i \in 1..Len(T) : T[i].new <= n,
           e.action \in {"acquire", "takeover"}, e.new = n + 1,
           NEW U \in Seq(Events), NEW d, Shifted(U, T, d, e)
    PROVE  Opened(U, n + 1, 0, e.at)
<1>1. /\ Len(U) \in Nat /\ Len(U) > 0 /\ U[Len(U)] = e
      /\ \A i \in 1..(Len(U) - 1) : i + d \in 1..Len(T) /\ U[i] = T[i + d]
  BY LenProperties DEF Shifted
<1>2. ASSUME NEW i \in 1..Len(U), i # Len(U)
      PROVE  U[i].new < n + 1
  <2>1. i \in 1..(Len(U) - 1)
    BY <1>1, <1>2
  <2>2. i + d \in 1..Len(T) /\ U[i] = T[i + d]
    BY <1>1, <2>1
  <2>3. T[i + d] \in Events /\ T[i + d].new <= n
    BY <2>2
  <2>4. PICK x \in Nat : x = T[i + d].new
    BY <2>3, EventNumbers
  <2>5. x <= n
    BY <2>3, <2>4
  <2>6. x < n + 1
    BY <2>5
  <2> QED BY <2>2, <2>4, <2>6
<1>3. \A i \in 1..Len(U) : /\ ~(i > Len(U) - 0)
                           /\ i = Len(U) - 0 <=> i = Len(U)
                           /\ i < Len(U) - 0 <=> i # Len(U)
  BY <1>1
<1>4. ASSUME NEW i \in 1..Len(U) PROVE U[i].new <= n + 1
  <2>1. CASE i = Len(U)
    <3>1. U[i].new = n + 1
      BY <1>1, <2>1
    <3> QED BY <3>1
  <2>2. CASE i # Len(U)
    <3>1. U[i] \in Events
      OBVIOUS
    <3>2. PICK x \in Nat : x = U[i].new
      BY <3>1, EventNumbers
    <3>3. x < n + 1
      BY <1>2, <2>2, <3>2
    <3>4. x <= n + 1
      BY <3>3
    <3> QED BY <3>2, <3>4
  <2> QED BY <2>1, <2>2
<1> QED BY <1>1, <1>2, <1>3, <1>4 DEF Opened

-----------------------------------------------------------------------------
(* The records the transitions build *)

EventOf(r, a, at, n, s, ps, f) ==
    [seq |-> r.seq + 1, action |-> a, at |-> at, old |-> r.epoch, new |-> n,
     session |-> s, previous |-> ps, forced |-> f]

(* w is r with the event e.                                                 *)
Extends(w, r, e) ==
    /\ w.tail = After(r.tail, e)
    /\ w.omitted = r.omitted + Dropped(r.tail, e)
    /\ w.seq = r.seq + 1
    /\ w.updated = e.at
    /\ w.epoch = e.new

LEMMA WithEventExtends ==
    ASSUME NEW r \in Records, NEW a \in Actions, NEW at \in Times, NEW n \in Epochs,
           NEW s \in Sessions, NEW ps \in Sessions \cup {NoSession}, NEW f \in BOOLEAN
    PROVE  LET e == EventOf(r, a, at, n, s, ps, f)  w == WithEvent(r, a, at, n, s, ps, f) IN
           /\ e \in Events
           /\ Extends(w, r, e)
           /\ w.issued = r.issued /\ w.renewals = r.renewals
<1>1. PICK e : e = EventOf(r, a, at, n, s, ps, f)
  OBVIOUS
<1>2. e \in Events /\ e.at = at /\ e.new = n
  BY <1>1 DEF EventOf, Events, Records, Epochs
<1>3. /\ r.omitted \in Nat /\ r.seq \in Nat
      /\ r = [status |-> r.status, epoch |-> r.epoch, session |-> r.session, token |-> r.token,
              issued |-> r.issued, renewed |-> r.renewed, expires |-> r.expires,
              renewals |-> r.renewals, seq |-> r.seq, omitted |-> r.omitted,
              tail |-> r.tail, updated |-> r.updated]
  BY DEF Records
<1>4. WithEvent(r, a, at, n, s, ps, f) =
        [r EXCEPT !.epoch = n, !.seq = @ + 1, !.updated = at,
                  !.omitted = IF Len(Append(r.tail, e)) > AuditTailMax THEN @ + 1 ELSE @,
                  !.tail = After(r.tail, e)]
  BY <1>1 DEF WithEvent, EventOf, After
<1>5. PICK o : o = IF Len(Append(r.tail, e)) > AuditTailMax THEN r.omitted + 1 ELSE r.omitted
  OBVIOUS
<1>6. o = r.omitted + Dropped(r.tail, e)
  BY <1>3, <1>5 DEF Dropped
<1>7. PICK t : t = After(r.tail, e)
  OBVIOUS
<1>8. PICK q : q = r.seq + 1
  OBVIOUS
<1>9. WithEvent(r, a, at, n, s, ps, f) =
        [r EXCEPT !.epoch = n, !.seq = q, !.updated = at, !.omitted = o, !.tail = t]
  BY <1>3, <1>4, <1>5, <1>7, <1>8
<1>10. PICK w : w = WithEvent(r, a, at, n, s, ps, f)
  OBVIOUS
<1>11. /\ w.tail = t /\ w.omitted = o /\ w.seq = q /\ w.updated = at /\ w.epoch = n
       /\ w.issued = r.issued /\ w.renewals = r.renewals
  BY <1>3, <1>9, <1>10
<1>12. Extends(w, r, e)
  BY <1>2, <1>6, <1>7, <1>8, <1>11 DEF Extends
<1> QED BY <1>1, <1>2, <1>10, <1>11, <1>12

(* What every sound record offers the next event.                           *)
LEMMA SoundTail ==
    ASSUME NEW r, Sound(r)
    PROVE  /\ r \in Records /\ r.tail \in Seq(Events)
           /\ r.seq \in Nat /\ r.omitted \in Nat /\ r.epoch \in Nat
           /\ Len(r.tail) <= AuditTailMax /\ Len(r.tail) \in Nat
           /\ r.seq = r.omitted + Len(r.tail) /\ r.epoch <= r.seq
           /\ Linked(r.tail, r.omitted)
           /\ \A i \in 1..Len(r.tail) : r.tail[i].new <= r.epoch
           /\ Len(r.tail) = 0 <=> r.status = "uninitialized"
           /\ r.status = "uninitialized" => r.omitted = 0 /\ r.epoch = 0
<1>1. /\ r \in Records /\ r.tail \in Seq(Events)
      /\ r.seq \in Nat /\ r.omitted \in Nat /\ r.epoch \in Nat
  BY DEF Sound, Records, Epochs
<1>2. CASE r.status = "uninitialized"
  <2>1. r.tail = <<>> /\ r.seq = 0 /\ r.omitted = 0 /\ r.epoch = 0
    BY <1>2 DEF Sound, NoRecord
  <2>2. Len(r.tail) = 0
    BY <2>1
  <2> QED BY <1>1, <1>2, <2>1, <2>2, ChiefAssumption DEF Linked
<1>3. CASE r.status # "uninitialized"
  <2>1. Trail(r)
    BY <1>3 DEF Sound
  <2> QED BY <1>1, <1>3, <2>1, ChiefAssumption DEF Trail
<1> QED BY <1>2, <1>3

LEMMA TrailExtended ==
    ASSUME NEW r, Sound(r), NEW e \in Events, ValidEvent(e),
           e.seq = r.seq + 1, e.old = r.epoch, e.new \in {r.epoch, r.epoch + 1},
           r.status = "uninitialized" => e.action = "acquire",
           r.status # "uninitialized" => ValidSuccessor(r.tail[Len(r.tail)], e) /\ r.epoch >= 1,
           NEW w \in Records, Extends(w, r, e)
    PROVE  /\ Trail(w)
           /\ w.tail \in Seq(Events) /\ w.tail[Len(w.tail)] = e
           /\ \E d : Shifted(w.tail, r.tail, d, e)
<1>0. /\ r \in Records /\ r.tail \in Seq(Events)
      /\ r.seq \in Nat /\ r.omitted \in Nat /\ r.epoch \in Nat
      /\ Len(r.tail) <= AuditTailMax /\ Len(r.tail) \in Nat
      /\ r.seq = r.omitted + Len(r.tail) /\ r.epoch <= r.seq
      /\ Linked(r.tail, r.omitted)
      /\ \A i \in 1..Len(r.tail) : r.tail[i].new <= r.epoch
      /\ Len(r.tail) = 0 <=> r.status = "uninitialized"
      /\ r.status = "uninitialized" => r.omitted = 0 /\ r.epoch = 0
  BY SoundTail
<1>1. PICK T, o, U, d : T = r.tail /\ o = r.omitted /\ U = w.tail /\ d = Dropped(r.tail, e)
  OBVIOUS
<1>2. /\ U \in Seq(Events) /\ Len(U) \in 1..AuditTailMax /\ Shifted(U, T, d, e)
  BY <1>0, <1>1, AfterShifts DEF Extends
<1>3. /\ w.omitted = o + d /\ w.seq = r.seq + 1 /\ w.updated = e.at /\ w.epoch = e.new
  BY <1>1 DEF Extends
<1>4. Linked(U, o + d)
  <2>1. /\ T \in Seq(Events) /\ o \in Nat /\ Linked(T, o) /\ e.seq = o + Len(T) + 1
    BY <1>0, <1>1
  <2>2. Len(T) > 0 => ValidSuccessor(T[Len(T)], e)
    BY <1>0, <1>1
  <2>3. Len(T) = 0 => o = 0 /\ e.action = "acquire" /\ e.old = 0
    BY <1>0, <1>1
  <2> QED BY <1>2, <2>1, <2>2, <2>3, LinkedAfter
<1>5. e.new \in Nat /\ r.epoch <= e.new
  BY <1>0
<1>6. \A i \in 1..Len(U) : U[i].new <= e.new
  <2>1. T \in Seq(Events) /\ r.epoch \in Nat /\ \A i \in 1..Len(T) : T[i].new <= r.epoch
    BY <1>0, <1>1
  <2>2. e.new <= e.new
    BY <1>5
  <2> QED BY <1>2, <1>5, <2>1, <2>2, BoundedAfter
<1>7. U[Len(U)] = e /\ Len(U) = Len(T) + 1 - d /\ d \in {0, 1}
  BY <1>2 DEF Shifted
<1>8. w.seq = w.omitted + Len(U)
  BY <1>0, <1>1, <1>3, <1>7
<1>9. 1 <= w.epoch /\ w.epoch <= w.seq
  <2>1. CASE r.status = "uninitialized"
    <3>1. e.new = e.old + 1
      BY <2>1 DEF ValidEvent
    <3> QED BY <1>0, <1>3, <2>1, <3>1
  <2>2. CASE r.status # "uninitialized"
    BY <1>0, <1>3, <2>2
  <2> QED BY <2>1, <2>2
<1>10. Trail(w)
  BY <1>1, <1>2, <1>3, <1>4, <1>6, <1>7, <1>8, <1>9 DEF Trail
<1> QED BY <1>1, <1>2, <1>7, <1>10

(* acquire and takeover *)
LEMMA GrantedSound ==
    ASSUME NEW r, Sound(r), NEW at \in Times, NEW s \in Sessions, NEW ps \in Sessions \cup {NoSession},
           NEW f \in BOOLEAN, NEW t \in Tokens, t # 0, NEW ttl \in TTLs, NEW a,
           \/ a = "acquire" /\ ps = NoSession /\ f = FALSE /\ r.status # "active"
           \/ a = "takeover" /\ ps = r.session /\ ps \in Sessions /\ r.status = "active",
           r.status # "uninitialized" => r.updated <= at
    PROVE  Sound(Granted(r, a, at, s, ps, f, t, ttl))
<1>0. /\ r \in Records /\ r.epoch \in Nat /\ a \in Actions /\ r.epoch + 1 \in Epochs
      /\ \A i \in 1..Len(r.tail) : r.tail[i].new <= r.epoch
      /\ r.tail \in Seq(Events)
  BY SoundTail DEF Actions, Epochs
<1>1. PICK n, v, e : /\ n = r.epoch + 1 /\ v = WithEvent(r, a, at, n, s, ps, f)
                     /\ e = EventOf(r, a, at, n, s, ps, f)
  OBVIOUS
<1>2. n \in Epochs
  BY <1>0, <1>1
<1>3. e \in Events /\ Extends(v, r, e) /\ v \in Records
  BY <1>0, <1>1, <1>2, WithEventExtends, WithEventType
<1>4. /\ e.seq = r.seq + 1 /\ e.old = r.epoch /\ e.new = n /\ e.action = a /\ e.at = at
      /\ e.session = s /\ e.previous = ps /\ e.forced = f
  BY <1>1 DEF EventOf
<1>5. PICK w : w = Granted(r, a, at, s, ps, f, t, ttl)
  OBVIOUS
<1>6. ttl \in Nat /\ at \in Nat
  BY ChiefAssumption DEF Times
<1>7. PICK x : x = at + ttl
  OBVIOUS
<1>8. x \in Times /\ x - at = ttl
  BY <1>6, <1>7 DEF Times
<1>9. w = [v EXCEPT !.status = "active", !.session = s, !.token = t, !.issued = at, !.renewed = at,
                    !.expires = x, !.renewals = 0]
  BY <1>1, <1>5, <1>7 DEF Granted
<1>10. /\ w.status = "active" /\ w.session = s /\ w.token = t /\ w.issued = at
       /\ w.renewed = at /\ w.expires = x /\ w.renewals = 0
       /\ w.tail = v.tail /\ w.omitted = v.omitted /\ w.seq = v.seq /\ w.updated = v.updated
       /\ w.epoch = v.epoch
  BY <1>3, <1>9 DEF Records
<1>11. w \in Records
  BY <1>0, <1>5, <1>6, GrantedType, Zenon
<1>12. Extends(w, r, e)
  BY <1>3, <1>10 DEF Extends
<1>13. ValidEvent(e)
  <2>1. e.new = e.old + 1
    BY <1>1, <1>4
  <2> QED BY <1>4, <2>1, ChiefAssumption DEF ValidEvent
<1>14. r.status # "uninitialized" => ValidSuccessor(r.tail[Len(r.tail)], e) /\ r.epoch >= 1
  <2> SUFFICES ASSUME r.status # "uninitialized"
               PROVE  ValidSuccessor(r.tail[Len(r.tail)], e) /\ r.epoch >= 1
    OBVIOUS
  <2>1. PICK l : l = r.tail[Len(r.tail)]
    OBVIOUS
  <2>2. Trail(r)
    BY DEF Sound
  <2>3. /\ l.new = r.epoch /\ l.at = r.updated /\ r.epoch >= 1
        /\ l.seq = r.omitted + Len(r.tail)
    BY <2>1, <2>2, <1>0 DEF Trail, Linked
  <2>4. e.seq = l.seq + 1 /\ e.old = l.new /\ l.at <= e.at
    BY <1>4, <2>2, <2>3 DEF Trail
  <2>5. CASE r.status = "active"
    <3>1. r.session = l.session /\ l.action \in {"acquire", "renew", "takeover"}
      BY <2>1, <2>5 DEF Sound, Holds
    <3>2. l.action # "release" /\ e.action # "acquire" /\ e.previous = l.session
      BY <1>4, <2>5, <3>1
    <3> QED BY <2>1, <2>3, <2>4, <3>2 DEF ValidSuccessor
  <2>6. CASE r.status # "active"
    <3>1. r.status = "inactive"
      BY <1>0, <2>6 DEF Records
    <3>2. l.action = "release" /\ e.action = "acquire"
      BY <1>4, <2>1, <2>6, <3>1 DEF Sound, ValidInactive
    <3> QED BY <2>1, <2>3, <2>4, <3>2 DEF ValidSuccessor
  <2> QED BY <2>5, <2>6
<1>15. r.status = "uninitialized" => e.action = "acquire"
  BY <1>4
<1>16. e.new \in {r.epoch, r.epoch + 1}
  BY <1>1, <1>4
<1>17. /\ Trail(w) /\ w.tail \in Seq(Events) /\ w.tail[Len(w.tail)] = e
       /\ \E d : Shifted(w.tail, r.tail, d, e)
  BY <1>3, <1>4, <1>11, <1>12, <1>13, <1>14, <1>15, <1>16, TrailExtended
<1>18. Opened(w.tail, r.epoch + 1, 0, e.at)
  <2>1. e.action \in {"acquire", "takeover"} /\ e.new = r.epoch + 1
    BY <1>1, <1>4
  <2> QED BY <1>0, <1>3, <1>17, <2>1, OpenedGrant
<1>19. Opened(w.tail, w.epoch, w.renewals, w.issued)
  <2>1. w.epoch = r.epoch + 1 /\ w.renewals = 0 /\ w.issued = e.at
    BY <1>1, <1>4, <1>10, <1>12 DEF Extends
  <2> QED BY <1>18, <2>1
<1>20. Holds(w, e)
  <2>1. w.issued <= w.renewed
    BY <1>6, <1>10
  <2>2. w.expires - w.renewed \in TTLs
    BY <1>8, <1>10
  <2>3. w.renewed = w.updated
    BY <1>4, <1>10, <1>12 DEF Extends
  <2> QED BY <1>4, <1>10, <1>19, <2>1, <2>2, <2>3 DEF Holds
<1> QED BY <1>5, <1>10, <1>11, <1>17, <1>20 DEF Sound

(* The event of a renewal or a release follows the last one of its lease.   *)
LEMMA LeaseContinues ==
    ASSUME NEW r, Sound(r), r.status = "active", r.session \in Sessions,
           NEW at \in Times, r.updated <= at, NEW a \in {"renew", "release"},
           NEW w \in Records, Extends(w, r, EventOf(r, a, at, r.epoch, r.session, r.session, FALSE))
    PROVE  LET e == EventOf(r, a, at, r.epoch, r.session, r.session, FALSE) IN
           /\ Trail(w) /\ w.tail \in Seq(Events) /\ w.tail[Len(w.tail)] = e
           /\ \E d : Shifted(w.tail, r.tail, d, e)
           /\ e \in Events /\ w.epoch = r.epoch /\ w.updated = at
<1>1. PICK e : e = EventOf(r, a, at, r.epoch, r.session, r.session, FALSE)
  OBVIOUS
<1>2. r \in Records /\ r.epoch \in Nat /\ r.seq \in Nat
  BY SoundTail
<1>3. e \in Events
  BY <1>1, <1>2 DEF EventOf, Events, Actions, Epochs, Times
<1>4. /\ e.seq = r.seq + 1 /\ e.old = r.epoch /\ e.new = r.epoch /\ e.action = a /\ e.at = at
      /\ e.session = r.session /\ e.previous = r.session /\ e.forced = FALSE
  BY <1>1 DEF EventOf
<1>5. ValidEvent(e)
  BY <1>4 DEF ValidEvent
<1>6. PICK l : l = r.tail[Len(r.tail)]
  OBVIOUS
<1>7. Trail(r) /\ r.session = l.session /\ l.action \in {"acquire", "renew", "takeover"}
  BY <1>6 DEF Sound, Holds
<1>8. /\ l.new = r.epoch /\ l.at = r.updated /\ r.epoch >= 1
      /\ l.seq = r.omitted + Len(r.tail)
  BY <1>6, <1>7, SoundTail DEF Trail, Linked
<1>9. ValidSuccessor(l, e)
  <2>1. e.seq = l.seq + 1 /\ e.old = l.new /\ l.at <= e.at
    BY <1>4, <1>7, <1>8 DEF Trail
  <2>2. l.action # "release" /\ e.action # "acquire" /\ e.previous = l.session
    BY <1>4, <1>7
  <2> QED BY <2>1, <2>2 DEF ValidSuccessor
<1>10. Extends(w, r, e)
  BY <1>1
<1>11. /\ Trail(w) /\ w.tail \in Seq(Events) /\ w.tail[Len(w.tail)] = e
       /\ \E d : Shifted(w.tail, r.tail, d, e)
  BY <1>3, <1>4, <1>5, <1>6, <1>8, <1>9, <1>10, TrailExtended
<1>12. w.epoch = r.epoch /\ w.updated = at
  BY <1>4, <1>10 DEF Extends
<1> QED BY <1>1, <1>3, <1>11, <1>12

LEMMA RenewedSound ==
    ASSUME NEW r, Sound(r), r.status = "active", r.session \in Sessions,
           NEW at \in Times, r.updated <= at, NEW ttl \in TTLs
    PROVE  Sound(Renewed(r, at, ttl))
<1>1. PICK a, n, s, no, v, e : /\ a = "renew" /\ n = r.epoch /\ s = r.session /\ no = FALSE
                               /\ v = WithEvent(r, a, at, n, s, s, no)
                               /\ e = EventOf(r, a, at, n, s, s, no)
  OBVIOUS
<1>2. /\ r \in Records /\ a \in Actions /\ n \in Epochs /\ s \in Sessions /\ s \in Sessions \cup {NoSession}
      /\ no \in BOOLEAN
  BY <1>1, SoundTail DEF Actions, Epochs
<1>3. e \in Events /\ Extends(v, r, e) /\ v.issued = r.issued /\ v.renewals = r.renewals
  BY <1>1, <1>2, WithEventExtends
<1>4. /\ v \in Records /\ v.status = r.status /\ v.token = r.token /\ v.session = r.session
  BY <1>1, <1>2, WithEventType
<1>5. ttl \in Nat /\ at \in Nat
  BY ChiefAssumption DEF Times
<1>6. PICK x : x = at + ttl
  OBVIOUS
<1>7. x \in Times /\ x - at = ttl
  BY <1>5, <1>6 DEF Times
<1>8. PICK w : w = Renewed(r, at, ttl)
  OBVIOUS
<1>9. w = [v EXCEPT !.renewed = at, !.expires = x, !.renewals = @ + 1]
  BY <1>1, <1>6, <1>8 DEF Renewed
<1>10. w \in Records
  BY <1>2, <1>5, <1>8, RenewedType
<1>11. /\ w.status = "active" /\ w.session = r.session /\ w.token = r.token /\ w.issued = r.issued
       /\ w.renewed = at /\ w.expires = x /\ w.renewals = r.renewals + 1
       /\ w.tail = v.tail /\ w.omitted = v.omitted /\ w.seq = v.seq /\ w.updated = v.updated
       /\ w.epoch = v.epoch
  BY <1>3, <1>4, <1>9 DEF Records
<1>12. Extends(w, r, EventOf(r, "renew", at, r.epoch, r.session, r.session, FALSE))
  BY <1>1, <1>3, <1>11 DEF Extends
<1>13. /\ Trail(w) /\ w.tail \in Seq(Events) /\ w.tail[Len(w.tail)] = e
       /\ \E d : Shifted(w.tail, r.tail, d, e)
       /\ w.epoch = r.epoch /\ w.updated = at
  BY ZenonT(40), <1>1, <1>10, <1>12, LeaseContinues
<1>14. /\ e.action = "renew" /\ e.new = r.epoch /\ e.session = r.session
  BY <1>1 DEF EventOf
<1>15. Holds(r, r.tail[Len(r.tail)])
  BY DEF Sound
<1>16. /\ r.tail \in Seq(Events) /\ r.epoch \in Nat /\ r.renewals \in Nat /\ r.issued \in Nat
       /\ r.renewed \in Nat
  BY <1>2 DEF Records, Epochs, Times
<1>17. Opened(w.tail, r.epoch, r.renewals + 1, r.issued)
  <2>1. Opened(r.tail, r.epoch, r.renewals, r.issued)
    BY <1>15 DEF Holds
  <2> QED BY <1>3, <1>13, <1>14, <1>16, <2>1, OpenedRenew
<1>18. Holds(w, e)
  <2>1. w.issued <= w.renewed
    <3>1. r.issued <= r.renewed /\ r.renewed <= at
      BY <1>15 DEF Holds
    <3> QED BY <1>5, <1>11, <1>16, <3>1
  <2>2. w.expires - w.renewed \in TTLs
    BY <1>7, <1>11
  <2>3. w.token # 0
    BY <1>11, <1>15 DEF Holds
  <2>4. Opened(w.tail, w.epoch, w.renewals, w.issued)
    BY <1>11, <1>13, <1>17
  <2>5. w.renewed = w.updated
    BY <1>11, <1>13
  <2> QED BY <1>11, <1>14, <2>1, <2>2, <2>3, <2>4, <2>5 DEF Holds
<1> QED BY <1>8, <1>10, <1>11, <1>13, <1>18 DEF Sound

LEMMA ReleasedSound ==
    ASSUME NEW r, Sound(r), r.status = "active", r.session \in Sessions,
           NEW at \in Times, r.updated <= at
    PROVE  Sound(Released(r, at))
<1>1. PICK a, n, s, no, v, e : /\ a = "release" /\ n = r.epoch /\ s = r.session /\ no = FALSE
                               /\ v = WithEvent(r, a, at, n, s, s, no)
                               /\ e = EventOf(r, a, at, n, s, s, no)
  OBVIOUS
<1>2. /\ r \in Records /\ a \in Actions /\ n \in Epochs /\ s \in Sessions /\ s \in Sessions \cup {NoSession}
      /\ no \in BOOLEAN
  BY <1>1, SoundTail DEF Actions, Epochs
<1>3. e \in Events /\ Extends(v, r, e)
  BY <1>1, <1>2, WithEventExtends
<1>4. v \in Records
  BY <1>1, <1>2, WithEventType
<1>5. PICK w : w = Released(r, at)
  OBVIOUS
<1>6. w = [v EXCEPT !.status = "inactive", !.session = NoSession, !.token = 0, !.issued = 0,
                    !.renewed = 0, !.expires = 0, !.renewals = 0]
  BY <1>1, <1>5 DEF Released
<1>7. w \in Records
  BY <1>2, <1>5, ReleasedType
<1>8. /\ w.status = "inactive" /\ w.session = NoSession /\ w.token = 0 /\ w.issued = 0
      /\ w.renewed = 0 /\ w.expires = 0 /\ w.renewals = 0
      /\ w.tail = v.tail /\ w.omitted = v.omitted /\ w.seq = v.seq /\ w.updated = v.updated
      /\ w.epoch = v.epoch
  BY <1>4, <1>6 DEF Records
<1>9. Extends(w, r, EventOf(r, "release", at, r.epoch, r.session, r.session, FALSE))
  BY <1>1, <1>3, <1>8 DEF Extends
<1>10. Trail(w) /\ w.tail[Len(w.tail)] = e
  BY <1>1, <1>7, <1>9, LeaseContinues
<1>11. e.action = "release"
  BY <1>1 DEF EventOf
<1> QED BY <1>5, <1>7, <1>8, <1>10, <1>11 DEF Sound, ValidInactive

-----------------------------------------------------------------------------
(* A sound record is a valid one *)

LEMMA OpenedCounts ==
    ASSUME NEW r \in Records, Opened(r.tail, r.epoch, r.renewals, r.issued)
    PROVE  IF Origins(r) = {}
             THEN r.renewals >= VisibleRenewals(r)
             ELSE /\ r.renewals = VisibleRenewals(r)
                  /\ \A i \in Origins(r) : (\A j \in Origins(r) : j <= i)
                                              => r.issued = r.tail[i].at
<1>1. PICK T, n, k, L : T = r.tail /\ n = r.epoch /\ k = r.renewals /\ L = Len(T)
  OBVIOUS
<1>2. T \in Seq(Events) /\ n \in Nat /\ k \in Nat /\ L \in Nat
  BY <1>1 DEF Records, Epochs
<1>3. /\ \A i \in 1..L : i > L - k => T[i].action = "renew" /\ T[i].new = n
      /\ \A i \in 1..L : i = L - k =>
             T[i].action \in {"acquire", "takeover"} /\ T[i].new = n /\ T[i].at = r.issued
      /\ \A i \in 1..L : i < L - k => T[i].new < n
  BY <1>1 DEF Opened
<1>4. ASSUME NEW i \in 1..L, i < L - k PROVE T[i].new # n
  <2>1. T[i] \in Events
    BY <1>1, <1>2
  <2>2. PICK x \in Nat : x = T[i].new
    BY <2>1, EventNumbers
  <2>3. x < n
    BY <1>3, <1>4, <2>2
  <2>4. x # n
    BY <1>2, <2>3
  <2> QED BY <2>2, <2>4
<1>5. \A i \in 1..L : i < L - k \/ i = L - k \/ i > L - k
  BY <1>2
<1>6. Origins(r) = {i \in 1..L : i = L - k}
  <2>1. Origins(r) = {i \in 1..L : T[i].action \in {"acquire", "takeover"} /\ T[i].new = n}
    BY <1>1 DEF Origins
  <2>2. ASSUME NEW i \in 1..L
        PROVE  T[i].action \in {"acquire", "takeover"} /\ T[i].new = n <=> i = L - k
    <3>1. CASE i < L - k
      BY <1>2, <1>4, <3>1
    <3>2. CASE i = L - k
      BY <1>3, <3>2
    <3>3. CASE i > L - k
      <4>1. T[i].action = "renew"
        BY <1>3, <3>3
      <4>2. i # L - k
        BY <1>2, <3>3
      <4> QED BY <4>1, <4>2
    <3> QED BY <1>5, <3>1, <3>2, <3>3
  <2> QED BY <2>1, <2>2
<1>7. PICK R : R = {i \in 1..L : /\ T[i].action = "renew" /\ T[i].new = n
                                 /\ \A j \in Origins(r) : j < i}
  OBVIOUS
<1>8. VisibleRenewals(r) = Cardinality(R)
  BY <1>1, <1>7 DEF VisibleRenewals
<1>9. R = {i \in 1..L : i > L - k}
  <2>1. ASSUME NEW i \in 1..L
        PROVE  (T[i].action = "renew" /\ T[i].new = n /\ \A j \in Origins(r) : j < i) <=> i > L - k
    <3>1. CASE i < L - k
      <4>1. ~(i > L - k)
        BY <1>2, <3>1
      <4> QED BY <1>4, <3>1, <4>1
    <3>2. CASE i = L - k
      <4>1. T[i].action \in {"acquire", "takeover"}
        BY <1>3, <3>2
      <4>2. ~(i > L - k)
        BY <1>2, <3>2
      <4> QED BY <4>1, <4>2
    <3>3. CASE i > L - k
      <4>1. T[i].action = "renew" /\ T[i].new = n
        BY <1>3, <3>3
      <4>2. ASSUME NEW j \in Origins(r) PROVE j < i
        <5>1. j \in 1..L /\ j = L - k
          BY <1>6
        <5> QED BY <1>2, <3>3, <5>1
      <4> QED BY <3>3, <4>1, <4>2
    <3> QED BY <1>5, <3>1, <3>2, <3>3
  <2> QED BY <1>7, <2>1
<1>10. CASE L - k >= 1
  <2>1. Origins(r) = {L - k}
    <3>1. L - k \in 1..L
      BY <1>2, <1>10
    <3> QED BY <1>6, <3>1
  <2>2. R = (L - k + 1)..L
    BY <1>2, <1>9, <1>10
  <2>3. L - k + 1 \in Int /\ L \in Int /\ ~(L - k + 1 > L + 1) /\ L - (L - k + 1) + 1 = k
    BY <1>2
  <2>4. Cardinality(R) = k
    <3>1. PICK lo \in Int : lo = L - k + 1
      BY <2>3
    <3>2. Cardinality(lo..L) = IF lo > L THEN 0 ELSE L - lo + 1
      BY <1>2, <3>1, FS_Interval
    <3>3. lo > L => k = 0
      BY <1>2, <3>1
    <3>4. L - lo + 1 = k
      BY <1>2, <3>1
    <3> QED BY <2>2, <3>1, <3>2, <3>3, <3>4
  <2>5. \A i \in Origins(r) : r.issued = r.tail[i].at
    <3>1. L - k \in 1..L
      BY <1>2, <1>10
    <3> QED BY <1>1, <1>3, <2>1, <3>1
  <2>6. Origins(r) # {}
    BY <2>1
  <2> QED BY <1>1, <1>8, <2>4, <2>5, <2>6
<1>11. CASE ~(L - k >= 1)
  <2>1. Origins(r) = {}
    BY <1>2, <1>6, <1>11
  <2>2. R = 1..L
    BY <1>2, <1>9, <1>11
  <2>3. Cardinality(R) = L
    <3>1. Cardinality(1..L) = IF 1 > L THEN 0 ELSE L - 1 + 1
      BY <1>2, FS_Interval
    <3> QED BY <1>2, <2>2, <3>1
  <2>4. k >= L
    BY <1>2, <1>11
  <2> QED BY <1>1, <1>8, <2>1, <2>3, <2>4
<1> QED BY <1>10, <1>11

LEMMA SoundValid ==
    ASSUME NEW r, Sound(r), r.status # "uninitialized"
    PROVE  ValidRecord(r)
<1>1. r \in Records /\ Trail(r) /\ r.status \in {"active", "inactive"}
  BY DEF Sound, Records
<1>2. PICK l : l = r.tail[Len(r.tail)]
  OBVIOUS
<1>3. /\ Len(r.tail) \in 1..AuditTailMax /\ r.seq = r.omitted + Len(r.tail) /\ r.epoch <= r.seq
      /\ Linked(r.tail, r.omitted) /\ l.new = r.epoch /\ l.at = r.updated
  BY <1>1, <1>2 DEF Trail
<1>4. r.epoch >= 1
  BY <1>1 DEF Trail, Records, Epochs
<1>5. 1 \in 1..Len(r.tail) /\ Len(r.tail) > 0
  BY <1>3, ChiefAssumption
<1>6. /\ \A i \in 1..Len(r.tail) : ValidEvent(r.tail[i])
      /\ \A i \in 1..(Len(r.tail) - 1) : ValidSuccessor(r.tail[i], r.tail[i + 1])
      /\ r.tail[1].seq = r.omitted + 1
      /\ r.omitted = 0 => r.tail[1].action = "acquire" /\ r.tail[1].old = 0
  BY <1>3, <1>5 DEF Linked
<1>7. IF r.status = "active" THEN ValidActive(r, l) ELSE ValidInactive(r, l)
  <2>1. CASE r.status = "active"
    <3>1. Holds(r, l)
      BY <1>2, <2>1 DEF Sound
    <3>2. Opened(r.tail, r.epoch, r.renewals, r.issued)
      BY <3>1 DEF Holds
    <3>3. IF Origins(r) = {}
            THEN r.renewals >= VisibleRenewals(r)
            ELSE /\ r.renewals = VisibleRenewals(r)
                 /\ \A i \in Origins(r) : (\A j \in Origins(r) : j <= i)
                                             => r.issued = r.tail[i].at
      BY <1>1, <3>2, OpenedCounts
    <3> QED BY <2>1, <3>1, <3>3 DEF Holds, ValidActive
  <2>2. CASE r.status # "active"
    BY <1>1, <1>2, <2>2 DEF Sound
  <2> QED BY <2>1, <2>2
<1> QED BY <1>1, <1>2, <1>3, <1>4, <1>6, <1>7 DEF ValidRecord

-----------------------------------------------------------------------------
(* The steps *)

WorkSound(p) == pc[p] \in {"stage", "publish"} =>
                    Sound(work[p]) /\ work[p].status # "uninitialized"
RequestLasts(p) == pc[p] # "idle" /\ req[p].cmd \in {"acquire", "takeover", "renew"} =>
                       req[p].ttl \in TTLs

AuditInv ==
    /\ Sound(authority)
    /\ \A p \in Procs : WorkSound(p) /\ RequestLasts(p)

LEMMA NotEarlier ==
    ASSUME NEW now \in Times, NEW ref \in Times
    PROVE  NotBefore(now, ref) \in Times /\ ref <= NotBefore(now, ref)
  BY DEF NotBefore, Times

LEMMA RequestsLast ==
    ASSUME NEW q \in Requests, q.cmd \in {"acquire", "takeover", "renew"}
    PROVE  q.ttl \in TTLs
<1>1. CASE \E k \in creds : q \in CredentialRequests(k)
  <2>1. PICK k \in creds : q \in CredentialRequests(k)
    BY <1>1
  <2>2. q.ttl \in TTLs \/ q.cmd \in {"release", "mutate"}
    BY <2>1 DEF CredentialRequests
  <2> QED BY <2>2
<1>2. CASE \A k \in creds : q \notin CredentialRequests(k)
  <2>1. q \notin UNION {CredentialRequests(k) : k \in creds}
    BY <1>2
  <2> QED BY <2>1 DEF Requests
<1> QED BY <1>1, <1>2

LEMMA AdmitAcquireSound ==
    ASSUME IInv, AuditInv, NEW p \in Procs, AdmitAcquire(p)
    PROVE  Sound(work'[p]) /\ work'[p].status # "uninitialized"
<1>1. /\ authority \in Records /\ clock \in Times /\ nextToken \in Tokens /\ nextToken # 0
      /\ req[p].session \in Sessions /\ req[p].ttl \in TTLs /\ Sound(authority)
  BY DEF IInv, TypeOK, RequestNamed, AuditInv, RequestLasts, AdmitAcquire, Tokens
<1>2. authority.updated \in Times
  BY <1>1 DEF Records
<1>3. PICK at, a, no, none :
         at = NotBefore(clock, authority.updated) /\ a = "acquire" /\ no = FALSE /\ none = NoSession
  OBVIOUS
<1>4. at \in Times /\ authority.updated <= at
  BY <1>1, <1>2, <1>3, NotEarlier
<1>5. authority.status # "active"
  BY DEF AdmitAcquire, Acquirable
<1>6. PICK w : w = Granted(authority, a, at, req[p].session, none, no, nextToken, req[p].ttl)
  OBVIOUS
<1>7. Sound(w)
  BY <1>1, <1>3, <1>4, <1>5, <1>6, GrantedSound
<1>8. work'[p] = w
  BY <1>3, <1>6 DEF AdmitAcquire, IInv, TypeOK
<1>9. work'[p].status = "active"
  BY GrantAdmitted DEF IInv
<1> QED BY <1>7, <1>8, <1>9

LEMMA AdmitTakeoverSound ==
    ASSUME IInv, AuditInv, NEW p \in Procs, AdmitTakeover(p)
    PROVE  Sound(work'[p]) /\ work'[p].status # "uninitialized"
<1>1. /\ authority \in Records /\ clock \in Times /\ nextToken \in Tokens /\ nextToken # 0
      /\ req[p].session \in Sessions /\ req[p].ttl \in TTLs /\ Sound(authority)
  BY DEF IInv, TypeOK, RequestNamed, AuditInv, RequestLasts, AdmitTakeover, Tokens
<1>2. authority.status = "active" /\ authority.session \in Sessions
  BY DEF AdmitTakeover, TakeoverAllowed, IInv, EpochHighest
<1>3. authority.renewed \in Times /\ authority.renewed = authority.updated
  BY <1>1, <1>2 DEF Records, Sound, Holds
<1>4. PICK at, a, f, s : /\ at = NotBefore(clock, authority.renewed) /\ a = "takeover"
                         /\ f = LiveAt(clock) /\ s = authority.session
  OBVIOUS
<1>5. at \in Times /\ authority.updated <= at
  BY <1>1, <1>3, <1>4, NotEarlier
<1>6. f \in BOOLEAN /\ s \in Sessions \cup {NoSession}
  BY <1>2, <1>4 DEF LiveAt
<1>7. PICK w : w = Granted(authority, a, at, req[p].session, s, f, nextToken, req[p].ttl)
  OBVIOUS
<1>8. Sound(w)
  BY <1>1, <1>2, <1>4, <1>5, <1>6, <1>7, GrantedSound
<1>9. work'[p] = w
  BY <1>4, <1>7 DEF AdmitTakeover, IInv, TypeOK
<1>10. work'[p].status = "active"
  BY GrantAdmitted DEF IInv
<1> QED BY <1>8, <1>9, <1>10

LEMMA AdmitRenewSound ==
    ASSUME IInv, AuditInv, NEW p \in Procs, AdmitRenew(p) \/ AdmitRelease(p)
    PROVE  Sound(work'[p]) /\ work'[p].status # "uninitialized"
<1>1. authority \in Records /\ clock \in Times /\ Sound(authority)
  BY DEF IInv, TypeOK, AuditInv
<1>2. authority.status = "active" /\ authority.session \in Sessions
  BY DEF AdmitRenew, AdmitRelease, Authenticates, IInv, EpochHighest
<1>3. authority.renewed \in Times /\ authority.renewed = authority.updated
  BY <1>1, <1>2 DEF Records, Sound, Holds
<1>4. PICK at : at = NotBefore(clock, authority.renewed)
  OBVIOUS
<1>5. at \in Times /\ authority.updated <= at
  BY <1>1, <1>3, <1>4, NotEarlier
<1>6. work'[p].status # "uninitialized"
  BY RenewAdmitted DEF IInv
<1>7. CASE AdmitRenew(p)
  <2>1. req[p].ttl \in TTLs
    BY <1>7 DEF AuditInv, RequestLasts, AdmitRenew
  <2>2. Sound(Renewed(authority, at, req[p].ttl))
    BY <1>1, <1>2, <1>5, <2>1, RenewedSound
  <2>3. work'[p] = Renewed(authority, at, req[p].ttl)
    BY <1>4, <1>7 DEF AdmitRenew, IInv, TypeOK
  <2> QED BY <1>6, <2>2, <2>3
<1>8. CASE AdmitRelease(p)
  <2>1. Sound(Released(authority, at))
    BY <1>1, <1>2, <1>5, ReleasedSound
  <2>2. work'[p] = Released(authority, at)
    BY <1>4, <1>8 DEF AdmitRelease, IInv, TypeOK
  <2> QED BY <1>6, <2>1, <2>2
<1> QED BY <1>7, <1>8

LEMMA WorkSoundStep ==
    ASSUME IInv, AuditInv, [Next]_vars, NEW p \in Procs
    PROVE  WorkSound(p)'
<1>0. /\ WorkSound(p) /\ pc \in [Procs -> PCs] /\ req \in [Procs -> RequestTypes]
      /\ work \in [Procs -> Records]
  BY DEF AuditInv, IInv, TypeOK
<1>1. ASSUME NEW q \in Procs, AdmitAcquire(q) \/ AdmitTakeover(q) \/ AdmitRenew(q) \/ AdmitRelease(q)
      PROVE  WorkSound(p)'
  <2>1. CASE q = p
    BY <1>1, <2>1, AdmitAcquireSound, AdmitTakeoverSound, AdmitRenewSound DEF WorkSound
  <2>2. CASE q # p
    <3>1. pc'[p] = pc[p] /\ work'[p] = work[p]
      BY <1>0, <1>1, <2>2 DEF AdmitAcquire, AdmitTakeover, AdmitRenew, AdmitRelease
    <3> QED BY <1>0, <3>1 DEF WorkSound
  <2> QED BY <2>1, <2>2
<1>2. ASSUME NEW q \in Procs,
             \/ Invoke(q) \/ AcquireLock(q) \/ AdmitMutate(q) \/ Refuse(q) \/ Stage(q) \/ Publish(q)
             \/ PublishFailsBefore(q) \/ PublishFailsAfter(q) \/ RemoveCredential(q)
             \/ HandlerReturn(q) \/ HandlerWrite(q) \/ ReleaseLock(q) \/ Crash(q)
      PROVE  WorkSound(p)'
  <2>1. /\ pc'[p] \in {"stage", "publish"} => pc[p] \in {"stage", "publish"}
        /\ pc'[p] \in {"stage", "publish"} => work'[p] = work[p]
    <3>1. CASE q = p
      BY <1>0, <1>2, <3>1 DEF Invoke, AcquireLock, AdmitMutate, Refuse, Stage, Publish,
         PublishFailsBefore, PublishFailsAfter, RemoveCredential, HandlerReturn, HandlerWrite,
         ReleaseLock, Crash
    <3>2. CASE q # p
      BY <1>0, <1>2, <3>2 DEF Invoke, AcquireLock, AdmitMutate, Refuse, Stage, Publish,
         PublishFailsBefore, PublishFailsAfter, RemoveCredential, HandlerReturn, HandlerWrite,
         ReleaseLock, Crash
    <3> QED BY <3>1, <3>2
  <2> QED BY <1>0, <2>1 DEF WorkSound
<1>3. CASE SetClock \/ UNCHANGED vars
  BY <1>0, <1>3 DEF SetClock, vars, WorkSound
<1> QED BY <1>1, <1>2, <1>3 DEF Next, Proceed, Admit

LEMMA RequestLastsStep ==
    ASSUME IInv, AuditInv, [Next]_vars, NEW p \in Procs
    PROVE  RequestLasts(p)'
<1>0. /\ RequestLasts(p) /\ pc \in [Procs -> PCs] /\ req \in [Procs -> RequestTypes]
  BY DEF AuditInv, IInv, TypeOK
<1>1. ASSUME NEW q \in Procs, Invoke(q)
      PROVE  RequestLasts(p)'
  <2>1. PICK x \in Requests : req' = [req EXCEPT ![q] = x]
    BY <1>1 DEF Invoke
  <2>2. CASE q = p
    <3>1. req'[p] = x
      BY <1>0, <2>1, <2>2
    <3> QED BY <3>1, RequestsLast DEF RequestLasts
  <2>3. CASE q # p
    <3>1. req'[p] = req[p] /\ pc'[p] = pc[p]
      BY <1>0, <1>1, <2>1, <2>3 DEF Invoke
    <3> QED BY <1>0, <3>1 DEF RequestLasts
  <2> QED BY <2>2, <2>3
<1>2. ASSUME NEW q \in Procs,
             \/ AcquireLock(q) \/ Admit(q) \/ Stage(q) \/ Publish(q)
             \/ PublishFailsBefore(q) \/ PublishFailsAfter(q) \/ RemoveCredential(q)
             \/ HandlerReturn(q) \/ HandlerWrite(q)
      PROVE  RequestLasts(p)'
  <2>1. req' = req /\ pc[q] # "idle" /\ \A z \in Procs : z # q => pc'[z] = pc[z]
    BY <1>0, <1>2 DEF AcquireLock, Admit, AdmitAcquire, AdmitTakeover, AdmitRenew, AdmitRelease,
       AdmitMutate, Refuse, Stage, Publish, PublishFailsBefore, PublishFailsAfter,
       RemoveCredential, HandlerReturn, HandlerWrite
  <2> QED BY <1>0, <2>1 DEF RequestLasts
<1>3. ASSUME NEW q \in Procs, ReleaseLock(q) \/ Crash(q)
      PROVE  RequestLasts(p)'
  <2>1. CASE q = p
    <3>1. pc'[p] = "idle"
      BY <1>0, <1>3, <2>1 DEF ReleaseLock, Crash
    <3> QED BY <3>1 DEF RequestLasts
  <2>2. CASE q # p
    <3>1. req'[p] = req[p] /\ pc'[p] = pc[p]
      BY <1>0, <1>3, <2>2 DEF ReleaseLock, Crash
    <3> QED BY <1>0, <3>1 DEF RequestLasts
  <2> QED BY <2>1, <2>2
<1>4. CASE SetClock \/ UNCHANGED vars
  BY <1>0, <1>4 DEF SetClock, vars, RequestLasts
<1> QED BY <1>1, <1>2, <1>3, <1>4 DEF Next, Proceed

LEMMA AuthoritySoundStep ==
    ASSUME IInv, AuditInv, [Next]_vars
    PROVE  Sound(authority)'
<1>1. ASSUME NEW p \in Procs, Publish(p) \/ PublishFailsAfter(p)
      PROVE  Sound(authority)'
  <2>1. authority' = work[p] /\ Sound(work[p])
    BY <1>1 DEF Publish, PublishFailsAfter, AuditInv, WorkSound
  <2> QED BY <2>1 DEF Sound, Trail, Linked, Holds, Opened
<1>2. CASE authority' = authority
  <2>1. Sound(authority)
    BY DEF AuditInv
  <2> QED BY <1>2, <2>1 DEF Sound
<1>3. ASSUME NEW p \in Procs,
             \/ Invoke(p) \/ AcquireLock(p) \/ Admit(p) \/ Stage(p) \/ PublishFailsBefore(p)
             \/ RemoveCredential(p) \/ HandlerReturn(p) \/ HandlerWrite(p) \/ ReleaseLock(p) \/ Crash(p)
      PROVE  authority' = authority
  BY <1>3 DEF Invoke, AcquireLock, Admit, AdmitAcquire, AdmitTakeover, AdmitRenew, AdmitRelease,
     AdmitMutate, Refuse, Stage, PublishFailsBefore, RemoveCredential, HandlerReturn,
     HandlerWrite, ReleaseLock, Crash
<1>4. CASE SetClock \/ UNCHANGED vars
  BY <1>2, <1>4 DEF SetClock, vars
<1> QED BY <1>1, <1>2, <1>3, <1>4 DEF Next, Proceed

LEMMA AuditInvariance == Spec => []AuditInv
<1>1. Init => AuditInv
  <2> SUFFICES ASSUME Init PROVE AuditInv
    OBVIOUS
  <2>1. authority = NoRecord /\ authority \in Records
    BY InitInv DEF Init, IInv, TypeOK
  <2>2. authority.status = "uninitialized"
    BY <2>1 DEF NoRecord
  <2>3. Sound(authority)
    BY <2>1, <2>2 DEF Sound
  <2> QED BY <2>3 DEF Init, AuditInv, WorkSound, RequestLasts
<1>2. IInv /\ AuditInv /\ [Next]_vars => AuditInv'
  <2> SUFFICES ASSUME IInv, AuditInv, [Next]_vars PROVE AuditInv'
    OBVIOUS
  <2>1. Sound(authority)'
    BY AuthoritySoundStep
  <2>2. ASSUME NEW p \in Procs PROVE WorkSound(p)' /\ RequestLasts(p)'
    BY WorkSoundStep, RequestLastsStep
  <2> QED BY <2>1, <2>2 DEF AuditInv
<1> QED BY <1>1, <1>2, Invariance, PTL DEF Spec

(* Every record that acquire, takeover, renew and release build is one that *)
(* validate_chief_authority_record accepts, however long the history, when  *)
(* the audit tail has dropped its oldest events and when the clock was set  *)
(* back: the lease can always be published and read back.                   *)
THEOREM RecordsPublishable == Spec => []PublishableRecord
<1>1. AuditInv => PublishableRecord
  BY SoundValid DEF AuditInv, WorkSound, PublishableRecord
<1> QED BY <1>1, AuditInvariance, PTL
=============================================================================
