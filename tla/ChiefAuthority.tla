--------------------------- MODULE ChiefAuthority ---------------------------
(***************************************************************************)
(* The Chief lease of an AOI project: the record .aoi/chief-authority.json, *)
(* the credential files kept outside the repository, and the CLI processes  *)
(* that serialize on the project state lock.                                *)
(*                                                                          *)
(* A process is invoked with a request fixed on its command line, waits for *)
(* the platform lock, judges the request against the record it then reads,  *)
(* and writes.  A lease transition stages the new credential before it      *)
(* publishes the new record; every other fenced command runs its handler    *)
(* with the lock still held.  A process may be killed between any two       *)
(* steps: the operating system drops its lock, its files stay.              *)
(*                                                                          *)
(* Times are integers, digests are fresh natural numbers (0 stands for the  *)
(* empty string of an inactive record) and one record field that the        *)
(* program never branches on, the textual reason, is left out.              *)
(***************************************************************************)
EXTENDS Integers, Sequences, FiniteSets

CONSTANTS
    Procs,          \* CLI processes
    Sessions,       \* Chief session ids
    NoProc,         \* the free state lock
    NoSession,      \* the empty session id of an inactive record
    TTLs,           \* lease durations --ttl-seconds may ask for
    Skew,           \* CHIEF_CLOCK_SKEW_TOLERANCE_SECONDS
    AuditTailMax,   \* CHIEF_AUDIT_TAIL_MAX
    MaxClock,       \* bound: latest wall-clock reading
    MaxToken,       \* bound: secrets ever drawn
    MaxSeq,         \* bound: lease transitions
    MaxWrites       \* bound: writes made by fenced handlers

ASSUME ChiefAssumption ==
    /\ NoProc \notin Procs
    /\ NoSession \notin Sessions
    /\ TTLs \subseteq Nat \ {0}
    /\ Skew \in Nat
    /\ AuditTailMax \in Nat \ {0}
    /\ MaxClock \in Nat
    /\ MaxToken \in Nat
    /\ MaxSeq \in Nat
    /\ MaxWrites \in Nat

VARIABLES
    authority,  \* chief-authority.json
    creds,      \* credential files on disk
    lock,       \* holder of .state.lock
    clock,      \* the wall clock every process reads
    pc,         \* where each process is
    req,        \* the request each process was invoked with
    work,       \* the record each process is about to publish
    nextToken,  \* the next secret new_chief_token draws
    granted,    \* history: every lease ever published
    writes      \* history: the lease each handler write was made under

vars == <<authority, creds, lock, clock, pc, req, work, nextToken,
          granted, writes>>

-----------------------------------------------------------------------------
(* Records *)

Lease(e, s, t) == [epoch |-> e, session |-> s, token |-> t]

NoRecord ==
    [status |-> "uninitialized", epoch |-> 0, session |-> NoSession,
     token |-> 0, issued |-> 0, renewed |-> 0, expires |-> 0,
     renewals |-> 0, seq |-> 0, omitted |-> 0, tail |-> <<>>, updated |-> 0]

NoRequest == [cmd |-> "none", session |-> NoSession, epoch |-> 0,
              token |-> 0, byFile |-> FALSE, ttl |-> 0, force |-> FALSE]

LeaseOf(r) == Lease(r.epoch, r.session, r.token)

(* Fault: the jitter clamp forgotten *)
NotBeforeUnclamped(now, reference) == now

(* _chief_not_before: a clock behind the reference by at most the tolerance *)
(* reads as the reference; a larger rollback is refused.                    *)
ClockAccepted(now, reference) == reference - now <= Skew
NotBefore(now, reference) == IF now >= reference THEN now ELSE reference

(* _append_chief_event: the audit tail keeps the last AuditTailMax events   *)
(* and counts the ones it dropped.                                          *)
WithEvent(prev, action, at, epoch, session, old, forced) ==
    LET full == Append(prev.tail,
                       [seq |-> prev.seq + 1, action |-> action, at |-> at,
                        old |-> prev.epoch, new |-> epoch, session |-> session,
                        previous |-> old, forced |-> forced])
        over == Len(full) > AuditTailMax
    IN  [prev EXCEPT
            !.epoch = epoch, !.seq = @ + 1, !.updated = at,
            !.omitted = IF over THEN @ + 1 ELSE @,
            !.tail = IF over THEN Tail(full) ELSE full]

(* What acquire and takeover build: a new epoch with a new secret.          *)
Granted(prev, action, at, session, old, forced, token, ttl) ==
    [WithEvent(prev, action, at, prev.epoch + 1, session, old, forced)
        EXCEPT !.status = "active", !.session = session, !.token = token,
               !.issued = at, !.renewed = at, !.expires = at + ttl,
               !.renewals = 0]

Renewed(prev, at, ttl) ==
    [WithEvent(prev, "renew", at, prev.epoch, prev.session, prev.session,
               FALSE)
        EXCEPT !.renewed = at, !.expires = at + ttl, !.renewals = @ + 1]

Released(prev, at) ==
    [WithEvent(prev, "release", at, prev.epoch, prev.session, prev.session,
               FALSE)
        EXCEPT !.status = "inactive", !.session = NoSession, !.token = 0,
               !.issued = 0, !.renewed = 0, !.expires = 0, !.renewals = 0]

-----------------------------------------------------------------------------
(* validate_chief_authority_record: what a record must satisfy to be        *)
(* written and to be read back.                                             *)

ValidEvent(e) ==
    /\ e.new = IF e.action \in {"acquire", "takeover"} THEN e.old + 1 ELSE e.old
    /\ e.forced => e.action = "takeover"
    /\ e.action = "acquire" => e.previous = NoSession
    /\ e.action \in {"renew", "release"} => e.previous = e.session
    /\ e.action = "takeover" => e.previous # NoSession

ValidSuccessor(e, f) ==
    /\ e.at <= f.at
    /\ f.seq = e.seq + 1
    /\ f.old = e.new
    /\ IF e.action = "release"
         THEN f.action = "acquire"
         ELSE f.action # "acquire" /\ f.previous = e.session

(* The renewals of the current epoch that the tail still shows, and the     *)
(* event that opened the epoch if it shows that too.                        *)
Origins(r) == {i \in 1..Len(r.tail) :
                 r.tail[i].action \in {"acquire", "takeover"}
                 /\ r.tail[i].new = r.epoch}
VisibleRenewals(r) ==
    Cardinality({i \in 1..Len(r.tail) :
                   /\ r.tail[i].action = "renew"
                   /\ r.tail[i].new = r.epoch
                   /\ \A j \in Origins(r) : j < i})

ValidActive(r, last) ==
    /\ r.session = last.session
    /\ r.token # 0
    /\ r.issued <= r.renewed
    /\ r.expires - r.renewed \in TTLs
    /\ r.renewed = r.updated
    /\ last.action \in {"acquire", "renew", "takeover"}
    /\ IF Origins(r) = {}
         THEN r.renewals >= VisibleRenewals(r)
         ELSE /\ r.renewals = VisibleRenewals(r)
              /\ \A i \in Origins(r) : (\A j \in Origins(r) : j <= i)
                                          => r.issued = r.tail[i].at

ValidInactive(r, last) ==
    /\ r.session = NoSession /\ r.token = 0 /\ r.renewals = 0
    /\ r.issued = 0 /\ r.renewed = 0 /\ r.expires = 0
    /\ last.action = "release"

ValidRecord(r) ==
    /\ r.status \in {"active", "inactive"}
    /\ r.epoch >= 1
    /\ Len(r.tail) \in 1..AuditTailMax
    /\ r.seq = r.omitted + Len(r.tail)
    /\ r.epoch <= r.seq
    /\ \A i \in 1..Len(r.tail) : ValidEvent(r.tail[i])
    /\ \A i \in 1..(Len(r.tail) - 1) :
          ValidSuccessor(r.tail[i], r.tail[i + 1])
    /\ r.tail[1].seq = r.omitted + 1
    /\ r.omitted = 0 => r.tail[1].action = "acquire" /\ r.tail[1].old = 0
    /\ LET last == r.tail[Len(r.tail)] IN
         /\ last.new = r.epoch
         /\ last.at = r.updated
         /\ IF r.status = "active" THEN ValidActive(r, last)
                                   ELSE ValidInactive(r, last)

-----------------------------------------------------------------------------
(* Initial state: an initialized project without a Chief *)

Init ==
    /\ authority = NoRecord
    /\ creds = {}
    /\ lock = NoProc
    /\ clock = 0
    /\ pc = [p \in Procs |-> "idle"]
    /\ req = [p \in Procs |-> NoRequest]
    /\ work = [p \in Procs |-> NoRecord]
    /\ nextToken = 1
    /\ granted = {}
    /\ writes = <<>>

-----------------------------------------------------------------------------
(* Invocation.  The arguments are read before the lock is waited for: a     *)
(* credential (from its file, or the plaintext token read from it) and the  *)
(* expected epoch of a takeover may be out of date when the lock is held.   *)

CredentialRequests(k) ==
    [cmd : {"renew"}, session : {k.session}, epoch : {k.epoch},
     token : {k.token}, byFile : BOOLEAN, ttl : TTLs, force : {FALSE}]
    \cup
    [cmd : {"release", "mutate"}, session : {k.session}, epoch : {k.epoch},
     token : {k.token}, byFile : BOOLEAN, ttl : {0}, force : {FALSE}]

Requests ==
    [cmd : {"acquire"}, session : Sessions, epoch : {0}, token : {0},
     byFile : {FALSE}, ttl : TTLs, force : {FALSE}]
    \cup
    [cmd : {"takeover"}, session : Sessions, epoch : 1..authority.epoch,
     token : {0}, byFile : {FALSE}, ttl : TTLs, force : BOOLEAN]
    \cup
    UNION {CredentialRequests(k) : k \in creds}

(* The bounds are applied when a request is made, so that an admitted       *)
(* request never stops half way.                                            *)
Pending(cmds) == Cardinality({q \in Procs : req[q].cmd \in cmds})
WithinBudget(r) ==
    /\ r.cmd \in {"acquire", "takeover"} =>
          nextToken + Pending({"acquire", "takeover"}) <= MaxToken
    /\ r.cmd # "mutate" =>
          authority.seq + Pending({"acquire", "takeover", "renew", "release"})
             < MaxSeq

Invoke(p) ==
    /\ pc[p] = "idle"
    /\ \E r \in Requests :
          WithinBudget(r) /\ req' = [req EXCEPT ![p] = r]
    /\ pc' = [pc EXCEPT ![p] = "waiting"]
    /\ UNCHANGED <<authority, creds, lock, clock, work, nextToken, granted,
                   writes>>

(* state_lock: the platform lock is exclusive across processes.             *)
AcquireLock(p) ==
    /\ pc[p] = "waiting"
    /\ lock = NoProc
    /\ lock' = p
    /\ pc' = [pc EXCEPT ![p] = "locked"]
    /\ UNCHANGED <<authority, creds, clock, req, work, nextToken, granted,
                   writes>>

-----------------------------------------------------------------------------
(* Judging the request against the record, with the lock held *)

(* Fault: the epoch and the secret not compared *)
AuthenticatesSession(r) ==
    /\ authority.status = "active"
    /\ authority.session = r.session
    /\ ClockAccepted(clock, authority.renewed)
    /\ authority.expires > NotBefore(clock, authority.renewed)

(* load_chief_credential and require_chief_authority *)
Authenticates(r) ==
    /\ authority.status = "active"
    /\ LeaseOf(authority) = Lease(r.epoch, r.session, r.token)
    /\ r.byFile => Lease(r.epoch, r.session, r.token) \in creds
    /\ ClockAccepted(clock, authority.renewed)
    /\ authority.expires > NotBefore(clock, authority.renewed)

Acquirable ==
    \/ authority.status = "uninitialized"
    \/ authority.status = "inactive" /\ ClockAccepted(clock, authority.updated)

LiveAt(now) == authority.expires > NotBefore(now, authority.renewed)

TakeoverAllowed(r) ==
    /\ authority.status = "active"
    /\ authority.epoch = r.epoch
    /\ ClockAccepted(clock, authority.renewed)
    /\ LiveAt(clock) => r.force

Permitted(r) ==
    CASE r.cmd = "acquire" -> Acquirable
      [] r.cmd = "takeover" -> TakeoverAllowed(r)
      [] OTHER -> Authenticates(r)

(* acquire_chief_authority, up to staging the credential *)
AdmitAcquire(p) ==
    /\ pc[p] = "locked" /\ req[p].cmd = "acquire" /\ Acquirable
    /\ work' = [work EXCEPT ![p] =
                  Granted(authority, "acquire",
                          NotBefore(clock, authority.updated), req[p].session,
                          NoSession, FALSE, nextToken, req[p].ttl)]
    /\ nextToken' = nextToken + 1
    /\ pc' = [pc EXCEPT ![p] = "stage"]
    /\ UNCHANGED <<authority, creds, lock, clock, req, granted, writes>>

(* takeover_chief_authority, up to staging the credential *)
AdmitTakeover(p) ==
    /\ pc[p] = "locked" /\ req[p].cmd = "takeover" /\ TakeoverAllowed(req[p])
    /\ work' = [work EXCEPT ![p] =
                  Granted(authority, "takeover",
                          NotBefore(clock, authority.renewed), req[p].session,
                          authority.session, LiveAt(clock), nextToken,
                          req[p].ttl)]
    /\ nextToken' = nextToken + 1
    /\ pc' = [pc EXCEPT ![p] = "stage"]
    /\ UNCHANGED <<authority, creds, lock, clock, req, granted, writes>>

(* renew_chief_authority and release_chief_authority, up to the write *)
AdmitRenew(p) ==
    /\ pc[p] = "locked" /\ req[p].cmd = "renew" /\ Authenticates(req[p])
    /\ work' = [work EXCEPT ![p] =
                  Renewed(authority, NotBefore(clock, authority.renewed),
                          req[p].ttl)]
    /\ pc' = [pc EXCEPT ![p] = "publish"]
    /\ UNCHANGED <<authority, creds, lock, clock, req, nextToken, granted,
                   writes>>

AdmitRelease(p) ==
    /\ pc[p] = "locked" /\ req[p].cmd = "release" /\ Authenticates(req[p])
    /\ work' = [work EXCEPT ![p] =
                  Released(authority, NotBefore(clock, authority.renewed))]
    /\ pc' = [pc EXCEPT ![p] = "publish"]
    /\ UNCHANGED <<authority, creds, lock, clock, req, nextToken, granted,
                   writes>>

(* Fault: the credential checked under the lock, the handler run after it *)
AdmitMutateUnlocked(p) ==
    /\ pc[p] = "locked" /\ req[p].cmd = "mutate" /\ Authenticates(req[p])
    /\ pc' = [pc EXCEPT ![p] = "handler"]
    /\ lock' = NoProc
    /\ UNCHANGED <<authority, creds, clock, req, work, nextToken, granted,
                   writes>>

(* _execute_project_command: the handler of any other fenced command *)
AdmitMutate(p) ==
    /\ pc[p] = "locked" /\ req[p].cmd = "mutate" /\ Authenticates(req[p])
    /\ pc' = [pc EXCEPT ![p] = "handler"]
    /\ UNCHANGED <<authority, creds, lock, clock, req, work, nextToken,
                   granted, writes>>

Refuse(p) ==
    /\ pc[p] = "locked" /\ ~Permitted(req[p])
    /\ pc' = [pc EXCEPT ![p] = "unlock"]
    /\ UNCHANGED <<authority, creds, lock, clock, req, work, nextToken,
                   granted, writes>>

Admit(p) ==
    \/ AdmitAcquire(p) \/ AdmitTakeover(p) \/ AdmitRenew(p)
    \/ AdmitRelease(p) \/ AdmitMutate(p) \/ Refuse(p)

-----------------------------------------------------------------------------
(* Writing *)

(* stage_chief_credential.  A failed create removes the candidate on a best *)
(* effort basis, so the file may or may not survive the failure.            *)
Stage(p) ==
    /\ pc[p] = "stage"
    /\ \/ /\ creds' = creds \cup {LeaseOf(work[p])}
          /\ pc' = [pc EXCEPT ![p] = "publish"]
       \/ /\ creds' \in {creds, creds \cup {LeaseOf(work[p])}}
          /\ pc' = [pc EXCEPT ![p] = "unlock"]
    /\ UNCHANGED <<authority, lock, clock, req, work, nextToken, granted,
                   writes>>

GrantedAfter(r) ==
    IF r.status = "active" THEN granted \cup {LeaseOf(r)} ELSE granted

(* _write_chief_authority succeeds.                                         *)
Publish(p) ==
    /\ pc[p] = "publish"
    /\ ValidRecord(work[p])
    /\ authority' = work[p]
    /\ granted' = GrantedAfter(work[p])
    /\ pc' = [pc EXCEPT ![p] =
                IF req[p].cmd = "release" /\ req[p].byFile
                  THEN "cleanup" ELSE "unlock"]
    /\ UNCHANGED <<creds, lock, clock, req, work, nextToken, writes>>

(* The write raises before the record is replaced: the record on disk is    *)
(* another one, so the staged credential of a grant is removed, best effort.*)
PublishFailsBefore(p) ==
    /\ pc[p] = "publish"
    /\ IF req[p].cmd \in {"acquire", "takeover"}
         THEN creds' \in {creds, creds \ {LeaseOf(work[p])}}
         ELSE UNCHANGED creds
    /\ pc' = [pc EXCEPT ![p] = "unlock"]
    /\ UNCHANGED <<authority, lock, clock, req, work, nextToken, granted,
                   writes>>

(* Fault: the credential removed whenever the write raises *)
PublishFailsAfterCleaning(p) ==
    /\ pc[p] = "publish"
    /\ ValidRecord(work[p])
    /\ authority' = work[p]
    /\ granted' = GrantedAfter(work[p])
    /\ creds' = creds \ {LeaseOf(work[p])}
    /\ pc' = [pc EXCEPT ![p] = "unlock"]
    /\ UNCHANGED <<lock, clock, req, work, nextToken, writes>>

(* The write raises after the record was replaced (a directory fsync        *)
(* failure): _chief_authority_definitely_not_published is false and the     *)
(* credential is kept.                                                      *)
PublishFailsAfter(p) ==
    /\ pc[p] = "publish"
    /\ ValidRecord(work[p])
    /\ authority' = work[p]
    /\ granted' = GrantedAfter(work[p])
    /\ pc' = [pc EXCEPT ![p] = "unlock"]
    /\ UNCHANGED <<creds, lock, clock, req, work, nextToken, writes>>

(* cmd_chief_release: the credential file goes after the inactive record is *)
(* on disk, and a failure to remove it is only a warning.                   *)
RemoveCredential(p) ==
    /\ pc[p] = "cleanup"
    /\ creds' \in {creds, creds \ {Lease(req[p].epoch, req[p].session,
                                         req[p].token)}}
    /\ pc' = [pc EXCEPT ![p] = "unlock"]
    /\ UNCHANGED <<authority, lock, clock, req, work, nextToken, granted,
                   writes>>

HandlerWrite(p) ==
    /\ pc[p] = "handler"
    /\ Len(writes) < MaxWrites
    /\ writes' = Append(writes, Lease(req[p].epoch, req[p].session,
                                      req[p].token))
    /\ UNCHANGED <<authority, creds, lock, clock, pc, req, work, nextToken,
                   granted>>

HandlerReturn(p) ==
    /\ pc[p] = "handler"
    /\ pc' = [pc EXCEPT ![p] = "unlock"]
    /\ UNCHANGED <<authority, creds, lock, clock, req, work, nextToken,
                   granted, writes>>

(* The finally clause of state_lock *)
ReleaseLock(p) ==
    /\ pc[p] = "unlock"
    /\ lock' = NoProc
    /\ pc' = [pc EXCEPT ![p] = "idle"]
    /\ req' = [req EXCEPT ![p] = NoRequest]
    /\ work' = [work EXCEPT ![p] = NoRecord]
    /\ UNCHANGED <<authority, creds, clock, nextToken, granted, writes>>

(* Killed: the kernel closes the descriptor and with it drops the lock.     *)
Crash(p) ==
    /\ pc[p] # "idle"
    /\ lock' = IF lock = p THEN NoProc ELSE lock
    /\ pc' = [pc EXCEPT ![p] = "idle"]
    /\ req' = [req EXCEPT ![p] = NoRequest]
    /\ work' = [work EXCEPT ![p] = NoRecord]
    /\ UNCHANGED <<authority, creds, clock, nextToken, granted, writes>>

(* The wall clock advances, and may be set back.                            *)
SetClock ==
    /\ clock' \in (IF clock < MaxClock THEN {clock + 1} ELSE {})
                  \cup 0..(clock - 1)
    /\ UNCHANGED <<authority, creds, lock, pc, req, work, nextToken, granted,
                   writes>>

Proceed(p) ==
    \/ Admit(p) \/ Stage(p) \/ Publish(p) \/ PublishFailsBefore(p)
    \/ PublishFailsAfter(p) \/ RemoveCredential(p) \/ HandlerReturn(p)
    \/ ReleaseLock(p)

Next ==
    \/ \E p \in Procs :
          \/ Invoke(p) \/ AcquireLock(p) \/ Proceed(p) \/ HandlerWrite(p)
          \/ Crash(p)
    \/ SetClock

Spec == Init /\ [][Next]_vars

-----------------------------------------------------------------------------
(* Types *)

Times == Nat
Tokens == Nat
Epochs == Nat
Actions == {"acquire", "renew", "release", "takeover"}
Events == [seq : Nat, action : Actions, at : Times, old : Epochs,
           new : Epochs, session : Sessions,
           previous : Sessions \cup {NoSession}, forced : BOOLEAN]
Records == [status : {"uninitialized", "active", "inactive"}, epoch : Epochs,
            session : Sessions \cup {NoSession}, token : Tokens,
            issued : Times, renewed : Times, expires : Times,
            renewals : Nat, seq : Nat, omitted : Nat, tail : Seq(Events),
            updated : Times]
Leases == [epoch : Epochs, session : Sessions, token : Tokens]
RequestTypes ==
    [cmd : {"none", "acquire", "takeover", "renew", "release", "mutate"},
     session : Sessions \cup {NoSession}, epoch : Epochs, token : Tokens,
     byFile : BOOLEAN, ttl : Nat, force : BOOLEAN]
PCs == {"idle", "waiting", "locked", "stage", "publish", "cleanup",
        "handler", "unlock"}

TypeOK ==
    /\ authority \in Records
    /\ creds \in SUBSET Leases
    /\ lock \in Procs \cup {NoProc}
    /\ clock \in Times
    /\ pc \in [Procs -> PCs]
    /\ req \in [Procs -> RequestTypes]
    /\ work \in [Procs -> Records]
    /\ nextToken \in Nat \ {0}
    /\ granted \in SUBSET Leases
    /\ writes \in Seq(Leases)

-----------------------------------------------------------------------------
(* Safety *)

Inside == {"locked", "stage", "publish", "cleanup", "handler", "unlock"}

(* While a fenced handler runs, the lease it was admitted under is still    *)
(* the published one: no renewal, release or takeover slips between the     *)
(* check made by require_chief_authority and the writes of the handler      *)
(* (cli._execute_project_command), whatever process is killed meanwhile.    *)
HandlerFenced ==
    \A p \in Procs : pc[p] = "handler" =>
        /\ authority.status = "active"
        /\ LeaseOf(authority) = Lease(req[p].epoch, req[p].session,
                                      req[p].token)

(* An epoch is granted at most once, to one session with one secret, even   *)
(* when an acquire or takeover dies between staging its credential and      *)
(* publishing its record and another process draws the same epoch number.   *)
OneGrantPerEpoch ==
    \A g, h \in granted : g.epoch = h.epoch => g = h

(* A published lease always has its credential file: neither a failed       *)
(* publication, nor the clean-up of a release, nor a crash removes the      *)
(* secret of the live lease (acquire and takeover, and the comment of       *)
(* _chief_authority_definitely_not_published).                              *)
LeaseNotStranded ==
    authority.status = "active" => LeaseOf(authority) \in creds

(* What the writers build is what validate_chief_authority_record accepts:  *)
(* otherwise the record could be neither published nor, once on disk, read  *)
(* back, and the project would have no usable authority at all.             *)
PublishableRecord ==
    \A p \in Procs : pc[p] = "publish" => ValidRecord(work[p])

(* The writes of the fenced handlers are ordered by epoch: nothing is       *)
(* written under a lease after a write under a later one.                   *)
WritesOrdered ==
    \A i, j \in 1..Len(writes) :
        i <= j => writes[i].epoch <= writes[j].epoch

-----------------------------------------------------------------------------
(* Refinement *)

NoLease == Lease(0, NoSession, 0)
Current == IF authority.status = "active" THEN LeaseOf(authority) ELSE NoLease

Promise == INSTANCE FencedLease
    WITH Leases <- [epoch : Nat \ {0}, session : Sessions, token : Nat],
         current <- Current

(* The processes, the lock, the staged credentials and the crashes together *)
(* implement the lease of FencedLease: a lease that was superseded or       *)
(* released never becomes current again, and every handler write is made    *)
(* under the lease that is current at that moment.                          *)
ImplementsLease == Promise!Spec
=============================================================================
