---------------------------- MODULE CompanyState ----------------------------
(***************************************************************************)
(* The Company ledger, an append-only SQLite database with one hash-chained *)
(* sequence of transactions, its writers, and the state owner: the resident *)
(* that holds the slot's process lock and projects every transaction into a *)
(* replaceable read model.                                                  *)
(*                                                                          *)
(* A transaction is identified by its transaction and command ids, names    *)
(* its events and may consume a takeover capability.  The digest chain      *)
(* makes the head of a ledger stand for everything before it, so a head is  *)
(* the sequence of what was recorded.  Logical streams are left out: their  *)
(* heads are functions of the global head the same request names.  A        *)
(* restored backup is a new file at the ledger's path.  BEGIN IMMEDIATE to  *)
(* COMMIT excludes every other writer of the same file; COMMIT is atomic    *)
(* and durable.  In-process threads are serialized by the writers' own      *)
(* locks and are one writer here.                                           *)
(***************************************************************************)
EXTENDS Naturals, Sequences, FiniteSets

CONSTANTS
    Requests,   \* transaction requests the clients send, again and again
    Ids,        \* the tx, command, events and capability each one names
    Outcomes,   \* terminal states a caller may ask for
    Writers,    \* processes that open the ledger
    Owners,     \* those of them that are state owners
    None,
    Mishaps,    \* bound: restores of the ledger file, losses of the read model
    Faults      \* bound: SQLite errors

ASSUME CompanyAssumption ==
    /\ Owners \subseteq Writers
    /\ \A r \in Requests : {"tx", "command", "events", "capability"} \subseteq DOMAIN Ids[r]
    /\ None \notin Requests \cup Writers
    /\ {Mishaps, Faults} \subseteq Nat

VARIABLES
    files,      \* the ledger files there are or were, each a sequence of entries
    path,       \* the file the ledger's path names
    model,      \* entries the read model projects, None when it is corrupt
    lock,       \* the owner that holds the process lock
    base,       \* the head each request was last built on
    writer,     \* what each process knows and where it is
    answer,     \* the answer given in the last step
    spent       \* mishaps and faults so far

vars == <<files, path, model, lock, base, writer, answer, spent>>

HeadOf(l) == [i \in DOMAIN l |-> <<l[i].request, l[i].outcome>>]
Prefix(l, n) == SubSeq(l, 1, n)
Held(e, l) == \E i \in DOMAIN l : l[i] = e

Down == [pc |-> "down", file |-> 0, health |-> "closed", cursor |-> <<>>,
         work |-> None, wrote |-> FALSE, view |-> FALSE]

Init ==
    /\ files = << <<>> >> /\ path = 1
    /\ model = <<>>
    /\ lock = None
    /\ base = [r \in Requests |-> None]
    /\ writer = [w \in Writers |-> Down]
    /\ answer = None
    /\ spent = [mishaps |-> 0, faults |-> 0]

-----------------------------------------------------------------------------
(* Steps and answers *)

At(w, place) == writer[w].pc = place
Durable(w)   == files[writer[w].file]

(* _assert_database_guard: the path still names the file this writer opened *)
Bound(w) == writer[w].file = path

(* _assert_hot_environment: and the file ends where this writer left it     *)
Hot(w) == Bound(w) /\ Durable(w) = writer[w].cursor

(* BEGIN IMMEDIATE waits for another writer, or gives up with no effect.    *)
Free(f) == \A w \in Writers : writer[w].file = f => ~(At(w, "inserted") \/ At(w, "fenced"))

Silent == answer' = None
Answer(w, r, what) == answer' = [request |-> r, what |-> what, wrote |-> writer[w].wrote]

Set(w, rec)  == writer' = [writer EXCEPT ![w] = rec]
Idle(w, rec) == Set(w, [rec EXCEPT !.pc = "idle", !.work = None, !.wrote = FALSE])

(* Nothing reads the cursor or the read model of a quarantined writer.      *)
Quarantined(w) == [writer[w] EXCEPT !.health = "quarantined", !.cursor = <<>>, !.view = FALSE]

Spend(what, bound) == spent[what] < bound /\ spent' = [spent EXCEPT ![what] = @ + 1]

slot  == <<files, path, model, lock>>
still == <<slot, base, spent>>

-----------------------------------------------------------------------------
(* Opening and closing *)

(* CompanyStateOwner.open takes the process lock first; CompanyLedger binds *)
(* the path, verifies the whole history and takes it for its cursor.        *)
Open(w) ==
    /\ At(w, "down") /\ Free(path)
    /\ w \in Owners => lock = None
    /\ lock' = IF w \in Owners THEN w ELSE lock
    /\ Set(w, [Down EXCEPT !.pc = IF w \in Owners THEN "opening" ELSE "idle",
                           !.file = path, !.health = "ready", !.cursor = files[path]])
    /\ Silent /\ UNCHANGED <<files, path, model, base, spent>>

(* The process ends: SQLite rolls back, flock goes with the descriptor.     *)
Leave(w) == Set(w, Down) /\ lock' = IF lock = w THEN None ELSE lock

(* The model cannot be a prefix of the ledger and is rebuilt from it.       *)
Diverged(m, l) == \/ m = None
                  \/ Len(m) > Len(l)
                  \/ Len(m) = Len(l) /\ m # l

(* Fault: only the lengths of the two heads are compared *)
SynchronizeByLength(w) ==
    /\ At(w, "opening")
    /\ LET l == writer[w].cursor IN
       model' = IF model = None THEN l ELSE model \o SubSeq(l, Len(model) + 1, Len(l))
    /\ Idle(w, [writer[w] EXCEPT !.view = TRUE])
    /\ Silent /\ UNCHANGED <<files, path, lock, base, spent>>

(* _synchronize_projection_unlocked and _validate_binding_unlocked.  A      *)
(* shorter model that is no prefix makes apply raise, and the owner gives   *)
(* up.                                                                      *)
Synchronize(w) ==
    /\ At(w, "opening")
    /\ LET l == writer[w].cursor IN
       IF Hot(w) /\ (Diverged(model, l) \/ model = Prefix(l, Len(model)))
       THEN model' = l /\ Idle(w, [writer[w] EXCEPT !.view = TRUE]) /\ UNCHANGED lock
       ELSE Leave(w) /\ UNCHANGED model
    /\ Silent /\ UNCHANGED <<files, path, base, spent>>

Close(w) == At(w, "idle") /\ Leave(w) /\ Silent
            /\ UNCHANGED <<files, path, model, base, spent>>

Kill(w) == ~At(w, "down") /\ Leave(w) /\ Silent
           /\ UNCHANGED <<files, path, model, base, spent>>

(* CompanyLedger.recover, which owners do not offer                         *)
Recover(w) ==
    /\ At(w, "idle") /\ w \notin Owners /\ Free(writer[w].file)
    /\ Set(w, IF Bound(w) THEN [writer[w] EXCEPT !.health = "ready", !.cursor = Durable(w)]
                          ELSE Quarantined(w))
    /\ Silent /\ UNCHANGED still

-----------------------------------------------------------------------------
(* One commit *)

Ready(w) == At(w, "idle") /\ writer[w].health = "ready"

(* snapshot_heads: what a client builds its request on                      *)
ReadHeads(w, r) ==
    /\ Ready(w)
    /\ IF Hot(w) THEN /\ base' = [base EXCEPT ![r] = HeadOf(writer[w].cursor)]
                      /\ UNCHANGED writer
                 ELSE Set(w, Quarantined(w)) /\ UNCHANGED base
    /\ Silent /\ UNCHANGED <<slot, spent>>

(* commit and append up to the environment check; an owner whose read model *)
(* could not be recovered refuses everything.                               *)
Submitted(w, r) ==
    Ready(w) /\ base[r] # None /\ Free(writer[w].file) /\ (w \in Owners => writer[w].view)

Entry(r, o) == [request |-> r, outcome |-> o, base |-> base[r]]

(* Rows of the same transaction or command *)
Rows(l, r) == {i \in DOMAIN l : \/ Ids[l[i].request].tx = Ids[r].tx
                                \/ Ids[l[i].request].command = Ids[r].command}

(* _find_replay: the one row is byte for byte what is asked now             *)
Replayed(l, r, o) == \E i \in Rows(l, r) : Rows(l, r) = {i} /\ l[i] = Entry(r, o)

(* _reject_reused_takeover and _reject_reused_event_ids                     *)
Reused(l, r) ==
    \E i \in DOMAIN l :
        \/ Ids[r].capability # None /\ Ids[l[i].request].capability = Ids[r].capability
        \/ Ids[l[i].request].events \cap Ids[r].events # {}

(* LedgerOwnershipError: another writer or a restore moved the ledger       *)
FindMoved(w, r) ==
    /\ Submitted(w, r) /\ ~Hot(w)
    /\ Set(w, Quarantined(w)) /\ Answer(w, r, "conflict") /\ UNCHANGED still

Replay(w, r, o) ==
    /\ Submitted(w, r) /\ Hot(w) /\ Replayed(Durable(w), r, o)
    /\ Set(w, [writer[w] EXCEPT !.pc = "written", !.work = Entry(r, o)])
    /\ Silent /\ UNCHANGED still

(* LedgerCorruptionError: an identity that was used for something else      *)
RefuseReuse(w, r, o) ==
    /\ Submitted(w, r) /\ Hot(w) /\ ~Replayed(Durable(w), r, o)
    /\ Rows(Durable(w), r) # {} \/ Reused(Durable(w), r)
    /\ Answer(w, r, "refused") /\ UNCHANGED <<still, writer>>

(* The compare-and-swap of the global head *)
Follows(w, r) == base[r] = HeadOf(writer[w].cursor)

New(w, r) == Rows(Durable(w), r) = {} /\ ~Reused(Durable(w), r)

(* LedgerConflictError *)
RefuseHead(w, r) ==
    /\ Submitted(w, r) /\ Hot(w) /\ New(w, r) /\ ~Follows(w, r)
    /\ Answer(w, r, "conflict") /\ UNCHANGED <<still, writer>>

Insert(w, r, o) ==
    /\ Submitted(w, r) /\ Hot(w) /\ New(w, r) /\ Follows(w, r)
    /\ Set(w, [writer[w] EXCEPT !.pc = "inserted", !.work = Entry(r, o)])
    /\ Silent /\ UNCHANGED still

(* The last look at the path before COMMIT *)
Fence(w) ==
    /\ At(w, "inserted")
    /\ IF Bound(w) THEN Set(w, [writer[w] EXCEPT !.pc = "fenced"]) /\ Silent
                   ELSE Idle(w, Quarantined(w)) /\ Answer(w, writer[w].work.request, "conflict")
    /\ UNCHANGED still

Commit(w) ==
    /\ At(w, "fenced")
    /\ files' = [files EXCEPT ![writer[w].file] = Append(@, writer[w].work)]
    /\ Set(w, [writer[w] EXCEPT !.pc = "written", !.wrote = TRUE])
    /\ Silent /\ UNCHANGED <<path, model, lock, base, spent>>

(* An SQLite error before COMMIT is rolled back; "busy" leaves the writer   *)
(* ready.                                                                   *)
Abort(w) ==
    /\ At(w, "inserted") \/ At(w, "fenced")
    /\ Spend("faults", Faults)
    /\ \E h \in {"ready", "quarantined"} : Idle(w, [writer[w] EXCEPT !.health = h])
    /\ Answer(w, writer[w].work.request, "failed") /\ UNCHANGED <<slot, base>>

(* The cursor after the transaction that was just written or found          *)
Advanced(w) == LET c == writer[w].cursor IN
               IF writer[w].wrote THEN Append(c, writer[w].work) ELSE c

(* Fault: COMMIT is the acknowledgement *)
SettledAtOnce(w) == TRUE

Settled(w) == Bound(w) /\ Durable(w) = Advanced(w)

(* After COMMIT: the path and the heads once more, then the receipt.        *)
Settle(w) ==
    /\ At(w, "written")
    /\ LET kept == [writer[w] EXCEPT !.cursor = Advanced(w)]
           r    == writer[w].work.request IN
       \/ Settled(w) /\ w \in Owners /\ Set(w, [kept EXCEPT !.pc = "appended"]) /\ Silent
       \/ Settled(w) /\ w \notin Owners /\ Idle(w, kept) /\ Answer(w, r, "receipt")
       \/ ~Settled(w) /\ Idle(w, Quarantined(w))
          /\ Answer(w, r, IF writer[w].wrote THEN "unknown" ELSE "conflict")
    /\ UNCHANGED still

(* An SQLite error while the heads are read after COMMIT; readers of a WAL  *)
(* database are not refused as busy.                                        *)
SettleFails(w) ==
    /\ At(w, "written") /\ Spend("faults", Faults)
    /\ Idle(w, Quarantined(w))
    /\ Answer(w, writer[w].work.request, "failed") /\ UNCHANGED <<slot, base>>

-----------------------------------------------------------------------------
(* The projection *)

(* CompanyReadModel.apply accepts what it has and what comes next.          *)
Applies(m, e) == m # None /\ (Held(e, m) \/ HeadOf(m) = e.base)
Applied(m, e) == IF Held(e, m) THEN m ELSE Append(m, e)

(* apply, then _validate_binding_unlocked, whose ledger check raises        *)
(* LedgerOwnershipError when the path moved in the meantime.                *)
Project(w) ==
    /\ At(w, "appended") /\ Applies(model, writer[w].work)
    /\ model' = Applied(model, writer[w].work)
    /\ LET r == writer[w].work.request IN
       IF Hot(w) THEN Idle(w, writer[w]) /\ Answer(w, r, "receipt")
                 ELSE Idle(w, Quarantined(w)) /\ Answer(w, r, "conflict")
    /\ UNCHANGED <<files, path, lock, base, spent>>

(* A ReadModelError *)
ProjectFails(w) ==
    /\ At(w, "appended") /\ Spend("faults", Faults)
    /\ Set(w, [writer[w] EXCEPT !.pc = "rebuilding", !.view = FALSE])
    /\ Silent /\ UNCHANGED <<slot, base>>

(* _rebuild_projection_unlocked inside commit *)
Rebuild(w) ==
    /\ At(w, "rebuilding")
    /\ model' = IF Bound(w) THEN Durable(w) ELSE model
    /\ LET r == writer[w].work.request IN
       IF Hot(w) THEN Idle(w, [writer[w] EXCEPT !.view = TRUE]) /\ Answer(w, r, "receipt")
                 ELSE Idle(w, Quarantined(w)) /\ Answer(w, r, "degraded")
    /\ UNCHANGED <<files, path, lock, base, spent>>

(* CompanyProjectionDegradedError: the old projection stays closed.  What   *)
(* failed in apply may fail again.                                          *)
RebuildFails(w) ==
    /\ At(w, "rebuilding")
    /\ Idle(w, writer[w]) /\ Answer(w, writer[w].work.request, "degraded")
    /\ UNCHANGED still

(* rebuild_projection *)
RebuildProjection(w) ==
    /\ Ready(w) /\ w \in Owners
    /\ model' = IF Bound(w) THEN Durable(w) ELSE model
    /\ Set(w, IF Hot(w) THEN [writer[w] EXCEPT !.view = TRUE]
                        ELSE Quarantined(w))
    /\ Silent /\ UNCHANGED <<files, path, lock, base, spent>>

-----------------------------------------------------------------------------
(* The file system around them *)

(* Somebody puts an older copy of the ledger in its place.                  *)
Swap ==
    /\ Spend("mishaps", Mishaps)
    /\ \E n \in 0..Len(files[path]) : files' = Append(files, Prefix(files[path], n))
    /\ path' = Len(files) + 1
    /\ Silent /\ UNCHANGED <<model, lock, base, writer>>

(* The read model is deleted or damaged while nobody has it open.           *)
LoseModel ==
    /\ lock = None /\ Spend("mishaps", Mishaps)
    /\ model' \in {<<>>, None}
    /\ Silent /\ UNCHANGED <<files, path, lock, base, writer>>

Serve(w) ==
    \/ Open(w) \/ Synchronize(w) \/ Close(w) \/ Kill(w) \/ Recover(w)
    \/ \E r \in Requests : ReadHeads(w, r) \/ FindMoved(w, r) \/ RefuseHead(w, r)
    \/ \E r \in Requests, o \in Outcomes :
          Replay(w, r, o) \/ RefuseReuse(w, r, o) \/ Insert(w, r, o)
    \/ Fence(w) \/ Commit(w) \/ Abort(w) \/ Settle(w) \/ SettleFails(w)
    \/ Project(w) \/ ProjectFails(w) \/ Rebuild(w) \/ RebuildFails(w)
    \/ RebuildProjection(w)

Next == (\E w \in Writers : Serve(w)) \/ Swap \/ LoseModel

Spec == Init /\ [][Next]_vars

-----------------------------------------------------------------------------
(* Properties *)

Heads   == Seq(Requests \X Outcomes)
Entries == [request : Requests, outcome : Outcomes, base : Heads]

(* Every value keeps its shape; the process lock is held by an owner that   *)
(* is up, and every owner that is up holds it.                              *)
TypeOK ==
    /\ files \in Seq(Seq(Entries)) /\ path \in DOMAIN files
    /\ model \in Seq(Entries) \cup {None}
    /\ base \in [Requests -> Heads \cup {None}]
    /\ lock \in Owners \cup {None}
    /\ \A w \in Owners : lock = w <=> ~At(w, "down")
    /\ \A w \in Writers :
          /\ writer[w].pc \in {"down", "opening", "idle", "inserted", "fenced",
                               "written", "appended", "rebuilding"}
          /\ writer[w].health \in {"closed", "ready", "quarantined"}
          /\ writer[w].cursor \in Seq(Entries)
          /\ writer[w].work \in Entries \cup {None}
          /\ At(w, "down") \/ writer[w].file \in DOMAIN files
    /\ answer = None \/ answer.request \in Requests

(* In every ledger file an id is used once: no transaction, command, event  *)
(* or takeover capability counts twice, whatever is retried, rebuilt or     *)
(* sent through another writer, and every entry was decided on exactly the  *)
(* entries before it (the compare-and-swap of append).                      *)
LogSound ==
    \A f \in DOMAIN files : \A i \in DOMAIN files[f] :
        LET e == files[f][i]  l == Prefix(files[f], i - 1) IN
        e.base = HeadOf(l) /\ Rows(l, e.request) = {} /\ ~Reused(l, e.request)

(* A receipt is given only while the file the path names holds the          *)
(* transaction ("COMMIT is not an acknowledgement boundary", append).       *)
ReceiptAuthoritative ==
    answer # None /\ answer.what = "receipt" =>
        \E i \in DOMAIN files[path] : files[path][i].request = answer.request

(* Both: what is in the ledger counts once, and what is told of it is in it. *)
LedgerAuthoritative == LogSound /\ ReceiptAuthoritative

(* What an owner appends was admitted by invariants evaluated on exactly    *)
(* the ledger it is appended to (preflight reads the model, append the      *)
(* ledger).                                                                 *)
AdmittedOnCurrent ==
    [][\A w \in Owners : At(w, "fenced") /\ writer'[w].pc = "written" => model = Durable(w)]_vars

(* docs/v0.5-plan.md: "A post-COMMIT authority mismatch is effect_unknown". *)
MismatchIsUnknown ==
    answer # None /\ answer.what = "conflict" => ~answer.wrote
=============================================================================
