------------------------ MODULE CompanyStateProofs ------------------------
(***************************************************************************)
(* Proofs about the Company ledger: every entry of every ledger file was    *)
(* decided on exactly what precedes it and uses its ids for the first time, *)
(* and a receipt is only given for what the ledger holds, for every set of  *)
(* requests and writers and any number of errors and restores.              *)
(***************************************************************************)
EXTENDS CompanyState, SequenceTheorems, TLAPS

Writing == {"inserted", "fenced"}
Placed  == {"appended", "rebuilding"}
Places  == Writing \cup Placed \cup {"down", "opening", "idle", "written"}

Records == [pc : Places, file : Nat, health : {"closed", "ready", "quarantined"},
            cursor : Seq(Entries), work : Entries \cup {None},
            wrote : BOOLEAN, view : BOOLEAN]

(* What one process may know: it has a file while it is up, a transaction   *)
(* while it works on one, and has seen it in the ledger once it is placed.  *)
Knows(rec) ==
    /\ rec \in Records
    /\ rec.pc # "down" => rec.file \in DOMAIN files
    /\ rec.pc \in Writing \cup Placed \cup {"written"} => rec.work \in Entries
    /\ rec.pc \in Placed => Held(rec.work, rec.cursor)
    /\ rec.pc = "written" /\ ~rec.wrote => Held(rec.work, rec.cursor)

(* A transaction in preparation fits what its file holds.                   *)
Fits(e, l) == e.base = HeadOf(l) /\ Rows(l, e.request) = {} /\ ~Reused(l, e.request)

LedgerTypes ==
    /\ files \in Seq(Seq(Entries)) /\ path \in DOMAIN files
    /\ writer = [w \in Writers |-> writer[w]]
    /\ \A w \in Writers : Knows(writer[w])

(* BEGIN IMMEDIATE to COMMIT excludes every other writer of the file.       *)
OneWriter ==
    \A v, w \in Writers :
        writer[v].pc \in Writing /\ writer[w].pc \in Writing /\ writer[v].file = writer[w].file
        => v = w

WorkFits ==
    \A w \in Writers : writer[w].pc \in Writing => Fits(writer[w].work, files[writer[w].file])

(* Said of the last step's answer.                                          *)
Receipted(a, l) ==
    a # None /\ a.what = "receipt" => \E i \in DOMAIN l : l[i].request = a.request

LedgerInv == LedgerTypes /\ OneWriter /\ WorkFits /\ LogSound /\ ReceiptAuthoritative

-----------------------------------------------------------------------------
(* Sequences of entries *)

LEMMA HeadType ==
    ASSUME NEW l \in Seq(Entries)
    PROVE  HeadOf(l) \in Heads
<1>1. ASSUME NEW i \in 1..Len(l)
      PROVE  <<l[i].request, l[i].outcome>> \in Requests \X Outcomes
  <2>1. l[i] \in Entries
    OBVIOUS
  <2>2. l[i].request \in Requests /\ l[i].outcome \in Outcomes
    BY <2>1 DEF Entries
  <2> QED BY <2>2
<1> QED BY <1>1 DEF HeadOf, Heads

LEMMA PrefixOfPrefix ==
    ASSUME NEW l \in Seq(Entries), NEW n \in 0..Len(l), NEW i \in 1..n
    PROVE  /\ Prefix(l, n) \in Seq(Entries) /\ Len(Prefix(l, n)) = n
           /\ Prefix(l, n)[i] = l[i] /\ Prefix(Prefix(l, n), i - 1) = Prefix(l, i - 1)
  BY DEF Prefix

LEMMA PrefixOfAppend ==
    ASSUME NEW l \in Seq(Entries), NEW e \in Entries, NEW i \in 1..Len(l)
    PROVE  Append(l, e)[i] = l[i] /\ Prefix(Append(l, e), i - 1) = Prefix(l, i - 1)
  BY DEF Prefix

LEMMA AppendLast ==
    ASSUME NEW l \in Seq(Entries), NEW e \in Entries
    PROVE  /\ Append(l, e) \in Seq(Entries) /\ Len(Append(l, e)) = Len(l) + 1
           /\ Append(l, e)[Len(l) + 1] = e /\ Prefix(Append(l, e), Len(l)) = l
  BY DEF Prefix

Sound(l) == \A i \in DOMAIN l : Fits(l[i], Prefix(l, i - 1))

LEMMA SoundLog == LogSound <=> \A f \in DOMAIN files : Sound(files[f])
  BY DEF LogSound, Sound, Fits

(* An older copy of a sound ledger is sound.                                *)
LEMMA SoundPrefix ==
    ASSUME NEW l \in Seq(Entries), NEW n \in 0..Len(l), Sound(l)
    PROVE  Prefix(l, n) \in Seq(Entries) /\ Sound(Prefix(l, n))
<1>1. Prefix(l, n) \in Seq(Entries) /\ Len(Prefix(l, n)) = n
  BY DEF Prefix
<1>2. SUFFICES ASSUME NEW i \in 1..n
               PROVE  Fits(Prefix(l, n)[i], Prefix(Prefix(l, n), i - 1))
  BY <1>1 DEF Sound
<1>3. Prefix(l, n)[i] = l[i] /\ Prefix(Prefix(l, n), i - 1) = Prefix(l, i - 1)
  BY PrefixOfPrefix
<1>4. i \in DOMAIN l
  OBVIOUS
<1> QED BY <1>3, <1>4 DEF Sound

(* What fits makes the ledger one longer and keeps it sound.                *)
LEMMA SoundAppend ==
    ASSUME NEW l \in Seq(Entries), NEW e \in Entries, Sound(l), Fits(e, l)
    PROVE  Sound(Append(l, e))
<1> DEFINE m == Append(l, e)
<1>1. SUFFICES ASSUME NEW i \in 1..Len(l) + 1 PROVE Fits(m[i], Prefix(m, i - 1))
  BY AppendLast DEF Sound
<1>2. CASE i = Len(l) + 1
  BY <1>2, AppendLast
<1>3. CASE i \in 1..Len(l)
  BY <1>3, PrefixOfAppend DEF Sound
<1> QED BY <1>2, <1>3
-----------------------------------------------------------------------------
(* One writer moves, and no ledger file changes *)

LEMMA WriterMoves ==
    ASSUME LedgerInv, NEW w \in Writers, NEW rec, Set(w, rec), UNCHANGED <<files, path>>,
           Knows(rec),
           rec.pc \in Writing =>
               \/ /\ writer[w].pc \in Writing /\ rec.file = writer[w].file
                  /\ rec.work = writer[w].work
               \/ Free(rec.file) /\ Fits(rec.work, files[rec.file]),
           Receipted(answer', files[path])
    PROVE  LedgerInv'
<1> LedgerTypes /\ OneWriter /\ WorkFits /\ LogSound
  BY DEF LedgerInv
<1>1. /\ writer'[w] = rec /\ writer' = [v \in Writers |-> writer'[v]]
      /\ \A v \in Writers \ {w} : writer'[v] = writer[v]
  BY DEF Set, LedgerTypes
<1>2. files' = files /\ path' = path
  OBVIOUS
<1>3. LedgerTypes'
  <2>1. ASSUME NEW v \in Writers PROVE Knows(writer'[v])
    BY <1>1 DEF LedgerTypes
  <2>2. \A v \in Writers : Knows(writer[v])'
    BY <1>2, <2>1 DEF Knows
  <2> QED BY <1>1, <1>2, <2>2 DEF LedgerTypes
<1>4. OneWriter'
  <2> SUFFICES ASSUME NEW u \in Writers, NEW v \in Writers,
                      writer'[u].pc \in Writing, writer'[v].pc \in Writing,
                      writer'[u].file = writer'[v].file, u # v
               PROVE  FALSE
    BY DEF OneWriter
  <2>1. CASE u # w /\ v # w
    BY <1>1, <2>1 DEF OneWriter
  <2>2. CASE u = w \/ v = w
    <3>1. PICK o \in {u, v} : o # w
      OBVIOUS
    <3>2. o \in Writers /\ writer[o].pc \in Writing /\ writer[o].file = rec.file /\ rec.pc \in Writing
      BY <1>1, <2>2, <3>1
    <3>3. ~Free(rec.file)
      BY <3>2 DEF Free, At, Writing
    <3>4. writer[w].pc \in Writing /\ writer[w].file = writer[o].file
      BY <3>2, <3>3
    <3> QED BY <3>1, <3>2, <3>4 DEF OneWriter
  <2> QED BY <2>1, <2>2
<1>5. WorkFits'
  BY <1>1, <1>2 DEF WorkFits
<1>6. LogSound'
  BY <1>2 DEF LogSound
<1>7. ReceiptAuthoritative'
  BY <1>2 DEF ReceiptAuthoritative, Receipted
<1> QED BY <1>3, <1>4, <1>5, <1>6, <1>7 DEF LedgerInv

(* The writer stops, or becomes idle, with an answer that is no receipt.    *)
LEMMA WriterRests ==
    ASSUME LedgerInv, NEW w \in Writers, NEW rec, Set(w, rec), UNCHANGED <<files, path>>,
           Knows(rec), rec.pc \notin Writing,
           answer' = None \/ answer'.what # "receipt"
    PROVE  LedgerInv'
  BY WriterMoves DEF Receipted

(* Nobody moves.                                                            *)
LEMMA NobodyMoves ==
    ASSUME LedgerInv, UNCHANGED <<files, path, writer>>,
           answer' = None \/ answer'.what # "receipt"
    PROVE  LedgerInv'
<1>1. WorkFits' /\ OneWriter' /\ LogSound' /\ ReceiptAuthoritative'
  BY DEF LedgerInv, WorkFits, OneWriter, LogSound, ReceiptAuthoritative
<1>2. LedgerTypes'
  BY DEF LedgerInv, LedgerTypes, Knows
<1> QED BY <1>1, <1>2 DEF LedgerInv

-----------------------------------------------------------------------------
(* What the steps make of what a writer knows *)

LEMMA DownKnows == Knows(Down) /\ Down.pc = "down"
<1>1. Down \in Records
  BY DEF Down, Records, Places
<1> QED BY <1>1 DEF Knows, Down, Writing, Placed

LEMMA IdleKnows ==
    ASSUME NEW rec \in Records, rec.file \in DOMAIN files
    PROVE  LET r == [rec EXCEPT !.pc = "idle", !.work = None, !.wrote = FALSE]
           IN  Knows(r) /\ r.pc = "idle"
<1> DEFINE r == [rec EXCEPT !.pc = "idle", !.work = None, !.wrote = FALSE]
<1>1. r \in Records /\ r.pc = "idle" /\ r.file = rec.file
  BY DEF Records, Places
<1> HIDE DEF r
<1>2. Knows(r)
  BY <1>1 DEF Knows, Writing, Placed
<1> QED BY <1>1, <1>2 DEF r

LEMMA QuarantinedFields ==
    ASSUME NEW w, writer[w] \in Records
    PROVE  /\ Quarantined(w) \in Records /\ Quarantined(w).pc = writer[w].pc
           /\ Quarantined(w).file = writer[w].file
<1> DEFINE rec == writer[w]
           q == [rec EXCEPT !.health = "quarantined", !.cursor = <<>>, !.view = FALSE]
<1>1. <<>> \in Seq(Entries)
  OBVIOUS
<1>2. q \in Records /\ q.pc = rec.pc /\ q.file = rec.file
  BY <1>1 DEF Records
<1> QED BY <1>2 DEF Quarantined

LEMMA QuarantinedKnows ==
    ASSUME LedgerInv, NEW w \in Writers, writer[w].pc \in {"idle", "opening"}
    PROVE  Knows(Quarantined(w)) /\ Quarantined(w).pc = writer[w].pc
<1>1. writer[w] \in Records /\ writer[w].file \in DOMAIN files
  BY DEF LedgerInv, LedgerTypes, Knows
<1>2. /\ Quarantined(w) \in Records /\ Quarantined(w).pc = writer[w].pc
      /\ Quarantined(w).file = writer[w].file
  BY <1>1, QuarantinedFields
<1> QED BY <1>1, <1>2 DEF Knows, Writing, Placed

LEMMA QuarantinedIsRecord ==
    ASSUME LedgerInv, NEW w \in Writers, writer[w].pc # "down"
    PROVE  /\ writer[w] \in Records /\ writer[w].file \in DOMAIN files
           /\ Quarantined(w) \in Records /\ Quarantined(w).file \in DOMAIN files
<1>1. writer[w] \in Records /\ writer[w].file \in DOMAIN files
  BY DEF LedgerInv, LedgerTypes, Knows
<1> QED BY <1>1, QuarantinedFields

(* A record that only differs in its health or view knows what it knew.     *)
LEMMA ViewKnows ==
    ASSUME LedgerInv, NEW w \in Writers, NEW b \in BOOLEAN, writer[w].pc # "down"
    PROVE  LET r == [writer[w] EXCEPT !.view = b] IN
           r \in Records /\ r.pc = writer[w].pc /\ r.file \in DOMAIN files /\ Knows(r)
<1>1. writer[w] \in Records /\ Knows(writer[w])
  BY DEF LedgerInv, LedgerTypes, Knows
<1> DEFINE r == [writer[w] EXCEPT !.view = b]
<1>2. /\ r \in Records /\ r.pc = writer[w].pc /\ r.file = writer[w].file
      /\ r.work = writer[w].work /\ r.cursor = writer[w].cursor /\ r.wrote = writer[w].wrote
  BY <1>1 DEF Records
<1> HIDE DEF r
<1>3. Knows(r) /\ r.file \in DOMAIN files
  BY <1>1, <1>2 DEF Knows
<1> QED BY <1>2, <1>3 DEF r

(* Becoming idle with an answer that is no receipt.                         *)
LEMMA BecomesIdle ==
    ASSUME LedgerInv, NEW w \in Writers, NEW rec \in Records, rec.file \in DOMAIN files,
           Idle(w, rec), UNCHANGED <<files, path>>,
           answer' = None \/ answer'.what # "receipt"
    PROVE  LedgerInv'
<1> DEFINE r == [rec EXCEPT !.pc = "idle", !.work = None, !.wrote = FALSE]
<1>1. Set(w, r)
  BY DEF Idle
<1>2. Knows(r) /\ r.pc = "idle"
  BY IdleKnows
<1> HIDE DEF r
<1> QED BY <1>1, <1>2, WriterRests DEF Writing

LEMMA LeaveInv ==
    ASSUME LedgerInv, NEW w \in Writers, Leave(w), UNCHANGED <<files, path>>, Silent
    PROVE  LedgerInv'
<1>1. Set(w, Down) /\ Down.pc \notin Writing
  BY DownKnows DEF Leave, Writing
<1>2. answer' = None
  BY DEF Silent
<1> HIDE DEF Down
<1> QED BY <1>1, <1>2, DownKnows, WriterRests

-----------------------------------------------------------------------------
(* Opening, closing and recovery *)

LEMMA OpenInv == ASSUME LedgerInv, NEW w \in Writers, Open(w) PROVE LedgerInv'
<1> DEFINE pc == IF w \in Owners THEN "opening" ELSE "idle"
           rec == [Down EXCEPT !.pc = pc, !.file = path, !.health = "ready", !.cursor = files[path]]
<1>1. Set(w, rec) /\ answer' = None /\ UNCHANGED <<files, path>>
  BY DEF Open, Silent
<1>2. path \in DOMAIN files /\ path \in Nat /\ files[path] \in Seq(Entries)
  BY DEF LedgerInv, LedgerTypes
<1>3. pc \in {"opening", "idle"}
  OBVIOUS
<1> HIDE DEF pc
<1>4. rec \in Records /\ rec.pc = pc /\ rec.file = path
  BY <1>2, <1>3, DownKnows DEF Knows, Records, Places
<1> HIDE DEF rec
<1>5. Knows(rec) /\ rec.pc \notin Writing
  BY <1>2, <1>3, <1>4 DEF Knows, Writing, Placed
<1> QED BY <1>1, <1>5, WriterRests

LEMMA SynchronizeInv == ASSUME LedgerInv, NEW w \in Writers, Synchronize(w) PROVE LedgerInv'
<1>1. writer[w].pc = "opening" /\ UNCHANGED <<files, path>> /\ Silent
  BY DEF Synchronize, At
<1> DEFINE rec == [writer[w] EXCEPT !.view = TRUE]
<1>2. Idle(w, rec) \/ Leave(w)
  BY DEF Synchronize
<1>3. rec \in Records /\ rec.file \in DOMAIN files
  BY <1>1, ViewKnows
<1> HIDE DEF rec
<1> QED BY <1>1, <1>2, <1>3, LeaveInv, BecomesIdle DEF Silent

LEMMA CloseInv == ASSUME LedgerInv, NEW w \in Writers, Close(w) \/ Kill(w) PROVE LedgerInv'
<1>1. Leave(w) /\ UNCHANGED <<files, path>> /\ Silent
  BY DEF Close, Kill
<1> QED BY <1>1, LeaveInv

(* Health and cursor are taken from the ledger as it is.                    *)
LEMMA RecoverInv == ASSUME LedgerInv, NEW w \in Writers, Recover(w) PROVE LedgerInv'
<1>1. writer[w].pc = "idle" /\ UNCHANGED <<files, path>> /\ answer' = None
  BY DEF Recover, At, Silent, still, slot
<1> DEFINE rec == [writer[w] EXCEPT !.health = "ready", !.cursor = Durable(w)]
<1>2. Set(w, rec) \/ Set(w, Quarantined(w))
  BY DEF Recover
<1>3. writer[w] \in Records /\ writer[w].file \in DOMAIN files
  BY <1>1, QuarantinedIsRecord
<1>4. Durable(w) \in Seq(Entries)
  BY <1>3 DEF LedgerInv, LedgerTypes, Durable
<1>5. rec \in Records /\ rec.pc = "idle" /\ rec.file = writer[w].file
  BY <1>1, <1>3, <1>4 DEF Records
<1> HIDE DEF rec
<1>6. Knows(rec) /\ rec.pc \notin Writing
  BY <1>3, <1>5 DEF Knows, Writing, Placed
<1>7. Knows(Quarantined(w)) /\ Quarantined(w).pc \notin Writing
  BY <1>1, QuarantinedKnows DEF Writing
<1>8. CASE Set(w, rec)
  BY <1>1, <1>6, <1>8, WriterRests
<1>9. CASE Set(w, Quarantined(w))
  BY <1>1, <1>7, <1>9, WriterRests
<1> QED BY <1>2, <1>8, <1>9

LEMMA ReadHeadsInv ==
    ASSUME LedgerInv, NEW w \in Writers, NEW r \in Requests, ReadHeads(w, r)
    PROVE  LedgerInv'
<1>1. /\ writer[w].pc = "idle" /\ UNCHANGED <<files, path>> /\ answer' = None
      /\ UNCHANGED writer \/ Set(w, Quarantined(w))
  BY DEF ReadHeads, Ready, At, Silent, slot
<1>2. Knows(Quarantined(w)) /\ Quarantined(w).pc \notin Writing
  BY <1>1, QuarantinedKnows DEF Writing
<1>3. CASE UNCHANGED writer
  BY <1>1, <1>3, NobodyMoves
<1>4. CASE Set(w, Quarantined(w))
  BY <1>1, <1>2, <1>4, WriterRests
<1> QED BY <1>1, <1>3, <1>4

LEMMA RebuildProjectionInv ==
    ASSUME LedgerInv, NEW w \in Writers, RebuildProjection(w)
    PROVE  LedgerInv'
<1> DEFINE rec == [writer[w] EXCEPT !.view = TRUE]
<1>1. /\ writer[w].pc = "idle" /\ UNCHANGED <<files, path>> /\ answer' = None
      /\ Set(w, rec) \/ Set(w, Quarantined(w))
  BY DEF RebuildProjection, Ready, At, Silent
<1>2. Knows(Quarantined(w)) /\ Quarantined(w).pc \notin Writing
  BY <1>1, QuarantinedKnows DEF Writing
<1>3. Knows(rec) /\ rec.pc \notin Writing
  BY <1>1, ViewKnows DEF Writing
<1> HIDE DEF rec
<1>4. CASE Set(w, rec)
  BY <1>1, <1>3, <1>4, WriterRests
<1>5. CASE Set(w, Quarantined(w))
  BY <1>1, <1>2, <1>5, WriterRests
<1> QED BY <1>1, <1>4, <1>5

-----------------------------------------------------------------------------
(* One transaction *)

LEMMA FindMovedInv ==
    ASSUME LedgerInv, NEW w \in Writers, NEW r \in Requests, FindMoved(w, r)
    PROVE  LedgerInv'
<1>1. /\ writer[w].pc = "idle" /\ UNCHANGED <<files, path>> /\ answer'.what = "conflict"
      /\ Set(w, Quarantined(w))
  BY DEF FindMoved, Submitted, Ready, At, Answer, still, slot
<1>2. Knows(Quarantined(w)) /\ Quarantined(w).pc \notin Writing
  BY <1>1, QuarantinedKnows DEF Writing
<1> QED BY <1>1, <1>2, WriterRests

LEMMA RefuseReuseInv ==
    ASSUME LedgerInv, NEW w \in Writers, NEW r \in Requests, NEW o \in Outcomes,
           RefuseReuse(w, r, o)
    PROVE  LedgerInv'
<1>1. UNCHANGED <<files, path, writer>> /\ answer'.what # "receipt"
  BY DEF RefuseReuse, Answer, still, slot
<1> QED BY <1>1, NobodyMoves

(* A retry finds its transaction in the ledger.                             *)
LEMMA ReplayInv ==
    ASSUME LedgerInv, NEW w \in Writers, NEW r \in Requests, NEW o \in Outcomes,
           Replay(w, r, o)
    PROVE  LedgerInv'
<1> DEFINE e == Entry(r, o)
           rec == [writer[w] EXCEPT !.pc = "written", !.work = e]
<1>1. /\ writer[w].pc = "idle" /\ UNCHANGED <<files, path>> /\ answer' = None
      /\ Set(w, rec)
  BY DEF Replay, Submitted, Ready, At, Silent, still, slot
<1>2. writer[w] \in Records /\ writer[w].file \in DOMAIN files
  BY <1>1, QuarantinedIsRecord
<1>3. writer[w].cursor = Durable(w) /\ Durable(w) \in Seq(Entries)
  BY <1>2 DEF Replay, Hot, Durable, LedgerInv, LedgerTypes
<1>4. Held(e, writer[w].cursor) /\ e \in Entries
  <2>1. PICK i \in Rows(Durable(w), r) : Durable(w)[i] = e
    BY DEF Replay, Replayed
  <2>2. i \in DOMAIN Durable(w)
    BY <2>1 DEF Rows
  <2> QED BY <1>3, <2>1, <2>2 DEF Held
<1> HIDE DEF e
<1>5. /\ rec \in Records /\ rec.pc = "written" /\ rec.file = writer[w].file
      /\ rec.work = e /\ rec.cursor = writer[w].cursor
  BY <1>2, <1>4 DEF Records, Places
<1> HIDE DEF rec
<1>6. Knows(rec) /\ rec.pc \notin Writing
  BY <1>2, <1>4, <1>5 DEF Knows, Writing, Placed
<1> QED BY <1>1, <1>6, WriterRests

(* The compare-and-swap and the look for reused ids make it fit.            *)
LEMMA InsertInv ==
    ASSUME LedgerInv, NEW w \in Writers, NEW r \in Requests, NEW o \in Outcomes,
           Insert(w, r, o)
    PROVE  LedgerInv'
<1> DEFINE e == Entry(r, o)
           rec == [writer[w] EXCEPT !.pc = "inserted", !.work = e]
<1>1. /\ writer[w].pc = "idle" /\ UNCHANGED <<files, path>> /\ answer' = None
      /\ Set(w, rec) /\ Free(writer[w].file)
  BY DEF Insert, Submitted, Ready, At, Silent, still, slot
<1>2. writer[w] \in Records /\ writer[w].file \in DOMAIN files
  BY <1>1, QuarantinedIsRecord
<1>3. writer[w].cursor = Durable(w) /\ Durable(w) \in Seq(Entries)
  BY <1>2 DEF Insert, Hot, Durable, LedgerInv, LedgerTypes
<1>4. e.request = r /\ e.outcome = o /\ e.base = HeadOf(Durable(w)) /\ e \in Entries
  <2>1. base[r] = HeadOf(Durable(w))
    BY <1>3 DEF Insert, Follows
  <2> QED BY <1>3, <2>1, HeadType DEF Entry, Entries
<1>5. Fits(e, Durable(w))
  BY <1>4 DEF Insert, New, Fits
<1> HIDE DEF e
<1>6. /\ rec \in Records /\ rec.pc = "inserted" /\ rec.file = writer[w].file /\ rec.work = e
  BY <1>2, <1>4 DEF Records, Places, Writing
<1> HIDE DEF rec
<1>7. Knows(rec)
  BY <1>2, <1>4, <1>6 DEF Knows, Writing, Placed
<1>8. Free(rec.file) /\ Fits(rec.work, files[rec.file])
  BY <1>1, <1>5, <1>6 DEF Durable
<1>9. Receipted(answer', files[path])
  BY <1>1 DEF Receipted
<1> QED BY <1>1, <1>7, <1>8, <1>9, WriterMoves

LEMMA FenceInv == ASSUME LedgerInv, NEW w \in Writers, Fence(w) PROVE LedgerInv'
<1> DEFINE rec == [writer[w] EXCEPT !.pc = "fenced"]
<1>1. writer[w].pc = "inserted" /\ UNCHANGED <<files, path>>
  BY DEF Fence, At, still, slot
<1>2. \/ Set(w, rec) /\ answer' = None
      \/ Idle(w, Quarantined(w)) /\ answer'.what = "conflict"
  BY DEF Fence, Silent, Answer
<1>3. /\ writer[w] \in Records /\ writer[w].file \in DOMAIN files
      /\ Quarantined(w) \in Records /\ Quarantined(w).file \in DOMAIN files
  BY <1>1, QuarantinedIsRecord
<1>4. CASE Set(w, rec) /\ answer' = None
  <2>1. /\ rec \in Records /\ rec.pc = "fenced" /\ rec.file = writer[w].file
        /\ rec.work = writer[w].work
    BY <1>3 DEF Records, Places, Writing
  <2>2. writer[w].work \in Entries /\ writer[w].pc \in Writing
    BY <1>1 DEF LedgerInv, LedgerTypes, Knows, Writing
  <2> HIDE DEF rec
  <2>3. Knows(rec)
    BY <1>3, <2>1, <2>2 DEF Knows, Writing, Placed
  <2>4. Receipted(answer', files[path])
    BY <1>4 DEF Receipted
  <2> QED BY <1>1, <1>4, <2>1, <2>2, <2>3, <2>4, WriterMoves
<1>5. CASE Idle(w, Quarantined(w)) /\ answer'.what = "conflict"
  BY <1>1, <1>3, <1>5, BecomesIdle
<1> QED BY <1>2, <1>4, <1>5

LEMMA AbortInv ==
    ASSUME LedgerInv, NEW w \in Writers, Abort(w)
    PROVE  LedgerInv'
<1>1. /\ writer[w].pc # "down" /\ UNCHANGED <<files, path>> /\ answer'.what = "failed"
  BY DEF Abort, At, Answer, slot
<1>2. PICK h \in {"ready", "quarantined"} : Idle(w, [writer[w] EXCEPT !.health = h])
  BY DEF Abort
<1> DEFINE rec == [writer[w] EXCEPT !.health = h]
<1>3. rec \in Records /\ rec.file \in DOMAIN files
  <2>1. writer[w] \in Records /\ writer[w].file \in DOMAIN files
    BY <1>1, QuarantinedIsRecord
  <2> QED BY <2>1 DEF Records
<1>4. Idle(w, rec)
  BY <1>2
<1> HIDE DEF rec
<1> QED BY <1>1, <1>3, <1>4, BecomesIdle

LEMMA SettleFailsInv == ASSUME LedgerInv, NEW w \in Writers, SettleFails(w) PROVE LedgerInv'
<1>1. /\ writer[w].pc # "down" /\ UNCHANGED <<files, path>> /\ answer'.what = "failed"
      /\ Idle(w, Quarantined(w))
  BY DEF SettleFails, At, Answer, slot
<1>2. Quarantined(w) \in Records /\ Quarantined(w).file \in DOMAIN files
  BY <1>1, QuarantinedIsRecord
<1> QED BY <1>1, <1>2, BecomesIdle

(* Becoming idle with a receipt for what the path's file holds.             *)
LEMMA ReceiptGiven ==
    ASSUME LedgerInv, NEW w \in Writers, NEW rec \in Records, rec.file \in DOMAIN files,
           Idle(w, rec), UNCHANGED <<files, path>>,
           answer'.request = writer[w].work.request, Held(writer[w].work, files[path])
    PROVE  LedgerInv'
<1> DEFINE r == [rec EXCEPT !.pc = "idle", !.work = None, !.wrote = FALSE]
<1>1. Set(w, r)
  BY DEF Idle
<1>2. Knows(r) /\ r.pc = "idle"
  BY IdleKnows
<1>3. Receipted(answer', files[path])
  BY DEF Receipted, Held
<1> HIDE DEF r
<1> QED BY <1>1, <1>2, <1>3, WriterMoves DEF Writing

(* The cursor a writer settles on holds its transaction.                    *)
LEMMA AdvancedHolds ==
    ASSUME LedgerInv, NEW w \in Writers, writer[w].pc = "written"
    PROVE  /\ Advanced(w) \in Seq(Entries) /\ Held(writer[w].work, Advanced(w))
           /\ writer[w].work \in Entries
<1> DEFINE c == writer[w].cursor
           e == writer[w].work
<1>1. c \in Seq(Entries) /\ e \in Entries /\ (~writer[w].wrote => Held(e, c))
  BY DEF LedgerInv, LedgerTypes, Knows, Records
<1> HIDE DEF c, e
<1>2. CASE writer[w].wrote
  <2>1. Advanced(w) = Append(c, e)
    BY <1>2 DEF Advanced, c, e
  <2>2. Append(c, e) \in Seq(Entries) /\ Held(e, Append(c, e))
    BY <1>1, AppendLast DEF Held
  <2> QED BY <1>1, <2>1, <2>2 DEF e
<1>3. CASE ~writer[w].wrote
  BY <1>1, <1>3 DEF Advanced, c, e
<1> QED BY <1>2, <1>3

LEMMA SettleInv == ASSUME LedgerInv, NEW w \in Writers, Settle(w) PROVE LedgerInv'
<1> DEFINE a == Advanced(w)
           kept == [writer[w] EXCEPT !.cursor = a]
           placed == [kept EXCEPT !.pc = "appended"]
<1>1. writer[w].pc = "written" /\ UNCHANGED <<files, path>>
  BY DEF Settle, At, still, slot
<1>2. \/ Set(w, placed) /\ answer' = None
      \/ /\ Settled(w) /\ Idle(w, kept)
         /\ answer'.request = writer[w].work.request
      \/ Idle(w, Quarantined(w)) /\ answer'.what \in {"unknown", "conflict"}
  BY DEF Settle, Silent, Answer
<1>3. /\ writer[w] \in Records /\ writer[w].file \in DOMAIN files
      /\ Quarantined(w) \in Records /\ Quarantined(w).file \in DOMAIN files
  BY <1>1, QuarantinedIsRecord
<1>4. a \in Seq(Entries) /\ Held(writer[w].work, a) /\ writer[w].work \in Entries
  BY <1>1, AdvancedHolds
<1>5. Settled(w) => files[path] = a
  BY DEF Settled, Bound, Durable
<1> HIDE DEF a
<1>6. kept \in Records /\ kept.file = writer[w].file /\ kept.cursor = a /\ kept.work = writer[w].work
  BY <1>3, <1>4 DEF Records
<1> HIDE DEF kept
<1>7. /\ placed \in Records /\ placed.pc = "appended" /\ placed.file = writer[w].file
      /\ placed.cursor = a /\ placed.work = writer[w].work
  BY <1>6 DEF Records, Places, Placed
<1> HIDE DEF placed
<1>8. CASE Set(w, placed) /\ answer' = None
  <2>1. Knows(placed) /\ placed.pc \notin Writing
    BY <1>3, <1>4, <1>7 DEF Knows, Writing, Placed
  <2> QED BY <1>1, <1>8, <2>1, WriterRests
<1>9. CASE /\ Settled(w) /\ Idle(w, kept)
           /\ answer'.request = writer[w].work.request
  BY <1>1, <1>3, <1>4, <1>5, <1>6, <1>9, ReceiptGiven
<1>10. CASE Idle(w, Quarantined(w)) /\ answer'.what \in {"unknown", "conflict"}
  BY <1>1, <1>3, <1>10, BecomesIdle
<1> QED BY <1>2, <1>8, <1>9, <1>10

(* COMMIT: the one step that makes a ledger longer.                         *)
LEMMA CommitInv == ASSUME LedgerInv, NEW w \in Writers, Commit(w) PROVE LedgerInv'
<1> LedgerTypes /\ OneWriter /\ WorkFits
  BY DEF LedgerInv
<1> DEFINE f == writer[w].file
           e == writer[w].work
           l == files[f]
           rec == [writer[w] EXCEPT !.pc = "written", !.wrote = TRUE]
<1>1. /\ writer[w].pc = "fenced" /\ files' = [files EXCEPT ![f] = Append(@, e)]
      /\ Set(w, rec) /\ answer' = None /\ path' = path
  BY DEF Commit, At, Silent
<1>2. writer[w] \in Records /\ f \in DOMAIN files /\ e \in Entries /\ l \in Seq(Entries)
  BY <1>1 DEF LedgerTypes, Knows, Writing
<1>3. Fits(e, l)
  BY <1>1 DEF WorkFits, Writing
<1> DEFINE m == Append(l, e)
<1>4. m \in Seq(Entries) /\ Sound(m)
  <2>1. Sound(l)
    BY <1>2, SoundLog DEF LedgerInv
  <2> QED BY <1>2, <1>3, <2>1, SoundAppend
<1>5. /\ files' \in Seq(Seq(Entries)) /\ DOMAIN files' = DOMAIN files /\ files'[f] = m
      /\ \A g \in DOMAIN files \ {f} : files'[g] = files[g]
  BY <1>1, <1>2, <1>4 DEF LedgerTypes
<1>6. /\ rec \in Records /\ rec.pc = "written" /\ rec.file = f /\ rec.work = e /\ rec.wrote
  BY <1>2 DEF Records, Places
<1>7. /\ writer'[w] = rec /\ writer' = [v \in Writers |-> writer'[v]]
      /\ \A v \in Writers \ {w} : writer'[v] = writer[v]
  BY <1>1 DEF Set, LedgerTypes
<1> HIDE DEF m, rec
<1>8. LedgerTypes'
  <2>1. Knows(rec)
    BY <1>2, <1>6 DEF Knows, Placed
  <2>2. ASSUME NEW v \in Writers PROVE Knows(writer'[v])
    BY <1>7, <2>1 DEF LedgerTypes
  <2>3. \A v \in Writers : Knows(writer[v])'
    BY <1>5, <2>2 DEF Knows
  <2> QED BY <1>1, <1>5, <1>7, <2>3 DEF LedgerTypes
<1>9. \A v \in Writers : writer'[v].pc \in Writing =>
          v # w /\ writer'[v] = writer[v] /\ writer[v].pc \in Writing /\ writer[v].file # f
  BY <1>1, <1>6, <1>7 DEF OneWriter, Writing
<1>10. OneWriter'
  BY <1>9 DEF OneWriter
<1>11. WorkFits'
  <2> SUFFICES ASSUME NEW v \in Writers, writer'[v].pc \in Writing
               PROVE  Fits(writer'[v].work, files'[writer'[v].file])
    BY DEF WorkFits
  <2>1. writer[v].file \in DOMAIN files
    BY <1>9 DEF LedgerTypes, Knows, Writing
  <2>2. files'[writer[v].file] = files[writer[v].file]
    BY <1>5, <1>9, <2>1
  <2> QED BY <1>9, <2>2 DEF WorkFits
<1>12. LogSound'
  <2>1. \A g \in DOMAIN files : Sound(files[g])
    BY SoundLog DEF LedgerInv
  <2>2. \A g \in DOMAIN files' : Sound(files'[g])
    BY <1>4, <1>5, <2>1
  <2>3. \A g \in DOMAIN files' : \A i \in DOMAIN files'[g] :
           Fits(files'[g][i], Prefix(files'[g], i - 1))
    BY <2>2 DEF Sound
  <2> QED BY <2>3 DEF LogSound, Fits
<1>13. ReceiptAuthoritative'
  BY <1>1 DEF ReceiptAuthoritative
<1> QED BY <1>8, <1>10, <1>11, <1>12, <1>13 DEF LedgerInv

-----------------------------------------------------------------------------
(* The projection, and the file system around it *)

(* A receipt after a projection is given for a cursor the file still has.   *)
LEMMA ProjectionInv ==
    ASSUME LedgerInv, NEW w \in Writers, Project(w) \/ Rebuild(w)
    PROVE  LedgerInv'
<1> DEFINE viewed == [writer[w] EXCEPT !.view = TRUE]
<1>1. writer[w].pc \in Placed /\ writer[w].pc # "down" /\ UNCHANGED <<files, path>>
  BY DEF Project, Rebuild, At, Placed
<1>2. \/ /\ Hot(w)
         /\ Idle(w, writer[w]) \/ Idle(w, viewed)
         /\ answer'.request = writer[w].work.request
      \/ Idle(w, Quarantined(w)) /\ answer'.what \in {"conflict", "degraded"}
  BY DEF Project, Rebuild, Answer
<1>3. /\ writer[w] \in Records /\ writer[w].file \in DOMAIN files
      /\ Quarantined(w) \in Records /\ Quarantined(w).file \in DOMAIN files
  BY <1>1, QuarantinedIsRecord
<1>4. viewed \in Records /\ viewed.file \in DOMAIN files
  BY <1>1, ViewKnows
<1>5. Held(writer[w].work, writer[w].cursor)
  BY <1>1 DEF LedgerInv, LedgerTypes, Knows
<1>6. Hot(w) => files[path] = writer[w].cursor
  BY DEF Hot, Bound, Durable
<1> HIDE DEF viewed
<1>7. CASE Hot(w) /\ Idle(w, writer[w]) /\ answer'.request = writer[w].work.request
  BY <1>1, <1>3, <1>5, <1>6, <1>7, ReceiptGiven
<1>8. CASE Hot(w) /\ Idle(w, viewed) /\ answer'.request = writer[w].work.request
  BY <1>1, <1>4, <1>5, <1>6, <1>8, ReceiptGiven
<1>9. CASE Idle(w, Quarantined(w)) /\ answer'.what \in {"conflict", "degraded"}
  BY <1>1, <1>3, <1>9, BecomesIdle
<1> QED BY <1>2, <1>7, <1>8, <1>9

LEMMA ProjectFailsInv == ASSUME LedgerInv, NEW w \in Writers, ProjectFails(w) PROVE LedgerInv'
<1> DEFINE rec == [writer[w] EXCEPT !.pc = "rebuilding", !.view = FALSE]
<1>1. /\ writer[w].pc = "appended" /\ UNCHANGED <<files, path>> /\ answer' = None
      /\ Set(w, rec)
  BY DEF ProjectFails, At, Silent, slot
<1>2. Knows(writer[w])
  BY DEF LedgerInv, LedgerTypes
<1>3. /\ rec \in Records /\ rec.pc = "rebuilding" /\ rec.file = writer[w].file
      /\ rec.work = writer[w].work /\ rec.cursor = writer[w].cursor
  BY <1>2 DEF Knows, Records, Places, Placed
<1> HIDE DEF rec
<1>4. Knows(rec) /\ rec.pc \notin Writing
  BY <1>1, <1>2, <1>3 DEF Knows, Writing, Placed
<1> QED BY <1>1, <1>4, WriterRests

LEMMA RebuildFailsInv == ASSUME LedgerInv, NEW w \in Writers, RebuildFails(w) PROVE LedgerInv'
<1>1. /\ writer[w].pc # "down" /\ UNCHANGED <<files, path>> /\ answer'.what = "degraded"
      /\ Idle(w, writer[w])
  BY DEF RebuildFails, At, Answer, still, slot
<1>2. writer[w] \in Records /\ writer[w].file \in DOMAIN files
  BY <1>1, QuarantinedIsRecord
<1> QED BY <1>1, <1>2, BecomesIdle

(* An older copy takes the path; the writers keep the files they opened.    *)
LEMMA SwapInv == ASSUME LedgerInv, Swap PROVE LedgerInv'
<1> LedgerTypes /\ OneWriter /\ WorkFits
  BY DEF LedgerInv
<1>1. PICK n \in 0..Len(files[path]) : files' = Append(files, Prefix(files[path], n))
  BY DEF Swap
<1>2. path' = Len(files) + 1 /\ answer' = None /\ writer' = writer
  BY DEF Swap, Silent
<1>3. files \in Seq(Seq(Entries)) /\ files[path] \in Seq(Entries)
  BY DEF LedgerTypes
<1> DEFINE old == Prefix(files[path], n)
<1>4. old \in Seq(Entries) /\ Sound(old)
  <2>1. Sound(files[path])
    BY SoundLog DEF LedgerInv, LedgerTypes
  <2> QED BY <1>3, <2>1, SoundPrefix
<1> HIDE DEF old
<1>5. files' = Append(files, old)
  BY <1>1 DEF old
<1>6. /\ files' \in Seq(Seq(Entries)) /\ DOMAIN files' = 1..Len(files) + 1
      /\ DOMAIN files = 1..Len(files) /\ Len(files) \in Nat
      /\ files'[Len(files) + 1] = old
      /\ \A g \in DOMAIN files : files'[g] = files[g]
  BY <1>3, <1>4, <1>5
<1>7. \A g \in DOMAIN files : g \in DOMAIN files'
  BY <1>6
<1>8. LedgerTypes'
  <2>1. path' \in DOMAIN files'
    BY <1>2, <1>6
  <2>2. \A v \in Writers : Knows(writer[v])'
    BY <1>2, <1>7 DEF LedgerTypes, Knows
  <2> QED BY <1>2, <1>6, <2>1, <2>2 DEF LedgerTypes
<1>9. OneWriter'
  BY <1>2 DEF OneWriter
<1>10. WorkFits'
  <2> SUFFICES ASSUME NEW v \in Writers, writer[v].pc \in Writing
               PROVE  Fits(writer[v].work, files'[writer[v].file])
    BY <1>2 DEF WorkFits
  <2>1. writer[v].file \in DOMAIN files
    BY DEF LedgerTypes, Knows, Writing
  <2> QED BY <1>6, <2>1 DEF WorkFits
<1>11. LogSound'
  <2>1. \A g \in DOMAIN files : Sound(files[g])
    BY SoundLog DEF LedgerInv
  <2>2. \A g \in DOMAIN files' : g \in DOMAIN files \/ g = Len(files) + 1
    BY <1>6
  <2>3. \A g \in DOMAIN files' : Sound(files'[g])
    BY <1>4, <1>6, <2>1, <2>2
  <2>4. \A g \in DOMAIN files' : \A i \in DOMAIN files'[g] :
           Fits(files'[g][i], Prefix(files'[g], i - 1))
    BY <2>3 DEF Sound
  <2> QED BY <2>4 DEF LogSound, Fits
<1>12. ReceiptAuthoritative'
  BY <1>2 DEF ReceiptAuthoritative
<1> QED BY <1>8, <1>9, <1>10, <1>11, <1>12 DEF LedgerInv

-----------------------------------------------------------------------------
(* The theorems *)

LEMMA InitInv == Init => LedgerInv
<1> SUFFICES ASSUME Init PROVE LedgerInv
  OBVIOUS
<1>1. files = << <<>> >> /\ path = 1 /\ answer = None /\ \A w \in Writers : writer[w] = Down
  BY DEF Init
<1>2. Down.pc = "down" /\ Knows(Down)
  BY DownKnows
<1>3. files \in Seq(Seq(Entries)) /\ path \in DOMAIN files
  <2>1. <<>> \in Seq(Entries)
    OBVIOUS
  <2> QED BY <1>1, <2>1
<1>4. LedgerTypes
  BY <1>1, <1>2, <1>3 DEF LedgerTypes, Init
<1>5. OneWriter /\ WorkFits
  BY <1>1, <1>2 DEF OneWriter, WorkFits, Writing
<1>6. LogSound
  BY <1>1 DEF LogSound
<1>7. ReceiptAuthoritative
  BY <1>1 DEF ReceiptAuthoritative
<1> QED BY <1>4, <1>5, <1>6, <1>7 DEF LedgerInv

LEMMA ServeInv == ASSUME LedgerInv, NEW w \in Writers, Serve(w) PROVE LedgerInv'
<1>1. ASSUME NEW r \in Requests, ReadHeads(w, r) PROVE LedgerInv'
  BY <1>1, ReadHeadsInv
<1>2. ASSUME NEW r \in Requests, FindMoved(w, r) PROVE LedgerInv'
  BY <1>2, FindMovedInv
<1>3. ASSUME NEW r \in Requests, RefuseHead(w, r) PROVE LedgerInv'
  <2>1. UNCHANGED <<files, path, writer>> /\ answer'.what # "receipt"
    BY <1>3 DEF RefuseHead, Answer, still, slot
  <2> QED BY <2>1, NobodyMoves
<1>4. ASSUME NEW r \in Requests, NEW o \in Outcomes, Replay(w, r, o) PROVE LedgerInv'
  BY <1>4, ReplayInv
<1>5. ASSUME NEW r \in Requests, NEW o \in Outcomes, RefuseReuse(w, r, o) PROVE LedgerInv'
  BY <1>5, RefuseReuseInv
<1>6. ASSUME NEW r \in Requests, NEW o \in Outcomes, Insert(w, r, o) PROVE LedgerInv'
  BY <1>6, InsertInv
<1>7. CASE Open(w) \/ Synchronize(w) \/ Close(w) \/ Kill(w) \/ Recover(w)
  BY <1>7, OpenInv, SynchronizeInv, CloseInv, RecoverInv
<1>8. CASE Fence(w) \/ Commit(w) \/ Abort(w) \/ Settle(w) \/ SettleFails(w)
  BY <1>8, FenceInv, CommitInv, AbortInv, SettleInv, SettleFailsInv
<1>9. CASE Project(w) \/ ProjectFails(w) \/ Rebuild(w) \/ RebuildFails(w) \/ RebuildProjection(w)
  BY <1>9, ProjectionInv, ProjectFailsInv, RebuildFailsInv, RebuildProjectionInv
<1>10. CASE \E r \in Requests : ReadHeads(w, r) \/ FindMoved(w, r) \/ RefuseHead(w, r)
  BY <1>1, <1>2, <1>3, <1>10
<1>11. CASE \E r \in Requests, o \in Outcomes :
               Replay(w, r, o) \/ RefuseReuse(w, r, o) \/ Insert(w, r, o)
  BY <1>4, <1>5, <1>6, <1>11
<1> QED BY <1>7, <1>8, <1>9, <1>10, <1>11 DEF Serve

LEMMA NextInv == LedgerInv /\ [Next]_vars => LedgerInv'
<1> SUFFICES ASSUME LedgerInv, [Next]_vars PROVE LedgerInv'
  OBVIOUS
<1>1. ASSUME NEW w \in Writers, Serve(w) PROVE LedgerInv'
  BY <1>1, ServeInv
<1>2. CASE Swap
  BY <1>2, SwapInv
<1>3. CASE LoseModel
  <2>1. UNCHANGED <<files, path, writer>> /\ answer' = None
    BY <1>3 DEF LoseModel, Silent
  <2> QED BY <2>1, NobodyMoves
<1>4. CASE UNCHANGED vars
  <2>1. WorkFits' /\ OneWriter' /\ LogSound' /\ ReceiptAuthoritative'
    BY <1>4 DEF vars, LedgerInv, WorkFits, OneWriter, LogSound, ReceiptAuthoritative
  <2>2. LedgerTypes'
    BY <1>4 DEF vars, LedgerInv, LedgerTypes, Knows
  <2> QED BY <2>1, <2>2 DEF LedgerInv
<1> QED BY <1>1, <1>2, <1>3, <1>4 DEF Next

LEMMA LedgerInvariant == Spec => []LedgerInv
  BY InitInv, NextInv, PTL DEF Spec

(* CompanyLedger.append: no transaction, command, event or capability ever  *)
(* counts twice in a ledger, and every entry was decided on exactly what    *)
(* precedes it, through replays, errors and restores.                       *)
THEOREM LedgerSound == Spec => []LogSound
<1>1. LedgerInv => LogSound
  BY DEF LedgerInv
<1> QED BY <1>1, LedgerInvariant, PTL

(* A receipt is only given for a transaction of the ledger the path names.  *)
THEOREM ReceiptsTrue == Spec => []ReceiptAuthoritative
<1>1. LedgerInv => ReceiptAuthoritative
  BY DEF LedgerInv
<1> QED BY <1>1, LedgerInvariant, PTL

(* CompanyLedger.append: the ledger file is the authority, for what counts  *)
(* and for what its writers are told.                                       *)
THEOREM LedgerIsAuthority == Spec => []LedgerAuthoritative
<1>1. LedgerInv => LedgerAuthoritative
  BY DEF LedgerInv, LedgerAuthoritative
<1> QED BY <1>1, LedgerInvariant, PTL

-----------------------------------------------------------------------------
(* What preflight reads is what append writes to *)

(* What holds of a writer with record rec, ledger file l and read model m:  *)
(* a transaction in preparation extends the cursor, and the model of an     *)
(* owner that offers it is the cursor, or one entry behind between append   *)
(* and apply.                                                               *)
Viewing(w, rec, l, m) ==
    /\ rec.pc \in {"opening"} \cup Placed => w \in Owners
    /\ rec.pc = "idle" => ~rec.wrote
    /\ rec.pc \in Writing => l = rec.cursor /\ (w \in Owners => rec.view)
    /\ rec.pc = "written" /\ rec.wrote => ~Held(rec.work, rec.cursor)
    /\ w \in Owners /\ rec.view =>
          /\ rec.pc \in {"idle", "written"} \cup Writing => m = rec.cursor
          /\ rec.pc = "appended" =>
                \/ m = rec.cursor
                \/ rec.cursor = Append(m, rec.work) /\ ~Held(rec.work, m)
          /\ rec.pc # "rebuilding"

OwnerLocks == \A w \in Owners : lock = w <=> writer[w].pc # "down"

ViewInv ==
    /\ \A w \in Writers : Viewing(w, writer[w], files[writer[w].file], model)
    /\ OwnerLocks

(* One writer moves; only the owner that holds the lock writes the model.   *)
LEMMA ViewMoves ==
    ASSUME LedgerTypes, ViewInv, NEW w \in Writers, NEW rec, Set(w, rec), UNCHANGED files,
           Viewing(w, rec, files[rec.file], model'),
           model' = model \/ (w \in Owners /\ writer[w].pc # "down"),
           \/ UNCHANGED lock /\ (rec.pc # "down" <=> writer[w].pc # "down")
           \/ lock' = (IF w \in Owners THEN w ELSE lock) /\ rec.pc # "down"
              /\ (w \in Owners => lock = None)
           \/ lock' = (IF lock = w THEN None ELSE lock) /\ rec.pc = "down"
    PROVE  ViewInv'
<1>1. /\ writer'[w] = rec
      /\ \A v \in Writers \ {w} : writer'[v] = writer[v]
  BY DEF Set, LedgerTypes
<1>2. Owners \subseteq Writers /\ None \notin Writers
  BY CompanyAssumption
<1>3. OwnerLocks'
  <2> SUFFICES ASSUME NEW v \in Owners PROVE lock' = v <=> writer'[v].pc # "down"
    BY DEF OwnerLocks
  <2>1. lock = v <=> writer[v].pc # "down"
    BY DEF ViewInv, OwnerLocks
  <2>2. CASE v = w
    BY <1>1, <1>2, <2>1, <2>2
  <2>3. CASE v # w
    BY <1>1, <1>2, <2>1, <2>3
  <2> QED BY <2>2, <2>3
<1>4. ASSUME NEW v \in Writers
      PROVE  Viewing(v, writer'[v], files'[writer'[v].file], model')
  <2>1. CASE v = w
    BY <1>1, <2>1
  <2>2. CASE v # w
    <3>1. writer'[v] = writer[v] /\ files' = files /\ Viewing(v, writer[v], files[writer[v].file], model)
      BY <1>1, <2>2 DEF ViewInv
    <3>2. CASE model' = model
      BY <3>1, <3>2
    <3>3. CASE model' # model
      <4>1. lock = w
        BY <3>3 DEF ViewInv, OwnerLocks
      <4>2. v \in Owners => writer[v].pc = "down"
        BY <2>2, <4>1 DEF ViewInv, OwnerLocks
      <4> QED BY <3>1, <4>2 DEF Viewing, Writing, Placed
    <3> QED BY <3>2, <3>3
  <2> QED BY <2>1, <2>2
<1>5. \A v \in Writers : Viewing(v, writer[v], files[writer[v].file], model)'
  BY <1>4 DEF Viewing, Held
<1> QED BY <1>3, <1>5 DEF ViewInv

LEMMA ViewStays ==
    ASSUME ViewInv, UNCHANGED <<files, writer, lock, model>>
    PROVE  ViewInv'
  BY DEF ViewInv, OwnerLocks, Viewing, Held

LEMMA IdleFields ==
    ASSUME NEW rec \in Records
    PROVE  LET r == [rec EXCEPT !.pc = "idle", !.work = None, !.wrote = FALSE] IN
           /\ r.pc = "idle" /\ r.file = rec.file /\ r.cursor = rec.cursor /\ r.view = rec.view
           /\ ~r.wrote
  BY DEF Records

LEMMA QuarantinedBlind ==
    ASSUME NEW w, writer[w] \in Records
    PROVE  /\ Quarantined(w) \in Records /\ ~Quarantined(w).view
           /\ Quarantined(w).pc = writer[w].pc /\ Quarantined(w).wrote = writer[w].wrote
<1> DEFINE rec == writer[w]
           q == [rec EXCEPT !.health = "quarantined", !.cursor = <<>>, !.view = FALSE]
<1>1. q.view = FALSE /\ q.wrote = rec.wrote
  BY DEF Records
<1> QED BY <1>1, QuarantinedFields DEF Quarantined

(* Becoming idle, without a view or with the cursor for a view.             *)
LEMMA ViewIdle ==
    ASSUME LedgerTypes, ViewInv, NEW w \in Writers, NEW rec \in Records, Idle(w, rec),
           UNCHANGED <<files, lock>>, writer[w].pc # "down",
           model' = model \/ w \in Owners,
           w \in Owners /\ rec.view => model' = rec.cursor
    PROVE  ViewInv'
<1>1. PICK r : r = [rec EXCEPT !.pc = "idle", !.work = None, !.wrote = FALSE]
  OBVIOUS
<1>2. Set(w, r)
  BY <1>1 DEF Idle
<1>3. r.pc = "idle" /\ r.cursor = rec.cursor /\ r.view = rec.view /\ ~r.wrote
  BY <1>1, IdleFields
<1>4. Viewing(w, r, files[r.file], model')
  BY <1>3 DEF Viewing, Writing, Placed
<1> QED BY <1>2, <1>3, <1>4, ViewMoves

LEMMA ViewLeave ==
    ASSUME LedgerTypes, ViewInv, NEW w \in Writers, Leave(w), UNCHANGED <<files, model>>
    PROVE  ViewInv'
<1>1. Set(w, Down) /\ lock' = (IF lock = w THEN None ELSE lock) /\ Down.pc = "down" /\ ~Down.view
  BY DEF Leave, Down
<1>2. Viewing(w, Down, files[Down.file], model')
  BY <1>1 DEF Viewing, Writing, Placed
<1> HIDE DEF Down
<1> QED BY <1>1, <1>2, ViewMoves

LEMMA ViewOpen ==
    ASSUME LedgerTypes, ViewInv, NEW w \in Writers, Open(w)
    PROVE  ViewInv'
<1>1. PICK pc : pc = IF w \in Owners THEN "opening" ELSE "idle"
  OBVIOUS
<1>2. PICK rec : rec = [Down EXCEPT !.pc = pc, !.file = path, !.health = "ready", !.cursor = files[path]]
  OBVIOUS
<1>3. /\ Set(w, rec) /\ UNCHANGED <<files, model>> /\ lock' = (IF w \in Owners THEN w ELSE lock)
      /\ (w \in Owners => lock = None)
  BY <1>1, <1>2 DEF Open
<1>4. rec.pc = pc /\ rec.view = FALSE /\ rec.wrote = FALSE
  BY <1>2 DEF Down
<1>5. Viewing(w, rec, files[rec.file], model') /\ rec.pc # "down"
  BY <1>1, <1>4 DEF Viewing, Writing, Placed
<1> QED BY <1>3, <1>5, ViewMoves

LEMMA ViewSynchronize ==
    ASSUME LedgerTypes, ViewInv, NEW w \in Writers, Synchronize(w)
    PROVE  ViewInv'
<1>1. UNCHANGED files /\ writer[w].pc = "opening" /\ writer[w] \in Records /\ w \in Owners
  BY DEF Synchronize, At, LedgerTypes, Knows, ViewInv, Viewing
<1>2. CASE Leave(w) /\ model' = model
  BY <1>1, <1>2, ViewLeave
<1>3. CASE ~(Leave(w) /\ model' = model)
  <2>1. PICK rec : rec = [writer[w] EXCEPT !.view = TRUE]
    OBVIOUS
  <2>2. model' = writer[w].cursor /\ Idle(w, rec) /\ UNCHANGED lock
    BY <1>3, <2>1 DEF Synchronize
  <2>3. rec \in Records /\ rec.cursor = writer[w].cursor
    BY <1>1, <2>1 DEF Records
  <2> QED BY <1>1, <2>2, <2>3, ViewIdle
<1> QED BY <1>2, <1>3

(* A writer that loses its cursor loses its view.                           *)
LEMMA ViewQuarantined ==
    ASSUME LedgerTypes, ViewInv, NEW w \in Writers, Set(w, Quarantined(w)),
           writer[w].pc = "idle", UNCHANGED <<files, lock>>,
           model' = model \/ w \in Owners
    PROVE  ViewInv'
<1>1. writer[w] \in Records
  BY DEF LedgerTypes, Knows
<1>2. PICK rec : rec = Quarantined(w)
  OBVIOUS
<1>3. rec.pc = "idle" /\ ~rec.view /\ ~rec.wrote
  BY <1>1, <1>2, QuarantinedBlind DEF ViewInv, Viewing
<1>4. Viewing(w, rec, files[rec.file], model')
  BY <1>3 DEF Viewing, Writing, Placed
<1> QED BY <1>2, <1>3, <1>4, ViewMoves

LEMMA ViewQuarantinedIdle ==
    ASSUME LedgerTypes, ViewInv, NEW w \in Writers, Idle(w, Quarantined(w)),
           writer[w].pc # "down", UNCHANGED <<files, lock>>,
           model' = model \/ w \in Owners
    PROVE  ViewInv'
<1>1. writer[w] \in Records
  BY DEF LedgerTypes, Knows
<1>2. Quarantined(w) \in Records /\ ~Quarantined(w).view
  BY <1>1, QuarantinedBlind
<1> QED BY <1>2, ViewIdle

LEMMA ViewRecover ==
    ASSUME LedgerTypes, ViewInv, NEW w \in Writers, Recover(w)
    PROVE  ViewInv'
<1>1. /\ writer[w] \in Records /\ writer[w].pc = "idle" /\ w \notin Owners
      /\ UNCHANGED <<files, lock, model>>
  BY DEF Recover, At, still, slot, LedgerTypes, Knows
<1>2. CASE Bound(w)
  <2>1. PICK rec : rec = [writer[w] EXCEPT !.health = "ready", !.cursor = Durable(w)]
    OBVIOUS
  <2>2. Set(w, rec) /\ rec.pc = "idle" /\ rec.wrote = writer[w].wrote /\ ~writer[w].wrote
    BY <1>1, <1>2, <2>1 DEF Recover, Records, ViewInv, Viewing
  <2>3. Viewing(w, rec, files[rec.file], model')
    BY <1>1, <2>2 DEF Viewing, Writing, Placed
  <2> QED BY <1>1, <2>2, <2>3, ViewMoves
<1>3. CASE ~Bound(w)
  BY <1>1, <1>3, ViewQuarantined DEF Recover
<1> QED BY <1>2, <1>3

LEMMA ViewReadHeads ==
    ASSUME LedgerTypes, ViewInv, NEW w \in Writers, NEW r \in Requests,
           ReadHeads(w, r) \/ FindMoved(w, r) \/ RefuseHead(w, r)
    PROVE  ViewInv'
<1>1. UNCHANGED <<files, lock, model>> /\ writer[w].pc = "idle"
  BY DEF ReadHeads, FindMoved, RefuseHead, Submitted, Ready, At, still, slot
<1>2. UNCHANGED writer \/ Set(w, Quarantined(w))
  BY DEF ReadHeads, FindMoved, RefuseHead
<1>3. CASE UNCHANGED writer
  BY <1>1, <1>3, ViewStays
<1>4. CASE Set(w, Quarantined(w))
  BY <1>1, <1>4, ViewQuarantined
<1> QED BY <1>2, <1>3, <1>4

LEMMA ViewBegin ==
    ASSUME LedgerTypes, ViewInv, NEW w \in Writers, NEW r \in Requests, NEW o \in Outcomes,
           Replay(w, r, o) \/ Insert(w, r, o)
    PROVE  ViewInv'
<1>1. /\ UNCHANGED <<files, lock, model>> /\ writer[w].pc = "idle" /\ writer[w] \in Records
      /\ files[writer[w].file] = writer[w].cursor /\ (w \in Owners => writer[w].view)
  BY DEF Replay, Insert, Submitted, Ready, At, still, slot, LedgerTypes, Knows, Hot, Durable
<1>2. ~writer[w].wrote /\ (w \in Owners /\ writer[w].view => model = writer[w].cursor)
  BY <1>1 DEF ViewInv, Viewing
<1>3. PICK e : e = Entry(r, o)
  OBVIOUS
<1>4. PICK pc \in {"written", "inserted"} : Set(w, [writer[w] EXCEPT !.pc = pc, !.work = e])
  BY <1>3 DEF Replay, Insert
<1>5. PICK rec : rec = [writer[w] EXCEPT !.pc = pc, !.work = e]
  OBVIOUS
<1>6. /\ rec.pc = pc /\ rec.file = writer[w].file /\ rec.cursor = writer[w].cursor
      /\ rec.view = writer[w].view /\ rec.wrote = writer[w].wrote
  BY <1>1, <1>5 DEF Records
<1>7. Viewing(w, rec, files[rec.file], model')
  BY <1>1, <1>2, <1>4, <1>6 DEF Viewing, Writing, Placed
<1> QED BY <1>1, <1>4, <1>5, <1>6, <1>7, ViewMoves

LEMMA ViewFence ==
    ASSUME LedgerTypes, ViewInv, NEW w \in Writers, Fence(w)
    PROVE  ViewInv'
<1>1. /\ UNCHANGED <<files, lock, model>> /\ writer[w].pc = "inserted" /\ writer[w] \in Records
      /\ Viewing(w, writer[w], files[writer[w].file], model)
  BY DEF Fence, At, still, slot, LedgerTypes, Knows, ViewInv
<1>2. CASE Bound(w)
  <2>1. PICK rec : rec = [writer[w] EXCEPT !.pc = "fenced"]
    OBVIOUS
  <2>2. /\ Set(w, rec) /\ rec.pc = "fenced" /\ rec.file = writer[w].file
        /\ rec.cursor = writer[w].cursor /\ rec.view = writer[w].view
    BY <1>1, <1>2, <2>1 DEF Fence, Records
  <2>3. Viewing(w, rec, files[rec.file], model')
    BY <1>1, <2>2 DEF Viewing, Writing, Placed
  <2> QED BY <1>1, <2>2, <2>3, ViewMoves
<1>3. CASE ~Bound(w)
  <2>1. Idle(w, Quarantined(w))
    BY <1>3 DEF Fence
  <2> QED BY <1>1, <2>1, ViewQuarantinedIdle
<1> QED BY <1>2, <1>3

LEMMA ViewAbort ==
    ASSUME LedgerTypes, ViewInv, NEW w \in Writers, Abort(w)
    PROVE  ViewInv'
<1>1. /\ UNCHANGED <<files, lock, model>> /\ writer[w].pc \in Writing /\ writer[w] \in Records
      /\ Viewing(w, writer[w], files[writer[w].file], model)
  BY DEF Abort, At, slot, Writing, LedgerTypes, Knows, ViewInv
<1>2. PICK h \in {"ready", "quarantined"} : Idle(w, [writer[w] EXCEPT !.health = h])
  BY DEF Abort
<1>3. PICK rec : rec = [writer[w] EXCEPT !.health = h]
  OBVIOUS
<1>4. rec \in Records /\ rec.cursor = writer[w].cursor /\ rec.view = writer[w].view
  BY <1>1, <1>3 DEF Records
<1>5. w \in Owners /\ rec.view => model' = rec.cursor
  BY <1>1, <1>4 DEF Viewing
<1>6. writer[w].pc # "down" /\ Idle(w, rec)
  BY <1>1, <1>2, <1>3 DEF Writing
<1> QED BY <1>1, <1>4, <1>5, <1>6, ViewIdle

LEMMA ViewSettle ==
    ASSUME LedgerTypes, ViewInv, NEW w \in Writers, Settle(w) \/ SettleFails(w)
    PROVE  ViewInv'
<1>1. /\ UNCHANGED <<files, lock, model>> /\ writer[w].pc = "written" /\ writer[w] \in Records
      /\ Viewing(w, writer[w], files[writer[w].file], model)
  BY DEF Settle, SettleFails, At, still, slot, LedgerTypes, Knows, ViewInv
<1>2. CASE Idle(w, Quarantined(w))
  BY <1>1, <1>2, ViewQuarantinedIdle
<1>3. CASE ~Idle(w, Quarantined(w))
  <2>1. PICK c : c = Advanced(w)
    OBVIOUS
  <2>2. PICK kept : kept = [writer[w] EXCEPT !.cursor = c]
    OBVIOUS
  <2>3. \/ w \in Owners /\ Set(w, [kept EXCEPT !.pc = "appended"])
        \/ w \notin Owners /\ Idle(w, kept)
    BY <1>3, <2>1, <2>2 DEF Settle, SettleFails
  <2>4. c = (IF writer[w].wrote THEN Append(writer[w].cursor, writer[w].work) ELSE writer[w].cursor)
    BY <2>1 DEF Advanced
  <2>5. c \in Seq(Entries)
    <3>1. writer[w].cursor \in Seq(Entries) /\ writer[w].work \in Entries
      BY <1>1 DEF Records, LedgerTypes, Knows
    <3> QED BY <2>4, <3>1
  <2>6. kept \in Records /\ kept.cursor = c
    BY <1>1, <2>2, <2>5 DEF Records
  <2>7. CASE w \in Owners /\ Set(w, [kept EXCEPT !.pc = "appended"])
    <3>1. PICK rec : rec = [kept EXCEPT !.pc = "appended"]
      OBVIOUS
    <3>2. /\ rec.pc = "appended" /\ rec.cursor = c /\ rec.view = writer[w].view
          /\ rec.work = writer[w].work
      BY <1>1, <2>2, <3>1 DEF Records
    <3>3. ASSUME rec.view
          PROVE  \/ model' = rec.cursor
                 \/ rec.cursor = Append(model', rec.work) /\ ~Held(rec.work, model')
      <4>1. model' = writer[w].cursor
        BY <1>1, <2>7, <3>2, <3>3 DEF Viewing
      <4>2. writer[w].wrote => ~Held(writer[w].work, writer[w].cursor)
        BY <1>1 DEF Viewing
      <4> QED BY <2>4, <3>2, <4>1, <4>2
    <3>4. Viewing(w, rec, files[rec.file], model')
      BY <2>7, <3>2, <3>3 DEF Viewing, Writing, Placed
    <3> QED BY <1>1, <2>7, <3>1, <3>2, <3>4, ViewMoves
  <2>8. CASE w \notin Owners /\ Idle(w, kept)
    BY <1>1, <2>6, <2>8, ViewIdle
  <2> QED BY <2>3, <2>7, <2>8
<1> QED BY <1>2, <1>3

LEMMA ViewProject ==
    ASSUME LedgerTypes, ViewInv, NEW w \in Writers, Project(w)
    PROVE  ViewInv'
<1>1. /\ UNCHANGED <<files, lock>> /\ writer[w].pc = "appended" /\ writer[w] \in Records
      /\ Viewing(w, writer[w], files[writer[w].file], model) /\ w \in Owners
      /\ Held(writer[w].work, writer[w].cursor)
  BY DEF Project, At, LedgerTypes, Knows, ViewInv, Viewing, Placed
<1>2. writer[w].view => model' = writer[w].cursor
  <2> SUFFICES ASSUME writer[w].view PROVE model' = writer[w].cursor
    OBVIOUS
  <2>1. model' = IF Held(writer[w].work, model) THEN model ELSE Append(model, writer[w].work)
    BY DEF Project, Applied
  <2>2. \/ model = writer[w].cursor
        \/ writer[w].cursor = Append(model, writer[w].work) /\ ~Held(writer[w].work, model)
    BY <1>1 DEF Viewing
  <2> QED BY <1>1, <2>1, <2>2
<1>3. Idle(w, writer[w]) \/ Idle(w, Quarantined(w))
  BY DEF Project
<1>4. CASE Idle(w, writer[w])
  BY <1>1, <1>2, <1>4, ViewIdle
<1>5. CASE Idle(w, Quarantined(w))
  BY <1>1, <1>5, ViewQuarantinedIdle
<1> QED BY <1>3, <1>4, <1>5

LEMMA ViewProjectFails ==
    ASSUME LedgerTypes, ViewInv, NEW w \in Writers, ProjectFails(w)
    PROVE  ViewInv'
<1>1. /\ UNCHANGED <<files, lock, model>> /\ writer[w].pc = "appended" /\ writer[w] \in Records
      /\ w \in Owners
  BY DEF ProjectFails, At, slot, LedgerTypes, Knows, ViewInv, Viewing, Placed
<1>2. PICK rec : rec = [writer[w] EXCEPT !.pc = "rebuilding", !.view = FALSE]
  OBVIOUS
<1>3. Set(w, rec) /\ rec.pc = "rebuilding" /\ rec.view = FALSE
  BY <1>1, <1>2 DEF ProjectFails, Records
<1>4. Viewing(w, rec, files[rec.file], model')
  BY <1>1, <1>3 DEF Viewing, Writing, Placed
<1> QED BY <1>1, <1>3, <1>4, ViewMoves

LEMMA ViewRebuild ==
    ASSUME LedgerTypes, ViewInv, NEW w \in Writers, Rebuild(w) \/ RebuildFails(w)
    PROVE  ViewInv'
<1>1. /\ UNCHANGED <<files, lock>> /\ writer[w].pc = "rebuilding" /\ writer[w] \in Records
      /\ w \in Owners /\ ~writer[w].view
  BY DEF Rebuild, RebuildFails, At, still, slot, LedgerTypes, Knows, ViewInv, Viewing, Placed
<1>2. CASE Idle(w, Quarantined(w))
  BY <1>1, <1>2, ViewQuarantinedIdle
<1>3. CASE Idle(w, writer[w])
  BY <1>1, <1>3, ViewIdle
<1>4. CASE Rebuild(w) /\ ~Idle(w, Quarantined(w))
  <2>1. Hot(w) /\ Idle(w, [writer[w] EXCEPT !.view = TRUE])
    BY <1>4 DEF Rebuild
  <2>2. PICK rec : rec = [writer[w] EXCEPT !.view = TRUE]
    OBVIOUS
  <2>3. rec \in Records /\ rec.cursor = writer[w].cursor
    BY <1>1, <2>2 DEF Records
  <2>4. model' = rec.cursor
    BY <1>4, <2>1, <2>3 DEF Rebuild, Hot
  <2> QED BY <1>1, <2>1, <2>2, <2>3, <2>4, ViewIdle
<1> QED BY <1>2, <1>3, <1>4 DEF RebuildFails

LEMMA ViewRebuildProjection ==
    ASSUME LedgerTypes, ViewInv, NEW w \in Writers, RebuildProjection(w)
    PROVE  ViewInv'
<1>1. /\ UNCHANGED <<files, lock>> /\ writer[w].pc = "idle" /\ writer[w] \in Records
      /\ w \in Owners /\ ~writer[w].wrote
  BY DEF RebuildProjection, Ready, At, LedgerTypes, Knows, ViewInv, Viewing
<1>2. CASE Hot(w)
  <2>1. PICK rec : rec = [writer[w] EXCEPT !.view = TRUE]
    OBVIOUS
  <2>2. /\ Set(w, rec) /\ rec.pc = "idle" /\ rec.cursor = writer[w].cursor /\ rec.wrote = writer[w].wrote
    BY <1>1, <1>2, <2>1 DEF RebuildProjection, Records
  <2>3. model' = rec.cursor
    BY <1>2, <2>2 DEF RebuildProjection, Hot
  <2>4. Viewing(w, rec, files[rec.file], model')
    BY <1>1, <2>2, <2>3 DEF Viewing, Writing, Placed
  <2> QED BY <1>1, <2>2, <2>4, ViewMoves
<1>3. CASE ~Hot(w)
  <2>1. Set(w, Quarantined(w))
    BY <1>3 DEF RebuildProjection
  <2> QED BY <1>1, <2>1, ViewQuarantined
<1> QED BY <1>2, <1>3

LEMMA ViewCommit ==
    ASSUME LedgerInv, ViewInv, NEW w \in Writers, Commit(w)
    PROVE  ViewInv'
<1> LedgerTypes /\ OneWriter /\ WorkFits
  BY DEF LedgerInv
<1>1. /\ UNCHANGED <<lock, model>> /\ writer[w].pc = "fenced" /\ writer[w] \in Records
      /\ Viewing(w, writer[w], files[writer[w].file], model)
      /\ writer[w].file \in DOMAIN files
  BY DEF Commit, At, LedgerTypes, Knows, ViewInv
<1>2. PICK rec : rec = [writer[w] EXCEPT !.pc = "written", !.wrote = TRUE]
  OBVIOUS
<1>3. /\ Set(w, rec) /\ rec.pc = "written" /\ rec.file = writer[w].file /\ rec.work = writer[w].work
      /\ rec.cursor = writer[w].cursor /\ rec.view = writer[w].view
  BY <1>1, <1>2 DEF Commit, Records
<1>4. /\ writer'[w] = rec
      /\ \A v \in Writers \ {w} : writer'[v] = writer[v]
  BY <1>3 DEF Set, LedgerTypes
<1>5. \A f \in DOMAIN files : f # writer[w].file => files'[f] = files[f]
  BY DEF Commit, LedgerTypes
<1>6. ~Held(writer[w].work, writer[w].cursor)
  <2>1. writer[w].cursor = files[writer[w].file] /\ Fits(writer[w].work, files[writer[w].file])
    BY <1>1 DEF Viewing, WorkFits, Writing
  <2>2. Rows(writer[w].cursor, writer[w].work.request) = {}
    BY <2>1 DEF Fits
  <2> QED BY <2>2 DEF Rows, Held
<1>7. ASSUME NEW v \in Writers
      PROVE  Viewing(v, writer'[v], files'[writer'[v].file], model')
  <2>1. CASE v = w
    BY <1>1, <1>3, <1>4, <1>6, <2>1 DEF Viewing, Writing, Placed
  <2>2. CASE v # w
    <3>1. writer'[v] = writer[v] /\ Viewing(v, writer[v], files[writer[v].file], model)
      BY <1>4, <2>2 DEF ViewInv
    <3>2. CASE writer[v].pc \in Writing
      <4>1. writer[v].file # writer[w].file /\ writer[v].file \in DOMAIN files
        <5>1. writer[w].pc \in Writing
          BY <1>1 DEF Writing
        <5>2. writer[v].pc # "down"
          BY <3>2 DEF Writing
        <5> QED BY <2>2, <3>2, <5>1, <5>2 DEF OneWriter, LedgerTypes, Knows
      <4>2. files'[writer[v].file] = files[writer[v].file]
        BY <1>5, <4>1
      <4> QED BY <1>1, <3>1, <4>2
    <3>3. CASE writer[v].pc \notin Writing
      BY <1>1, <3>1, <3>3 DEF Viewing
    <3> QED BY <3>2, <3>3
  <2> QED BY <2>1, <2>2
<1>8. \A v \in Writers : Viewing(v, writer[v], files[writer[v].file], model)'
  BY <1>7 DEF Viewing, Held
<1>9. OwnerLocks'
  <2> SUFFICES ASSUME NEW v \in Owners PROVE lock' = v <=> writer'[v].pc # "down"
    BY DEF OwnerLocks
  <2>1. v \in Writers /\ (lock = v <=> writer[v].pc # "down")
    BY CompanyAssumption DEF ViewInv, OwnerLocks
  <2> QED BY <1>1, <1>3, <1>4, <2>1
<1> QED BY <1>8, <1>9 DEF ViewInv

LEMMA ViewSwap ==
    ASSUME LedgerTypes, ViewInv, Swap
    PROVE  ViewInv'
<1>1. UNCHANGED <<lock, model, writer>>
  BY DEF Swap
<1>2. \A f \in DOMAIN files : files'[f] = files[f]
  BY DEF Swap, LedgerTypes
<1>3. ASSUME NEW v \in Writers
      PROVE  Viewing(v, writer[v], files'[writer[v].file], model)
  <2>1. Viewing(v, writer[v], files[writer[v].file], model)
    BY DEF ViewInv
  <2>2. CASE writer[v].pc = "down"
    BY <2>1, <2>2 DEF Viewing, Writing
  <2>3. CASE writer[v].pc # "down"
    <3>1. files'[writer[v].file] = files[writer[v].file]
      BY <1>2, <2>3 DEF LedgerTypes, Knows
    <3> QED BY <2>1, <3>1
  <2> QED BY <2>2, <2>3
<1>4. \A v \in Writers : Viewing(v, writer[v], files[writer[v].file], model)'
  BY <1>1, <1>3 DEF Viewing, Held
<1> QED BY <1>1, <1>4 DEF ViewInv, OwnerLocks

LEMMA ViewLoseModel ==
    ASSUME LedgerTypes, ViewInv, LoseModel
    PROVE  ViewInv'
<1>1. UNCHANGED <<lock, files, writer>> /\ lock = None
  BY DEF LoseModel
<1>2. ASSUME NEW v \in Writers
      PROVE  Viewing(v, writer[v], files[writer[v].file], model')
  <2>1. v \in Owners => writer[v].pc = "down"
    BY <1>1, CompanyAssumption DEF ViewInv, OwnerLocks
  <2>2. Viewing(v, writer[v], files[writer[v].file], model)
    BY DEF ViewInv
  <2> QED BY <2>1, <2>2 DEF Viewing, Writing, Placed
<1>3. \A v \in Writers : Viewing(v, writer[v], files[writer[v].file], model)'
  BY <1>1, <1>2 DEF Viewing, Held
<1> QED BY <1>1, <1>3 DEF ViewInv, OwnerLocks

LEMMA ViewStep == LedgerInv /\ ViewInv /\ [Next]_vars => ViewInv'
<1> SUFFICES ASSUME LedgerInv, ViewInv, [Next]_vars PROVE ViewInv'
  OBVIOUS
<1> LedgerTypes
  BY DEF LedgerInv
<1>1. ASSUME NEW w \in Writers, Close(w) \/ Kill(w) PROVE ViewInv'
  BY <1>1, ViewLeave DEF Close, Kill
<1>2. ASSUME NEW w \in Writers, NEW r \in Requests,
             ReadHeads(w, r) \/ FindMoved(w, r) \/ RefuseHead(w, r) PROVE ViewInv'
  BY <1>2, ViewReadHeads
<1>3. ASSUME NEW w \in Writers, NEW r \in Requests, NEW o \in Outcomes,
             Replay(w, r, o) \/ Insert(w, r, o) PROVE ViewInv'
  BY <1>3, ViewBegin
<1>4. ASSUME NEW w \in Writers, NEW r \in Requests, NEW o \in Outcomes, RefuseReuse(w, r, o)
      PROVE  ViewInv'
  BY <1>4, ViewStays DEF RefuseReuse, still, slot
<1>5. ASSUME NEW w \in Writers,
             \/ Open(w) \/ Synchronize(w) \/ Recover(w) \/ Fence(w) \/ Commit(w) \/ Abort(w)
             \/ Settle(w) \/ SettleFails(w) \/ Project(w) \/ ProjectFails(w) \/ Rebuild(w)
             \/ RebuildFails(w) \/ RebuildProjection(w)
      PROVE  ViewInv'
  BY <1>5, ViewOpen, ViewSynchronize, ViewRecover, ViewFence, ViewCommit, ViewAbort, ViewSettle,
     ViewProject, ViewProjectFails, ViewRebuild, ViewRebuildProjection
<1>6. CASE UNCHANGED vars
  BY <1>6, ViewStays DEF vars
<1>7. ASSUME NEW w \in Writers, Serve(w) PROVE ViewInv'
  BY <1>1, <1>2, <1>3, <1>4, <1>5, <1>7 DEF Serve
<1> QED BY <1>6, <1>7, ViewSwap, ViewLoseModel DEF Next

(* CompanyStateOwner.commit decides on the read model and appends to the    *)
(* ledger: whatever other writers, restores, failing projections and losses *)
(* of the model came before, at the append the two are the same.            *)
THEOREM AdmittedOnLedger == Spec => AdmittedOnCurrent
<1>1. Init => ViewInv
  BY CompanyAssumption DEF Init, ViewInv, OwnerLocks, Viewing, Down, Writing, Placed
<1>2. ViewInv => [\A w \in Owners : At(w, "fenced") /\ writer'[w].pc = "written"
                                       => model = Durable(w)]_vars
  BY CompanyAssumption DEF ViewInv, Viewing, Writing, Durable, At
<1> QED BY <1>1, <1>2, ViewStep, LedgerInvariant, PTL DEF Spec, AdmittedOnCurrent
=============================================================================
