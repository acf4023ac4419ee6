------------------------ MODULE CompanyServiceProofs ------------------------
(***************************************************************************)
(* Proofs about what stands around the Company's ledger: the clients of the *)
(* resident's queue are told the truth; the legacy bridge sends no          *)
(* preparation twice, and its receipts and answers are true of the ledger;  *)
(* the supervisor starts no more agents than there are slots and loses      *)
(* sight of none.  They hold for every set of requests, clients, legacy     *)
(* states, departments and carriers, every size of the queue and any number *)
(* of stops and kills.                                                      *)
(***************************************************************************)
EXTENDS ServiceQueue, LegacyBridge, CompanySupervisor, FiniteSetTheorems, TLAPS

-----------------------------------------------------------------------------
(* The resident's queue                                                      *)

OwnerBusy == {"execute", "commit", "admit"}

(* The shape of the state; the owner's loop has a request while it is busy. *)
QueueTypeOK ==
    /\ queueCame \in Nat
    /\ queueHeld \subseteq Nat \X QueueIds
    /\ queueWaiting \subseteq QueueIds
    /\ queueAnswer \in [QueueIds -> {"no answer", "none", "committed", "effect_unknown"}]
    /\ queueDone \in [QueueIds -> Nat]
    /\ IF queueOwner.step \in OwnerBusy THEN queueOwner.request \in QueueIds
                                   ELSE queueOwner.request = Nobody

IsHeld(r) == \E e \in queueHeld : e[2] = r

(* A request is in one place: once in the queue, or with the owner; and it  *)
(* gets there only by being submitted.                                      *)
OnePlace ==
    /\ \A e, f \in queueHeld : e[2] = f[2] => e = f
    /\ \A e \in queueHeld : e[2] # queueOwner.request
    /\ \A r \in QueueIds : IsHeld(r) \/ queueOwner.request = r => ~Unsubmitted(r)

(* What is in the ledger follows from the place.                            *)
DoneByPlace ==
    /\ \A r \in QueueIds : Unsubmitted(r) \/ IsHeld(r) => queueDone[r] = 0
    /\ queueOwner.step \in {"execute", "commit"} => queueDone[queueOwner.request] = 0
    /\ queueOwner.step = "admit" =>
          /\ queueDone[queueOwner.request] = 1
          /\ QueueRequests[queueOwner.request] = "dispatch"

(* Who waits has no answer yet.                                             *)
WaitersOpen == \A r \in queueWaiting : queueAnswer[r] = "no answer"

QueueInv == QueueTypeOK /\ OnePlace /\ DoneByPlace /\ WaitersOpen /\ AnswersSound

LEMMA NobodyApart == Nobody \notin QueueIds
  BY QueueAssumption DEF Nobody, QueueIds

LEMMA QueueInitInv == QueueInit => QueueInv
<1> SUFFICES ASSUME QueueInit PROVE QueueInv
  OBVIOUS
<1>1. queueOwner.step = "check" /\ queueOwner.request = Nobody
  BY DEF QueueInit, OwnerAt
<1>2. QueueTypeOK
  BY <1>1 DEF QueueInit, QueueTypeOK, OwnerBusy
<1>3. OnePlace
  BY <1>1, NobodyApart DEF QueueInit, OnePlace, IsHeld
<1>4. DoneByPlace
  BY <1>1 DEF QueueInit, DoneByPlace
<1>5. WaitersOpen
  BY DEF QueueInit, WaitersOpen
<1>6. AnswersSound
  <2> SUFFICES ASSUME NEW r \in QueueIds
               PROVE  /\ queueAnswer[r] = "no answer" /\ queueDone[r] = 0
                      /\ 0 <= IF QueueRequests[r] = "dispatch" THEN 2 ELSE 1
    BY DEF AnswersSound
  <2>1. queueAnswer[r] = "no answer"
    BY DEF QueueInit
  <2>2. queueDone[r] = 0
    BY DEF QueueInit
  <2>3. 0 <= IF QueueRequests[r] = "dispatch" THEN 2 ELSE 1
    <3>1. CASE QueueRequests[r] = "dispatch"
      BY <3>1
    <3>2. CASE QueueRequests[r] # "dispatch"
      BY <3>2
    <3> QED BY <3>1, <3>2
  <2> QED BY <2>1, <2>2, <2>3
<1> QED BY <1>2, <1>3, <1>4, <1>5, <1>6 DEF QueueInv

(* HTTP workers: a refusal is only told of a request that never got in.     *)
LEMMA SubmitInv ==
    ASSUME QueueInv, NEW r \in QueueIds, Submit(r)
    PROVE  QueueInv'
<1> QueueTypeOK /\ OnePlace /\ DoneByPlace /\ WaitersOpen /\ AnswersSound
  BY DEF QueueInv
<1>0. /\ Unsubmitted(r) /\ ~IsHeld(r) /\ queueOwner.request # r /\ queueDone[r] = 0
      /\ UNCHANGED <<queueDone, queueOwner>>
  BY DEF Submit, OnePlace, DoneByPlace
<1>1. CASE Admitted(r)
  <2> DEFINE entry == <<queueCame, r>>
  <2>1. /\ queueHeld' = queueHeld \cup {entry} /\ queueCame' = queueCame + 1
        /\ queueWaiting' = queueWaiting \cup {r} /\ queueAnswer' = queueAnswer
    BY <1>1 DEF Submit
  <2>2. entry \in Nat \X QueueIds /\ entry[2] = r
    BY DEF QueueTypeOK
  <2> HIDE DEF entry
  <2>3. QueueTypeOK'
    <3>1. queueCame' \in Nat
      <4>1. queueCame' = queueCame + 1
        BY <2>1
      <4>2. queueCame \in Nat
        BY DEF QueueTypeOK
      <4> QED BY <4>1, <4>2
    <3>2. queueHeld' \subseteq Nat \X QueueIds
      BY <2>1, <2>2 DEF QueueTypeOK
    <3>3. queueWaiting' \subseteq QueueIds
      BY <2>1 DEF QueueTypeOK
    <3>4. IF queueOwner'.step \in OwnerBusy THEN queueOwner'.request \in QueueIds
                                      ELSE queueOwner'.request = Nobody
      BY <1>0 DEF QueueTypeOK
    <3>5. /\ queueAnswer' \in [QueueIds -> {"no answer", "none", "committed", "effect_unknown"}]
          /\ queueDone' \in [QueueIds -> Nat]
      BY <1>0, <2>1 DEF QueueTypeOK
    <3> QED BY <3>1, <3>2, <3>3, <3>4, <3>5 DEF QueueTypeOK
  <2>8. \A q \in QueueIds : Unsubmitted(q)' => Unsubmitted(q) /\ q # r
    BY <2>1 DEF Unsubmitted
  <2>9. \A e \in queueHeld' : e = entry \/ (e \in queueHeld /\ e[2] # r)
    BY <1>0, <2>1 DEF IsHeld
  <2>4. OnePlace'
    BY <1>0, <2>2, <2>8, <2>9 DEF OnePlace, IsHeld
  <2>5. DoneByPlace'
    BY <1>0, <2>2, <2>8, <2>9 DEF DoneByPlace, IsHeld
  <2>6. WaitersOpen'
    BY <1>0, <2>1 DEF WaitersOpen, Unsubmitted
  <2>7. AnswersSound'
    BY <1>0, <2>1, <2>2 DEF AnswersSound, Unsubmitted
  <2> QED BY <2>3, <2>4, <2>5, <2>6, <2>7 DEF QueueInv
<1>2. CASE ~Admitted(r)
  <2>1. /\ queueAnswer' = [queueAnswer EXCEPT ![r] = "none"]
        /\ UNCHANGED <<queueHeld, queueCame, queueWaiting>>
    BY <1>2 DEF Submit, Tell
  <2>2. QueueTypeOK'
    BY <1>0, <2>1 DEF QueueTypeOK, OwnerBusy
  <2>3. \A q \in QueueIds : queueAnswer'[q] = IF q = r THEN "none" ELSE queueAnswer[q]
    BY <2>1 DEF QueueTypeOK
  <2>4. OnePlace'
    BY <1>0, <2>1, <2>3 DEF OnePlace, IsHeld, Unsubmitted
  <2>5. DoneByPlace'
    BY <1>0, <2>1, <2>3 DEF DoneByPlace, IsHeld, Unsubmitted
  <2>6. WaitersOpen'
    BY <1>0, <2>1, <2>3 DEF WaitersOpen, Unsubmitted, QueueTypeOK
  <2>7. AnswersSound'
    BY <1>0, <2>1, <2>3 DEF AnswersSound, IsHeld
  <2> QED BY <2>2, <2>4, <2>5, <2>6, <2>7 DEF QueueInv
<1> QED BY <1>1, <1>2

(* A worker whose wait times out does not claim to know what happened.      *)
LEMMA TimeOutInv ==
    ASSUME QueueInv, NEW r \in QueueIds, WaitTimesOut(r)
    PROVE  QueueInv'
<1> QueueTypeOK /\ OnePlace /\ DoneByPlace /\ WaitersOpen /\ AnswersSound
  BY DEF QueueInv
<1>1. /\ r \in queueWaiting /\ queueWaiting' = queueWaiting \ {r}
      /\ UNCHANGED <<queueHeld, queueCame, queueDone, queueOwner>>
  BY DEF WaitTimesOut
<1>2. /\ TimedOut(r) \in {"none", "effect_unknown"}
      /\ TimedOut(r) = "none" => QueueRequests[r] = "query"
  BY DEF TimedOut
<1>3. \A q \in QueueIds : queueAnswer'[q] = IF q = r THEN TimedOut(r) ELSE queueAnswer[q]
  BY DEF WaitTimesOut, Tell, QueueTypeOK
<1>4. QueueTypeOK'
  BY <1>1, <1>2 DEF WaitTimesOut, Tell, QueueTypeOK, OwnerBusy
<1>5. \A q \in QueueIds : Unsubmitted(q)' => Unsubmitted(q)
  BY <1>1, <1>2, <1>3 DEF Unsubmitted
<1>6. OnePlace'
  BY <1>1, <1>5 DEF OnePlace, IsHeld
<1>7. DoneByPlace'
  BY <1>1, <1>5 DEF DoneByPlace, IsHeld
<1>8. WaitersOpen'
  BY <1>1, <1>3 DEF WaitersOpen, QueueTypeOK
<1>9. AnswersSound'
  BY <1>1, <1>2, <1>3 DEF AnswersSound
<1> QED BY <1>4, <1>6, <1>7, <1>8, <1>9 DEF QueueInv

-----------------------------------------------------------------------------
(* The owner *)

(* Only a worker that still waits gets the answer.                          *)
LEMMA AnswersFacts ==
    ASSUME QueueTypeOK, NEW r \in QueueIds,
           NEW a \in {"none", "committed", "effect_unknown"}, Answers(r, a)
    PROVE  /\ queueWaiting' = queueWaiting \ {r}
           /\ queueAnswer' \in [QueueIds -> {"no answer", "none", "committed", "effect_unknown"}]
           /\ \A q \in QueueIds : queueAnswer'[q] = IF q = r /\ r \in queueWaiting THEN a
                                                    ELSE queueAnswer[q]
<1>1. CASE r \in queueWaiting
  BY <1>1 DEF Answers, Tell, QueueTypeOK
<1>2. CASE r \notin queueWaiting
  BY <1>2 DEF Answers, QueueTypeOK
<1> QED BY <1>1, <1>2

(* The owner is done with a request: what the steps that end one share.     *)
LEMMA EndsInv ==
    ASSUME QueueInv, NEW r \in QueueIds, queueOwner.request = r,
           NEW a \in {"none", "committed", "effect_unknown"}, Answers(r, a),
           queueOwner'.step \notin OwnerBusy, queueOwner'.request = Nobody,
           UNCHANGED <<queueHeld, queueCame>>,
           queueDone' \in [QueueIds -> Nat],
           \A q \in QueueIds \ {r} : queueDone'[q] = queueDone[q],
           queueDone[r] <= queueDone'[r],
           queueDone'[r] <= IF QueueRequests[r] = "dispatch" THEN 2 ELSE 1,
           a = "none" /\ QueueRequests[r] # "query" => queueDone'[r] = 0,
           a = "committed" => queueDone'[r] > 0
    PROVE  QueueInv'
<1> QueueTypeOK /\ OnePlace /\ DoneByPlace /\ WaitersOpen /\ AnswersSound
  BY DEF QueueInv
<1>1. /\ queueWaiting' = queueWaiting \ {r}
      /\ queueAnswer' \in [QueueIds -> {"no answer", "none", "committed", "effect_unknown"}]
  BY AnswersFacts
<1>2. \A q \in QueueIds : queueAnswer'[q] = IF q = r /\ r \in queueWaiting THEN a
                                             ELSE queueAnswer[q]
  BY ZenonT(40), AnswersFacts
<1>3. ~IsHeld(r) /\ ~Unsubmitted(r)
  BY DEF OnePlace, IsHeld
<1>4. queueHeld' = queueHeld /\ queueCame' = queueCame
  OBVIOUS
<1>5. QueueTypeOK'
  <2>1. queueWaiting' \subseteq QueueIds
    BY <1>1 DEF QueueTypeOK
  <2>2. queueHeld' \subseteq Nat \X QueueIds /\ queueCame' \in Nat
    BY <1>4 DEF QueueTypeOK
  <2> QED BY <1>1, <2>1, <2>2 DEF QueueTypeOK
<1>6. \A q \in QueueIds : Unsubmitted(q)' => Unsubmitted(q) /\ q # r
  BY <1>1, <1>2, <1>3 DEF Unsubmitted
<1>7. OnePlace'
  <2>1. \A e \in queueHeld : e[2] \in QueueIds
    BY DEF QueueTypeOK
  <2> QED BY <1>3, <1>4, <1>6, <2>1, NobodyApart DEF OnePlace, IsHeld
<1>8. DoneByPlace'
  BY <1>3, <1>4, <1>6 DEF DoneByPlace, IsHeld, OwnerBusy
<1>9. WaitersOpen'
  BY <1>1, <1>2 DEF WaitersOpen, QueueTypeOK
<1>10. AnswersSound'
  <2> SUFFICES ASSUME NEW q \in QueueIds
               PROVE  /\ queueAnswer'[q] = "none" /\ QueueRequests[q] # "query" =>
                            /\ queueDone'[q] = 0 /\ queueOwner'.request # q
                            /\ \A e \in queueHeld' : e[2] # q
                      /\ queueAnswer'[q] = "committed" => queueDone'[q] > 0
                      /\ queueDone'[q] <= IF QueueRequests[q] = "dispatch" THEN 2 ELSE 1
    BY DEF AnswersSound
  <2>1. queueOwner'.request # q
    BY NobodyApart
  <2>2. CASE q = r
    <3>1. \A e \in queueHeld' : e[2] # r
      BY <1>3, <1>4 DEF IsHeld
    <3>2. CASE r \in queueWaiting
      BY <1>2, <2>1, <2>2, <3>1, <3>2
    <3>3. CASE r \notin queueWaiting
      <4>1. queueAnswer'[r] = queueAnswer[r]
        BY <1>2, <3>3
      <4>2. queueAnswer[r] = "none" => QueueRequests[r] = "query"
        BY DEF AnswersSound
      <4>3. queueAnswer[r] = "committed" => queueDone'[r] > 0
        <5>1. queueDone[r] \in Nat /\ queueDone'[r] \in Nat
          BY DEF QueueTypeOK
        <5>2. queueAnswer[r] = "committed" => queueDone[r] > 0
          BY DEF AnswersSound
        <5> QED BY <5>1, <5>2
      <4> QED BY <2>1, <2>2, <3>1, <4>1, <4>2, <4>3
    <3> QED BY <3>2, <3>3
  <2>3. CASE q # r
    BY <1>2, <1>4, <2>1, <2>3 DEF AnswersSound
  <2> QED BY <2>2, <2>3
<1> QED BY <1>5, <1>7, <1>8, <1>9, <1>10 DEF QueueInv

(* The owner moves between places where it has no request.                  *)
LEMMA IdleInv ==
    ASSUME QueueInv, queueOwner.step \notin OwnerBusy,
           queueOwner'.step \notin OwnerBusy, queueOwner'.request = Nobody,
           UNCHANGED <<queueHeld, queueCame, queueWaiting, queueAnswer, queueDone>>
    PROVE  QueueInv'
<1> QueueTypeOK /\ OnePlace /\ DoneByPlace /\ WaitersOpen /\ AnswersSound
  BY DEF QueueInv
<1>1. queueOwner.request = Nobody
  BY DEF QueueTypeOK
<1>2. QueueTypeOK'
  BY DEF QueueTypeOK
<1>3. OnePlace'
  BY <1>1 DEF OnePlace, IsHeld, Unsubmitted
<1>4. DoneByPlace'
  BY DEF DoneByPlace, IsHeld, Unsubmitted, OwnerBusy
<1>5. WaitersOpen'
  BY DEF WaitersOpen
<1>6. AnswersSound'
  BY <1>1 DEF AnswersSound
<1> QED BY <1>2, <1>3, <1>4, <1>5, <1>6 DEF QueueInv

LEMMA CheckStopInv == ASSUME QueueInv, CheckStop PROVE QueueInv'
  BY IdleInv DEF CheckStop, Owner, OwnerGoes, OwnerAt, OwnerBusy

LEMMA RequestStopInv == ASSUME QueueInv, RequestStop PROVE QueueInv'
<1>1. UNCHANGED <<queueHeld, queueCame, queueWaiting, queueAnswer, queueDone, queueOwner>>
  BY DEF RequestStop
<1> QED BY <1>1 DEF QueueInv, QueueTypeOK, OnePlace, DoneByPlace, WaitersOpen,
           AnswersSound, IsHeld, Unsubmitted

(* A request taken from the queue is nowhere else, and has no commit yet.   *)
LEMMA TakeInv ==
    ASSUME QueueInv, NEW e \in queueHeld, queueOwner.step \notin OwnerBusy,
           queueHeld' = queueHeld \ {e}, queueOwner' = OwnerAt("execute", e[2]),
           UNCHANGED <<queueCame, queueWaiting, queueAnswer, queueDone>>
    PROVE  QueueInv'
<1> QueueTypeOK /\ OnePlace /\ DoneByPlace /\ WaitersOpen /\ AnswersSound
  BY DEF QueueInv
<1>1. queueOwner'.step = "execute" /\ queueOwner'.request = e[2] /\ e[2] \in QueueIds
  BY DEF OwnerAt, QueueTypeOK
<1>2. \A f \in queueHeld' : f \in queueHeld /\ f[2] # e[2]
  BY DEF OnePlace
<1>3. QueueTypeOK'
  BY <1>1, <1>2 DEF QueueTypeOK, OwnerBusy
<1>4. IsHeld(e[2])
  BY DEF IsHeld
<1>5. OnePlace'
  BY <1>1, <1>2, <1>4 DEF OnePlace, IsHeld, Unsubmitted
<1>6. DoneByPlace'
  BY <1>1, <1>2, <1>4 DEF DoneByPlace, IsHeld, Unsubmitted
<1>7. WaitersOpen'
  BY DEF WaitersOpen
<1>8. AnswersSound'
  BY <1>1, <1>2 DEF AnswersSound
<1> QED BY <1>3, <1>5, <1>6, <1>7, <1>8 DEF QueueInv

LEMMA TakeRequestInv == ASSUME QueueInv, TakeRequest PROVE QueueInv'
<1>1. queueOwner.step \notin OwnerBusy
  BY DEF TakeRequest, Owner, OwnerBusy
<1>2. UNCHANGED <<queueCame, queueWaiting, queueAnswer, queueDone>>
  BY DEF TakeRequest
<1>3. CASE OwnerGoes("check", Nobody) /\ UNCHANGED queueHeld
  BY <1>1, <1>2, <1>3, IdleInv DEF OwnerGoes, OwnerAt, OwnerBusy
<1>4. CASE \E e \in queueHeld : queueHeld' = queueHeld \ {e} /\ OwnerGoes("execute", e[2])
  BY <1>1, <1>2, <1>4, TakeInv DEF OwnerGoes
<1> QED BY <1>3, <1>4 DEF TakeRequest

(* The owner goes on with its request.                                      *)
LEMMA ExecuteBeginsInv == ASSUME QueueInv, ExecuteBegins PROVE QueueInv'
<1> QueueTypeOK /\ OnePlace /\ DoneByPlace /\ WaitersOpen /\ AnswersSound
  BY DEF QueueInv
<1>1. /\ queueOwner.step = "execute" /\ queueOwner'.step = "commit"
      /\ queueOwner'.request = queueOwner.request
      /\ UNCHANGED <<queueHeld, queueCame, queueWaiting, queueAnswer, queueDone>>
  BY DEF ExecuteBegins, Owner, OwnerGoes, OwnerAt
<1>2. QueueTypeOK'
  BY <1>1 DEF QueueTypeOK, OwnerBusy
<1>3. OnePlace'
  BY <1>1 DEF OnePlace, IsHeld, Unsubmitted
<1>4. DoneByPlace'
  BY <1>1 DEF DoneByPlace, IsHeld, Unsubmitted
<1>5. WaitersOpen' /\ AnswersSound'
  BY <1>1 DEF WaitersOpen, AnswersSound
<1> QED BY <1>2, <1>3, <1>4, <1>5 DEF QueueInv

(* What the owner knows of a request it is about to commit.                 *)
LEMMA AtCommit ==
    ASSUME QueueInv, queueOwner.step \in {"execute", "commit"}
    PROVE  /\ queueOwner.request \in QueueIds /\ queueDone[queueOwner.request] = 0
           /\ queueDone \in [QueueIds -> Nat]
  BY DEF QueueInv, QueueTypeOK, DoneByPlace, OwnerBusy

(* A request is ended with as many commits as were added to it.             *)
LEMMA EndsWith ==
    ASSUME QueueInv, NEW r \in QueueIds, queueOwner.request = r,
           NEW a \in {"none", "committed", "effect_unknown"}, Answers(r, a),
           NEW step, step \notin OwnerBusy, OwnerGoes(step, Nobody),
           UNCHANGED <<queueHeld, queueCame>>,
           Commits(r) \/ UNCHANGED queueDone,
           Commits(r) => queueDone[r] + 1 <= IF QueueRequests[r] = "dispatch" THEN 2 ELSE 1,
           a = "none" /\ QueueRequests[r] # "query" => queueDone[r] = 0 /\ UNCHANGED queueDone,
           a = "committed" => Commits(r) \/ queueDone[r] > 0
    PROVE  QueueInv'
<1> QueueTypeOK /\ AnswersSound
  BY DEF QueueInv
<1>1. queueOwner'.step \notin OwnerBusy /\ queueOwner'.request = Nobody
  BY DEF OwnerGoes, OwnerAt
<1>2. queueDone[r] \in Nat /\ queueDone \in [QueueIds -> Nat]
  BY DEF QueueTypeOK
<1>3. queueDone[r] <= IF QueueRequests[r] = "dispatch" THEN 2 ELSE 1
  BY DEF AnswersSound
<1>4. CASE Commits(r)
  <2>1. /\ queueDone' \in [QueueIds -> Nat] /\ queueDone'[r] = queueDone[r] + 1
        /\ \A q \in QueueIds \ {r} : queueDone'[q] = queueDone[q]
    BY <1>2, <1>4 DEF Commits
  <2>2. queueDone[r] <= queueDone'[r] /\ queueDone'[r] > 0
    BY <1>2, <2>1
  <2>3. queueDone'[r] <= IF QueueRequests[r] = "dispatch" THEN 2 ELSE 1
    BY <1>4, <2>1
  <2>4. ~(a = "none" /\ QueueRequests[r] # "query")
    BY <1>2, <2>1
  <2> QED BY <1>1, <2>1, <2>2, <2>3, <2>4, EndsInv
<1>5. CASE UNCHANGED queueDone /\ ~Commits(r)
  <2>1. queueDone' = queueDone /\ queueDone[r] <= queueDone[r]
    BY <1>2, <1>5
  <2> QED BY <1>1, <1>2, <1>3, <1>5, <2>1, EndsInv
<1> QED BY <1>4, <1>5

(* There is room for one commit in every request, for two in a dispatch.    *)
LEMMA Room ==
    ASSUME NEW r, NEW n \in Nat, n <= (IF QueueRequests[r] = "dispatch" THEN 1 ELSE 0)
    PROVE  n + 1 <= IF QueueRequests[r] = "dispatch" THEN 2 ELSE 1
<1>1. CASE QueueRequests[r] = "dispatch"
  BY <1>1
<1>2. CASE QueueRequests[r] # "dispatch"
  BY <1>2
<1> QED BY <1>1, <1>2

LEMMA RoomAtCommit ==
    ASSUME NEW r
    PROVE  0 + 1 <= IF QueueRequests[r] = "dispatch" THEN 2 ELSE 1
<1>1. 0 <= IF QueueRequests[r] = "dispatch" THEN 1 ELSE 0
  <2>1. CASE QueueRequests[r] = "dispatch"
    BY <2>1
  <2>2. CASE QueueRequests[r] # "dispatch"
    BY <2>2
  <2> QED BY <2>1, <2>2
<1> QED BY <1>1, Room

LEMMA ExecuteStoppingInv == ASSUME QueueInv, ExecuteStopping PROVE QueueInv'
<1> DEFINE r == queueOwner.request
<1>1. /\ queueOwner.step = "execute" /\ Answers(r, "none") /\ OwnerGoes("check", Nobody)
      /\ UNCHANGED <<queueHeld, queueCame>> /\ UNCHANGED queueDone
  BY DEF ExecuteStopping, Owner
<1>2. r \in QueueIds /\ queueDone[r] = 0
  BY <1>1, AtCommit
<1>3. "check" \notin OwnerBusy
  BY DEF OwnerBusy
<1>4. 0 + 1 <= IF QueueRequests[r] = "dispatch" THEN 2 ELSE 1
  BY RoomAtCommit
<1> HIDE DEF r
<1>5. queueOwner.request = r
  BY DEF r
<1> QED BY <1>1, <1>2, <1>3, <1>4, <1>5, EndsWith

LEMMA CommitRequestInv == ASSUME QueueInv, CommitRequest PROVE QueueInv'
<1> DEFINE r == queueOwner.request
<1>1. /\ queueOwner.step = "commit" /\ OwnerGoes("check", Nobody)
      /\ UNCHANGED <<queueHeld, queueCame>>
  BY DEF CommitRequest, Owner
<1>2. \/ Commits(r) /\ Answers(r, "committed")
      \/ Commits(r) /\ Answers(r, "effect_unknown")
      \/ UNCHANGED queueDone /\ Answers(r, "effect_unknown")
      \/ UNCHANGED queueDone /\ Answers(r, "none")
  BY DEF CommitRequest
<1>3. r \in QueueIds /\ queueDone[r] = 0
  BY <1>1, AtCommit
<1>4. "check" \notin OwnerBusy
  BY DEF OwnerBusy
<1>5. 0 + 1 <= IF QueueRequests[r] = "dispatch" THEN 2 ELSE 1
  BY RoomAtCommit
<1>6. queueOwner.request = r
  OBVIOUS
<1> HIDE DEF r
<1>7. CASE Commits(r) /\ Answers(r, "committed")
  BY <1>1, <1>3, <1>4, <1>5, <1>6, <1>7, EndsWith
<1>8. CASE (Commits(r) \/ UNCHANGED queueDone) /\ Answers(r, "effect_unknown")
  BY <1>1, <1>3, <1>4, <1>5, <1>6, <1>8, EndsWith
<1>9. CASE UNCHANGED queueDone /\ Answers(r, "none")
  BY <1>1, <1>3, <1>4, <1>5, <1>6, <1>9, EndsWith
<1> QED BY <1>2, <1>7, <1>8, <1>9

LEMMA ReadbackInv == ASSUME QueueInv, Readback PROVE QueueInv'
<1> DEFINE r == queueOwner.request
<1>1. /\ queueOwner.step = "commit" /\ Answers(r, "none") /\ OwnerGoes("check", Nobody)
      /\ UNCHANGED <<queueHeld, queueCame>> /\ UNCHANGED queueDone
  BY DEF Readback, Owner
<1>2. r \in QueueIds /\ queueDone[r] = 0
  BY <1>1, AtCommit
<1>3. "check" \notin OwnerBusy
  BY DEF OwnerBusy
<1>4. 0 + 1 <= IF QueueRequests[r] = "dispatch" THEN 2 ELSE 1
  BY RoomAtCommit
<1> HIDE DEF r
<1>5. queueOwner.request = r
  BY DEF r
<1> QED BY <1>1, <1>2, <1>3, <1>4, <1>5, EndsWith

(* The first of the two commits of a dispatch.                              *)
LEMMA EnqueuedInv ==
    ASSUME QueueInv, NEW r \in QueueIds, queueOwner.request = r,
           queueOwner.step = "commit", QueueRequests[r] = "dispatch",
           Commits(r), OwnerGoes("admit", r),
           UNCHANGED <<queueHeld, queueCame, queueWaiting, queueAnswer>>
    PROVE  QueueInv'
<1> QueueTypeOK /\ OnePlace /\ DoneByPlace /\ WaitersOpen /\ AnswersSound
  BY DEF QueueInv
<1>1. /\ queueOwner'.step = "admit" /\ queueOwner'.request = r
      /\ ~IsHeld(r) /\ ~Unsubmitted(r)
  BY DEF OwnerGoes, OwnerAt, OnePlace, IsHeld
<1>2. queueDone[r] = 0 /\ queueDone \in [QueueIds -> Nat]
  BY AtCommit
<1>3. /\ queueDone' \in [QueueIds -> Nat] /\ queueDone'[r] = 1
      /\ \A q \in QueueIds \ {r} : queueDone'[q] = queueDone[q]
  BY <1>2 DEF Commits
<1>4. QueueTypeOK'
  BY <1>1, <1>3 DEF QueueTypeOK, OwnerBusy
<1>5. OnePlace'
  BY <1>1 DEF OnePlace, IsHeld, Unsubmitted
<1>6. DoneByPlace'
  BY <1>1, <1>3 DEF DoneByPlace, IsHeld, Unsubmitted
<1>7. WaitersOpen'
  BY DEF WaitersOpen
<1>8. AnswersSound'
  <2>1. \A q \in QueueIds : queueAnswer[q] = "none" /\ QueueRequests[q] # "query" => q # r
    BY DEF AnswersSound
  <2>2. queueOwner'.request = queueOwner.request
    BY <1>1
  <2> QED BY <1>3, <2>1, <2>2 DEF AnswersSound
<1> QED BY <1>4, <1>5, <1>6, <1>7, <1>8 DEF QueueInv

LEMMA EnqueueInv == ASSUME QueueInv, Enqueue PROVE QueueInv'
<1> DEFINE r == queueOwner.request
<1>1. /\ queueOwner.step = "commit" /\ QueueRequests[r] = "dispatch"
      /\ UNCHANGED <<queueHeld, queueCame>>
  BY DEF Enqueue, Owner
<1>2. r \in QueueIds /\ queueDone[r] = 0
  BY <1>1, AtCommit
<1>3. "check" \notin OwnerBusy
  BY DEF OwnerBusy
<1>4. 0 + 1 <= IF QueueRequests[r] = "dispatch" THEN 2 ELSE 1
  BY RoomAtCommit
<1>5. \/ Commits(r) /\ OwnerGoes("admit", r) /\ UNCHANGED <<queueWaiting, queueAnswer>>
      \/ UNCHANGED queueDone /\ Answers(r, "none") /\ OwnerGoes("check", Nobody)
      \/ /\ Commits(r) \/ UNCHANGED queueDone
         /\ Answers(r, "effect_unknown") /\ OwnerGoes("check", Nobody)
  BY DEF Enqueue
<1>6. queueOwner.request = r
  OBVIOUS
<1> HIDE DEF r
<1>7. CASE Commits(r) /\ OwnerGoes("admit", r) /\ UNCHANGED <<queueWaiting, queueAnswer>>
  BY <1>1, <1>2, <1>6, <1>7, EnqueuedInv
<1>8. CASE UNCHANGED queueDone /\ Answers(r, "none") /\ OwnerGoes("check", Nobody)
  BY <1>1, <1>2, <1>3, <1>4, <1>6, <1>8, EndsWith
<1>9. CASE /\ Commits(r) \/ UNCHANGED queueDone
           /\ Answers(r, "effect_unknown") /\ OwnerGoes("check", Nobody)
  BY <1>1, <1>2, <1>3, <1>4, <1>6, <1>9, EndsWith
<1> QED BY <1>5, <1>7, <1>8, <1>9

(* The second: whatever it does, the enqueue is in the ledger.              *)
LEMMA AdmitInv == ASSUME QueueInv, Admit PROVE QueueInv'
<1> DEFINE r == queueOwner.request
<1>1. /\ queueOwner.step = "admit" /\ OwnerGoes("check", Nobody)
      /\ UNCHANGED <<queueHeld, queueCame>>
      /\ Commits(r) \/ UNCHANGED queueDone
      /\ Answers(r, "committed") \/ Answers(r, "effect_unknown")
  BY DEF Admit, Owner, AdmissionFailed
<1>2. r \in QueueIds /\ queueDone[r] = 1 /\ QueueRequests[r] = "dispatch"
  BY <1>1 DEF QueueInv, QueueTypeOK, DoneByPlace, OwnerBusy
<1>3. "check" \notin OwnerBusy
  BY DEF OwnerBusy
<1>4. queueDone[r] + 1 <= IF QueueRequests[r] = "dispatch" THEN 2 ELSE 1
  BY <1>2
<1>5. queueDone[r] > 0
  BY <1>2
<1>6. queueOwner.request = r
  OBVIOUS
<1> HIDE DEF r
<1>7. CASE Answers(r, "committed")
  BY <1>1, <1>2, <1>3, <1>4, <1>5, <1>6, <1>7, EndsWith
<1>8. CASE Answers(r, "effect_unknown")
  BY <1>1, <1>2, <1>3, <1>4, <1>5, <1>6, <1>8, EndsWith
<1> QED BY <1>1, <1>7, <1>8

(* A loop that fails inside a request leaves it without a result.           *)
LEMMA OwnerFailsInv == ASSUME QueueInv, OwnerFails PROVE QueueInv'
<1>1. CASE Owner("check")
  BY <1>1, IdleInv DEF OwnerFails, Owner, OwnerGoes, OwnerAt, OwnerBusy
<1>2. CASE ~Owner("check")
  <2> DEFINE r == queueOwner.request
             a == TimedOut(r)
  <2>1. /\ queueOwner.step \in {"commit", "admit"} /\ Answers(r, a)
        /\ OwnerGoes("drain", Nobody) /\ UNCHANGED <<queueHeld, queueCame>>
        /\ UNCHANGED queueDone
    BY <1>2 DEF OwnerFails, Owner
  <2>2. r \in QueueIds /\ queueDone \in [QueueIds -> Nat]
    BY <2>1 DEF QueueInv, QueueTypeOK, OwnerBusy
  <2>3. "drain" \notin OwnerBusy
    BY DEF OwnerBusy
  <2>4. a \in {"none", "effect_unknown"} /\ (a = "none" => QueueRequests[r] = "query")
    BY DEF TimedOut
  <2>5. queueDone[r] <= IF QueueRequests[r] = "dispatch" THEN 2 ELSE 1
    BY <2>2 DEF QueueInv, AnswersSound
  <2>6. queueOwner.request = r /\ OwnerGoes("drain", Nobody)
    BY <2>1
  <2>7. queueOwner'.step \notin OwnerBusy /\ queueOwner'.request = Nobody
    BY <2>3, <2>6 DEF OwnerGoes, OwnerAt
  <2>8. queueDone[r] <= queueDone[r]
    BY <2>2
  <2> HIDE DEF r, a
  <2> QED BY <2>1, <2>2, <2>4, <2>5, <2>6, <2>7, <2>8, EndsInv
<1> QED BY <1>1, <1>2

(* What is still queued was never executed: its refusal is true.            *)
LEMMA StopAndFailPendingInv == ASSUME QueueInv, StopAndFailPending PROVE QueueInv'
<1> QueueTypeOK /\ OnePlace /\ DoneByPlace /\ WaitersOpen /\ AnswersSound
  BY DEF QueueInv
<1> DEFINE left == {e[2] : e \in queueHeld} \cap queueWaiting
<1>1. /\ queueOwner'.step = "closed" /\ queueOwner'.request = Nobody
      /\ queueHeld' = {} /\ queueWaiting' = queueWaiting \ left
      /\ UNCHANGED <<queueCame, queueDone>>
  BY DEF StopAndFailPending, OwnerGoes, OwnerAt
<1>2. queueAnswer' = [r \in QueueIds |-> IF r \in left THEN "none" ELSE queueAnswer[r]]
  BY DEF StopAndFailPending
<1>3. \A r \in left : r \in queueWaiting /\ IsHeld(r)
  BY DEF IsHeld
<1> HIDE DEF left
<1>4. \A r \in QueueIds : queueAnswer'[r] = IF r \in left THEN "none" ELSE queueAnswer[r]
  BY <1>2
<1>5. QueueTypeOK'
  <2>1. queueAnswer' \in [QueueIds -> {"no answer", "none", "committed", "effect_unknown"}]
    BY <1>2 DEF QueueTypeOK
  <2>2. queueWaiting' \subseteq QueueIds /\ queueHeld' \subseteq Nat \X QueueIds
    BY <1>1 DEF QueueTypeOK
  <2> QED BY <1>1, <2>1, <2>2 DEF QueueTypeOK, OwnerBusy
<1>6. \A r \in QueueIds : Unsubmitted(r)' => Unsubmitted(r)
  BY <1>1, <1>4 DEF Unsubmitted
<1>7. OnePlace'
  BY <1>1, NobodyApart DEF OnePlace, IsHeld
<1>8. DoneByPlace'
  BY <1>1, <1>6 DEF DoneByPlace, IsHeld
<1>9. WaitersOpen'
  BY <1>1, <1>4 DEF WaitersOpen, QueueTypeOK
<1>10. AnswersSound'
  <2>1. \A r \in left : queueDone[r] = 0
    BY <1>3 DEF DoneByPlace, QueueTypeOK
  <2>2. \A r \in QueueIds : queueOwner'.request # r
    BY <1>1, NobodyApart
  <2>3. \A r \in QueueIds : queueAnswer'[r] = "none" /\ QueueRequests[r] # "query"
                             => queueDone[r] = 0
    BY <1>4, <2>1 DEF AnswersSound
  <2>4. \A r \in QueueIds : queueAnswer'[r] = "committed" => queueDone[r] > 0
    BY <1>4 DEF AnswersSound
  <2> QED BY <1>1, <2>2, <2>3, <2>4 DEF AnswersSound
<1> QED BY <1>5, <1>7, <1>8, <1>9, <1>10 DEF QueueInv

LEMMA QueueStutterInv == QueueInv /\ UNCHANGED queueVars => QueueInv'
  BY DEF queueVars, QueueInv, QueueTypeOK, OnePlace, DoneByPlace, WaitersOpen,
     AnswersSound, IsHeld, Unsubmitted

LEMMA QueueNextInv == QueueInv /\ QueueNext => QueueInv'
<1> SUFFICES ASSUME QueueInv, QueueNext PROVE QueueInv'
  OBVIOUS
<1>1. ASSUME NEW r \in QueueIds, Submit(r) PROVE QueueInv'
  BY <1>1, SubmitInv
<1>2. ASSUME NEW r \in QueueIds, WaitTimesOut(r) PROVE QueueInv'
  BY <1>2, TimeOutInv
<1>3. CASE OwnerStep
  <2>1. ASSUME CheckStop PROVE QueueInv'
    BY <2>1, CheckStopInv
  <2>2. ASSUME TakeRequest PROVE QueueInv'
    BY <2>2, TakeRequestInv
  <2>3. ASSUME ExecuteStopping PROVE QueueInv'
    BY <2>3, ExecuteStoppingInv
  <2>4. ASSUME ExecuteBegins PROVE QueueInv'
    BY <2>4, ExecuteBeginsInv
  <2>5. ASSUME CommitRequest PROVE QueueInv'
    BY <2>5, CommitRequestInv
  <2>6. ASSUME Readback PROVE QueueInv'
    BY <2>6, ReadbackInv
  <2>7. ASSUME Enqueue PROVE QueueInv'
    BY <2>7, EnqueueInv
  <2>8. ASSUME Admit PROVE QueueInv'
    BY <2>8, AdmitInv
  <2>9. ASSUME StopAndFailPending PROVE QueueInv'
    BY <2>9, StopAndFailPendingInv
  <2> QED BY <1>3, <2>1, <2>2, <2>3, <2>4, <2>5, <2>6, <2>7, <2>8, <2>9 DEF OwnerStep
<1>4. ASSUME RequestStop PROVE QueueInv'
  BY <1>4, RequestStopInv
<1>5. ASSUME OwnerFails PROVE QueueInv'
  BY <1>5, OwnerFailsInv
<1> QED BY <1>1, <1>2, <1>3, <1>4, <1>5 DEF QueueNext

(* What _await_operation tells a client is true of the ledger for every set *)
(* of requests: "none" means that nothing was committed and nothing of the  *)
(* request is left to execute, "committed" that something was, and a        *)
(* request is never committed twice.                                        *)
THEOREM ClientsToldTruth == QueueSpec => []AnswersSound
<1>1. QueueInv /\ [QueueNext]_queueVars => QueueInv'
  BY QueueNextInv, QueueStutterInv
<1>2. QueueInv => AnswersSound
  BY DEF QueueInv
<1> QED BY <1>1, <1>2, QueueInitInv, PTL DEF QueueSpec

-----------------------------------------------------------------------------
(* The legacy bridge                                                         *)

Effects   == {"none", "committed", "effect_unknown"}
Beginning == {"source", "prepare"}
Phases    == Beginning \cup {"post", "wait", "query", "receipt"}

Runs == [doc : Documents, phase : Phases, post : Effects]

Unknown   == With("effect_unknown")
BridgeCommitted == With("committed")
NoEffect  == With("none")

BridgeTypeOK ==
    /\ bridgeLegacy \in Documents
    /\ bridgeHeld \in [BridgeClients -> Documents \cup {NoBridge}]
    /\ bridgeRun # NoBridge => bridgeRun \in Runs
    /\ bridgeSources \subseteq Documents /\ bridgePrepared \subseteq Documents
    /\ bridgeSettled \subseteq Documents
    /\ bridgeTerminal \in [Documents -> Effects \cup {NoBridge}]
    /\ bridgeSent \in [Documents -> Nat]
    /\ bridgeWire \subseteq Documents /\ bridgeIngested \subseteq Documents
    /\ bridgeReply \in Effects \cup {NoBridge}
    /\ bridgeAnswers \subseteq Documents \X Effects

(* Receipts come in their order, and what was never prepared left no trace. *)
ReceiptOrder ==
    /\ \A d \in bridgeSettled : d \in bridgePrepared /\ bridgeTerminal[d] # NoBridge
    /\ \A d \in Documents : bridgeTerminal[d] # NoBridge => d \in bridgePrepared
    /\ \A d \in Documents : d \notin bridgePrepared => bridgeSent[d] = 0
    /\ \A a \in bridgeAnswers : a[1] \in bridgePrepared

(* A scope has one attempt to care about for each legacy state, and one of  *)
(* unknown effect in all.                                                   *)
OneAttempt ==
    /\ \A p, q \in Unknown : p = q
    /\ \A p, q \in Unknown \cup BridgeCommitted : p[1] = q[1] => p = q

(* What client.lock makes true of the run that holds it.                    *)
RunBegins ==
    bridgeRun # NoBridge /\ bridgeRun.phase \in Beginning =>
        /\ bridgeRun.doc \notin bridgePrepared /\ Unknown = {}
        /\ \A p \in BridgeCommitted : p[1] # bridgeRun.doc[1]

RunOn ==
    bridgeRun # NoBridge /\ bridgeRun.phase \notin Beginning =>
        /\ bridgeRun.doc \in Unknown \cup BridgeCommitted /\ Unknown \subseteq {bridgeRun.doc}

RunPosts ==
    bridgeRun # NoBridge /\ bridgeRun.phase \in {"post", "wait"} =>
        /\ bridgeRun.doc \in Unknown /\ bridgeTerminal[bridgeRun.doc] = NoBridge
        /\ bridgeRun.phase = "post" =>
              /\ bridgeSent[bridgeRun.doc] = 0
              /\ \A a \in bridgeAnswers : a[1] # bridgeRun.doc
        /\ bridgeRun.phase = "wait" /\ bridgeReply = "none" =>
              bridgeRun.doc \notin bridgeWire \cup bridgeIngested

RunKnows ==
    bridgeRun # NoBridge =>
        /\ bridgeRun.post = "none" /\ bridgeRun.phase # "wait" =>
              /\ bridgeRun.phase \in {"query", "receipt"}
              /\ bridgeTerminal[bridgeRun.doc] = NoBridge
              /\ bridgeRun.doc \notin bridgeWire \cup bridgeIngested
        /\ bridgeRun.post = "committed" /\ bridgeRun.phase = "receipt" =>
              bridgeRun.doc \in bridgeIngested

(* A request is on its way or in the ledger at most once, and only if sent. *)
Requests ==
    /\ \A d \in Documents : bridgeSent[d] <= 1
    /\ \A d \in Documents : bridgeSent[d] = 0 => d \notin bridgeWire \cup bridgeIngested
    /\ bridgeWire \cap bridgeIngested = {}
    /\ IF bridgeCoverage = NoBridge THEN bridgeIngested = {} ELSE bridgeCoverage \in bridgeIngested

BridgeInv ==
    /\ BridgeTypeOK /\ ReceiptOrder /\ OneAttempt
    /\ RunBegins /\ RunOn /\ RunPosts /\ RunKnows
    /\ Requests /\ EffectsTrue /\ UnknownStaysReadable

-----------------------------------------------------------------------------
(* Every prepared attempt has one of the three effects.                     *)
LEMMA EffectOf ==
    ASSUME BridgeTypeOK
    PROVE  /\ \A d \in Documents : CurrentEffect(d) \in Effects
           /\ bridgePrepared = Unknown \cup BridgeCommitted \cup NoEffect
           /\ Unknown \cup BridgeCommitted \cup NoEffect \subseteq Documents
           /\ Unknown \cap BridgeCommitted = {} /\ Unknown \cap NoEffect = {}
           /\ BridgeCommitted \cap NoEffect = {}
<1>1. \A d \in Documents : CurrentEffect(d) \in Effects
  BY DEF BridgeTypeOK, CurrentEffect, Effects
<1> QED BY <1>1 DEF BridgeTypeOK, Unknown, BridgeCommitted, NoEffect, With, Effects

(* The effects are a function of the receipts.                              *)
LEMMA SameDisk ==
    ASSUME UNCHANGED bridgeDisk
    PROVE  Unknown' = Unknown /\ BridgeCommitted' = BridgeCommitted /\ NoEffect' = NoEffect
  BY DEF bridgeDisk, Unknown, BridgeCommitted, NoEffect, With, CurrentEffect

LEMMA BridgeInitInv == BridgeInit => BridgeInv
<1> SUFFICES ASSUME BridgeInit PROVE BridgeInv
  OBVIOUS
<1>1. BridgeTypeOK
  <2>1. 1 \in 1 .. BridgeTimes
    BY BridgeAssumption
  <2> QED BY <2>1 DEF BridgeInit, BridgeTypeOK, Documents
<1>2. Unknown = {} /\ BridgeCommitted = {} /\ NoEffect = {}
  BY DEF BridgeInit, Unknown, BridgeCommitted, NoEffect, With
<1>3. ReceiptOrder
  BY DEF BridgeInit, ReceiptOrder
<1>4. OneAttempt
  BY <1>2 DEF OneAttempt
<1>5. RunBegins /\ RunOn /\ RunPosts /\ RunKnows
  BY DEF BridgeInit, RunBegins, RunOn, RunPosts, RunKnows
<1>6. Requests
  BY DEF BridgeInit, Requests
<1>7. EffectsTrue /\ UnknownStaysReadable
  BY <1>2 DEF BridgeInit, EffectsTrue, UnknownStaysReadable, Unknown, BridgeCommitted, NoEffect
<1> QED BY <1>1, <1>3, <1>4, <1>5, <1>6, <1>7 DEF BridgeInv

LEMMA BridgeStutterInv == BridgeInv /\ UNCHANGED bridgeVars => BridgeInv'
<1> SUFFICES ASSUME BridgeInv, UNCHANGED bridgeVars PROVE BridgeInv'
  OBVIOUS
<1>1. Unknown' = Unknown /\ BridgeCommitted' = BridgeCommitted /\ NoEffect' = NoEffect
  BY SameDisk DEF bridgeVars
<1> QED BY <1>1 DEF BridgeInv, bridgeVars, bridgeDisk, bridgeResident, BridgeTypeOK, ReceiptOrder,
           OneAttempt, RunBegins, RunOn, RunPosts, RunKnows, Requests, EffectsTrue,
           UnknownStaysReadable, Unknown, BridgeCommitted, NoEffect
-----------------------------------------------------------------------------
(* Steps that write no receipt and move no request *)

LEMMA QuietFrame ==
    ASSUME BridgeInv, UNCHANGED <<bridgeDisk, bridgeSent, bridgeResident>>,
           BridgeTypeOK', RunBegins', RunOn', RunPosts', RunKnows',
           \A a \in bridgeAnswers' \ bridgeAnswers :
               /\ a[1] \in bridgePrepared
               /\ a[2] = "none" => a[1] \notin bridgeIngested \cup bridgeWire
               /\ a[2] = "committed" => a[1] \in bridgeIngested
    PROVE  BridgeInv'
<1>1. Unknown' = Unknown /\ BridgeCommitted' = BridgeCommitted /\ NoEffect' = NoEffect
  BY SameDisk
<1>2. /\ UNCHANGED <<bridgeSources, bridgePrepared, bridgeTerminal, bridgeSettled, bridgeSent>>
      /\ UNCHANGED <<bridgeWire, bridgeIngested, bridgeCoverage>>
  BY DEF bridgeDisk, bridgeResident
<1>3. ReceiptOrder'
  BY <1>2 DEF BridgeInv, ReceiptOrder
<1>4. OneAttempt'
  BY <1>1 DEF BridgeInv, OneAttempt
<1>5. Requests'
  BY <1>2 DEF BridgeInv, Requests
<1>6. EffectsTrue'
  BY <1>1, <1>2 DEF BridgeInv, EffectsTrue, NoEffect, BridgeCommitted
<1>7. UnknownStaysReadable'
  BY <1>1, <1>2 DEF BridgeInv, UnknownStaysReadable, Unknown
<1> QED BY <1>3, <1>4, <1>5, <1>6, <1>7 DEF BridgeInv

(* What a run knows does not change while nothing it looks at changes.      *)
LEMMA RunFrame ==
    ASSUME BridgeInv, UNCHANGED <<bridgeDisk, bridgeSent, bridgeResident>>,
           UNCHANGED <<bridgeRun, bridgeReply, bridgeAnswers>>
    PROVE  RunBegins' /\ RunOn' /\ RunPosts' /\ RunKnows'
<1>1. Unknown' = Unknown /\ BridgeCommitted' = BridgeCommitted
  BY SameDisk
<1>2. /\ UNCHANGED <<bridgePrepared, bridgeTerminal, bridgeWire, bridgeIngested>>
  BY DEF bridgeDisk, bridgeResident
<1> QED BY <1>1, <1>2 DEF BridgeInv, RunBegins, RunOn, RunPosts, RunKnows

(* No run, nothing to know.                                                 *)
LEMMA NoRun ==
    ASSUME bridgeRun' = NoBridge
    PROVE  RunBegins' /\ RunOn' /\ RunPosts' /\ RunKnows'
  BY DEF RunBegins, RunOn, RunPosts, RunKnows

LEMMA LegacyChangesInv ==
    ASSUME BridgeInv, NEW s \in BridgeStates, LegacyChanges(s)
    PROVE  BridgeInv'
<1>1. UNCHANGED <<bridgeHeld, bridgeRun, bridgeDisk, bridgeSent, bridgeReply,
                  bridgeResident, bridgeAnswers>>
  BY DEF LegacyChanges
<1>2. bridgeLegacy' \in Documents
  <2>1. bridgeLegacy[2] \in 1 .. BridgeTimes /\ bridgeLegacy[2] < BridgeTimes
    BY DEF LegacyChanges, BridgeInv, BridgeTypeOK, Documents
  <2>2. bridgeLegacy[2] + 1 \in 1 .. BridgeTimes
    BY <2>1, BridgeAssumption
  <2> QED BY <2>2 DEF LegacyChanges, Documents
<1>3. BridgeTypeOK'
  BY <1>1, <1>2 DEF BridgeInv, BridgeTypeOK, bridgeDisk, bridgeResident
<1> QED BY <1>1, <1>3, RunFrame, QuietFrame

LEMMA LoadSourceInv ==
    ASSUME BridgeInv, NEW c \in BridgeClients, LoadSource(c)
    PROVE  BridgeInv'
<1>1. UNCHANGED <<bridgeLegacy, bridgeRun, bridgeDisk, bridgeSent, bridgeReply,
                  bridgeResident, bridgeAnswers>>
  BY DEF LoadSource
<1>2. BridgeTypeOK'
  BY <1>1 DEF LoadSource, BridgeInv, BridgeTypeOK, bridgeDisk, bridgeResident
<1> QED BY <1>1, <1>2, RunFrame, QuietFrame

LEMMA KillClientInv == ASSUME BridgeInv, KillClient PROVE BridgeInv'
<1>1. /\ bridgeRun' = NoBridge
      /\ UNCHANGED <<bridgeLegacy, bridgeHeld, bridgeDisk, bridgeSent, bridgeReply,
                     bridgeResident, bridgeAnswers>>
  BY DEF KillClient
<1>2. BridgeTypeOK'
  BY <1>1 DEF BridgeInv, BridgeTypeOK, bridgeDisk, bridgeResident
<1> QED BY <1>1, <1>2, NoRun, QuietFrame

LEMMA ReceiptFailsInv == ASSUME BridgeInv, ReceiptFails PROVE BridgeInv'
<1>1. /\ bridgeRun # NoBridge /\ bridgeRun.phase = "receipt" /\ bridgeRun' = NoBridge
      /\ bridgeAnswers' = bridgeAnswers \cup {<<bridgeRun.doc, "effect_unknown">>}
      /\ UNCHANGED <<bridgeLegacy, bridgeHeld, bridgeDisk, bridgeSent, bridgeReply,
                     bridgeResident>>
  BY DEF ReceiptFails, Running, Say
<1>2. bridgeRun.doc \in Documents /\ bridgeRun.doc \in bridgePrepared
  BY <1>1, EffectOf DEF BridgeInv, BridgeTypeOK, RunOn, Beginning
<1>3. BridgeTypeOK'
  BY <1>1, <1>2 DEF BridgeInv, BridgeTypeOK, bridgeDisk, bridgeResident, Effects
<1> QED BY <1>1, <1>2, <1>3, NoRun, QuietFrame

(* The inventory: a run looks at the attempt of unknown effect, at the      *)
(* committed one of its state, or begins its own where there is neither.    *)
LEMMA BeginRunInv ==
    ASSUME BridgeInv, NEW c \in BridgeClients, BeginRun(c)
    PROVE  BridgeInv'
<1> DEFINE d == bridgeHeld[c]
<1> BridgeTypeOK /\ OneAttempt /\ EffectsTrue
  BY DEF BridgeInv
<1>1. /\ bridgeRun = NoBridge /\ d # NoBridge
      /\ UNCHANGED <<bridgeLegacy, bridgeDisk, bridgeSent, bridgeReply, bridgeResident>>
  BY DEF BeginRun
<1>2. d \in Documents
  BY <1>1 DEF BridgeTypeOK
<1>3. bridgeHeld' \in [BridgeClients -> Documents \cup {NoBridge}]
  BY DEF BeginRun, BridgeTypeOK
<1>4. \/ /\ d \in NoEffect /\ bridgeAnswers' = bridgeAnswers \cup {<<d, "none">>}
         /\ UNCHANGED bridgeRun
      \/ /\ UNCHANGED bridgeAnswers
         /\ \E p \in Prior(d) : bridgeRun' = Run(p, "query", CurrentEffect(p))
      \/ /\ d \notin NoEffect /\ Prior(d) = {} /\ UNCHANGED bridgeAnswers
         /\ bridgeRun' = Run(d, "source", "effect_unknown")
      \/ UNCHANGED <<bridgeRun, bridgeAnswers>>
  BY DEF BeginRun, NoEffect
<1>5. UNCHANGED <<bridgeSources, bridgePrepared, bridgeTerminal, bridgeSettled,
                  bridgeWire, bridgeIngested, bridgeCoverage>>
  BY <1>1 DEF bridgeDisk, bridgeResident
<1>6. Unknown' = Unknown /\ BridgeCommitted' = BridgeCommitted
  BY <1>1, SameDisk
<1> HIDE DEF d
<1>7. CASE d \in NoEffect /\ bridgeAnswers' = bridgeAnswers \cup {<<d, "none">>}
           /\ UNCHANGED bridgeRun
  <2>1. d \in bridgePrepared /\ d \notin bridgeIngested \cup bridgeWire
    BY <1>7, EffectOf DEF EffectsTrue, NoEffect
  <2>2. BridgeTypeOK'
    BY <1>1, <1>2, <1>3, <1>5, <1>7 DEF BridgeTypeOK, Effects
  <2> QED BY <1>1, <1>7, <2>1, <2>2, NoRun, QuietFrame
<1>8. CASE UNCHANGED <<bridgeRun, bridgeAnswers>>
  <2>1. BridgeTypeOK'
    BY <1>1, <1>3, <1>5, <1>8 DEF BridgeTypeOK
  <2> QED BY <1>1, <1>8, <2>1, NoRun, QuietFrame
<1>9. ASSUME NEW p \in Prior(d), bridgeRun' = Run(p, "query", CurrentEffect(p)),
             UNCHANGED bridgeAnswers
      PROVE  BridgeInv'
  <2>1. p \in Unknown \cup BridgeCommitted /\ Unknown \subseteq {p}
    BY DEF Prior, OneAttempt, Unknown, BridgeCommitted
  <2>2. p \in Documents /\ CurrentEffect(p) \in {"committed", "effect_unknown"}
    BY <2>1, EffectOf DEF Unknown, BridgeCommitted, With
  <2>3. bridgeRun'.doc = p /\ bridgeRun'.phase = "query" /\ bridgeRun'.post = CurrentEffect(p)
    BY <1>9 DEF Run
  <2>4. bridgeRun' \in Runs
    BY <1>9, <2>2 DEF Run, Runs, Phases, Effects
  <2>7. BridgeTypeOK'
    BY <1>1, <1>3, <1>5, <1>9, <2>4 DEF BridgeTypeOK
  <2>5. RunBegins' /\ RunOn'
    BY <1>6, <2>1, <2>3 DEF RunBegins, RunOn, Beginning
  <2>6. RunPosts' /\ RunKnows'
    BY <2>2, <2>3 DEF RunPosts, RunKnows
  <2> QED BY <1>1, <1>9, <2>7, <2>5, <2>6, QuietFrame
<1>10. CASE d \notin NoEffect /\ Prior(d) = {} /\ UNCHANGED bridgeAnswers
            /\ bridgeRun' = Run(d, "source", "effect_unknown")
  <2>1. Unknown = {} /\ \A p \in BridgeCommitted : p[1] # d[1]
    BY <1>10 DEF Prior, Unknown, BridgeCommitted
  <2>2. d \notin bridgePrepared
    BY <1>10, <2>1, EffectOf
  <2>3. bridgeRun'.doc = d /\ bridgeRun'.phase = "source" /\ bridgeRun'.post = "effect_unknown"
    BY <1>10 DEF Run
  <2>4. bridgeRun' \in Runs
    BY <1>2, <1>10 DEF Run, Runs, Phases, Effects, Beginning
  <2>7. BridgeTypeOK'
    BY <1>1, <1>3, <1>5, <1>10, <2>4 DEF BridgeTypeOK
  <2>5. RunBegins' /\ RunOn'
    BY <1>5, <1>6, <2>1, <2>2, <2>3 DEF RunBegins, RunOn, Beginning
  <2>6. RunPosts' /\ RunKnows'
    BY <2>3 DEF RunPosts, RunKnows
  <2> QED BY <1>1, <1>10, <2>5, <2>6, <2>7, QuietFrame
<1> QED BY <1>4, <1>7, <1>8, <1>9, <1>10

LEMMA EndWaitInv == ASSUME BridgeInv, EndWait PROVE BridgeInv'
<1> BridgeTypeOK /\ RunOn /\ RunPosts
  BY DEF BridgeInv
<1> DEFINE post == IF bridgeReply = NoBridge THEN Unanswered ELSE bridgeReply
<1>1. /\ bridgeRun # NoBridge /\ bridgeRun.phase = "wait" /\ bridgeReply' = NoBridge
      /\ bridgeRun' = [bridgeRun EXCEPT !.phase = "query", !.post = post]
      /\ UNCHANGED <<bridgeLegacy, bridgeHeld, bridgeDisk, bridgeSent, bridgeResident,
                     bridgeAnswers>>
  BY DEF EndWait, Running
<1>2. post \in Effects /\ (post = "none" => bridgeReply = "none")
  BY DEF BridgeTypeOK, Unanswered, Effects
<1> HIDE DEF post
<1>3. bridgeRun \in Runs /\ "query" \in Phases
  BY <1>1 DEF BridgeTypeOK, Phases
<1>4. /\ bridgeRun' \in Runs /\ bridgeRun'.doc = bridgeRun.doc
      /\ bridgeRun'.phase = "query" /\ bridgeRun'.post = post
  BY <1>1, <1>2, <1>3 DEF Runs
<1>5. UNCHANGED <<bridgeSources, bridgePrepared, bridgeTerminal, bridgeSettled,
                  bridgeWire, bridgeIngested, bridgeCoverage>>
  BY <1>1 DEF bridgeDisk, bridgeResident
<1>6. Unknown' = Unknown /\ BridgeCommitted' = BridgeCommitted
  BY <1>1, SameDisk
<1>7. BridgeTypeOK'
  BY <1>1, <1>4, <1>5 DEF BridgeTypeOK
<1>8. RunBegins' /\ RunOn'
  BY <1>1, <1>4, <1>6 DEF RunBegins, RunOn, Beginning
<1>9. RunPosts'
  BY <1>4 DEF RunPosts
<1>10. RunKnows'
  BY <1>1, <1>2, <1>4, <1>5 DEF RunKnows, RunPosts
<1> QED BY <1>1, <1>7, <1>8, <1>9, <1>10, QuietFrame

(* A readback that shows the document is the only new proof of a commit.    *)
LEMMA QueryInv == ASSUME BridgeInv, Query PROVE BridgeInv'
<1> BridgeTypeOK /\ RunOn /\ RunKnows /\ Requests /\ EffectsTrue
  BY DEF BridgeInv
<1>1. /\ bridgeRun # NoBridge /\ bridgeRun.phase = "query"
      /\ UNCHANGED <<bridgeLegacy, bridgeHeld, bridgeDisk, bridgeSent, bridgeReply,
                     bridgeResident, bridgeAnswers>>
  BY DEF Query, Running
<1>2. PICK readback \in {FALSE, bridgeCoverage = bridgeRun.doc} :
         bridgeRun' = [bridgeRun EXCEPT !.phase = "receipt", !.post = Classify(readback)]
  BY DEF Query
<1> DEFINE post == Classify(readback)
<1>3. bridgeRun \in Runs /\ "receipt" \in Phases
  BY <1>1 DEF BridgeTypeOK, Phases
<1>4. /\ bridgeRun.doc \in Documents /\ bridgeRun.post \in Effects
      /\ bridgeRun.doc \in Unknown \cup BridgeCommitted
  BY <1>1, <1>3 DEF Runs, RunOn, Beginning
<1>5. readback \in BOOLEAN /\ (readback => bridgeRun.doc \in bridgeIngested)
  BY <1>4, BridgeAssumption DEF Requests
<1>6. post \in Effects /\ (post = "none" => bridgeRun.post = "none" /\ ~readback)
  BY <1>4, <1>5 DEF Classify, Effects
<1>7. post = "committed" => bridgeRun.doc \in bridgeIngested
  BY <1>4, <1>5 DEF Classify, EffectsTrue, BridgeCommitted, Unknown, With
<1> HIDE DEF post
<1>8. /\ bridgeRun' \in Runs /\ bridgeRun'.doc = bridgeRun.doc
      /\ bridgeRun'.phase = "receipt" /\ bridgeRun'.post = post
  BY <1>2, <1>3, <1>6 DEF Runs, post
<1>9. UNCHANGED <<bridgeSources, bridgePrepared, bridgeTerminal, bridgeSettled,
                  bridgeWire, bridgeIngested, bridgeCoverage>>
  BY <1>1 DEF bridgeDisk, bridgeResident
<1>10. Unknown' = Unknown /\ BridgeCommitted' = BridgeCommitted
  BY <1>1, SameDisk
<1>11. BridgeTypeOK'
  BY <1>1, <1>8, <1>9 DEF BridgeTypeOK
<1>12. RunBegins' /\ RunOn'
  BY <1>1, <1>8, <1>10 DEF RunBegins, RunOn, Beginning
<1>13. RunPosts'
  BY <1>8 DEF RunPosts
<1>14. RunKnows'
  BY <1>1, <1>6, <1>7, <1>8, <1>9 DEF RunKnows
<1> QED BY <1>1, <1>11, <1>12, <1>13, <1>14, QuietFrame

-----------------------------------------------------------------------------
(* The resident *)

(* A request that was refused or lost is gone for good.                     *)
LEMMA GoneInv ==
    ASSUME BridgeInv, NEW d \in bridgeWire, bridgeWire' = bridgeWire \ {d},
           UNCHANGED <<bridgeLegacy, bridgeHeld, bridgeRun, bridgeDisk, bridgeSent,
                       bridgeIngested, bridgeCoverage, bridgeAnswers>>,
           bridgeReply' \in Effects \cup {NoBridge},
           bridgeReply' = "none" => bridgeReply = "none" \/ bridgeRun.doc = d
    PROVE  BridgeInv'
<1> BridgeTypeOK /\ RunPosts /\ Requests
  BY DEF BridgeInv
<1>1. Unknown' = Unknown /\ BridgeCommitted' = BridgeCommitted /\ NoEffect' = NoEffect
  BY SameDisk
<1>2. UNCHANGED <<bridgeSources, bridgePrepared, bridgeTerminal, bridgeSettled>>
  BY DEF bridgeDisk
<1>3. BridgeTypeOK'
  BY <1>2 DEF BridgeTypeOK
<1>4. ReceiptOrder' /\ OneAttempt'
  BY <1>1, <1>2 DEF BridgeInv, ReceiptOrder, OneAttempt
<1>5. RunBegins' /\ RunOn' /\ RunKnows'
  BY <1>1, <1>2 DEF BridgeInv, RunBegins, RunOn, RunKnows
<1>6. RunPosts'
  BY <1>1, <1>2 DEF RunPosts, Requests
<1>7. Requests'
  BY DEF Requests
<1>8. EffectsTrue'
  BY <1>1 DEF BridgeInv, EffectsTrue, NoEffect, BridgeCommitted
<1>9. UnknownStaysReadable'
  BY <1>1 DEF BridgeInv, UnknownStaysReadable, Unknown
<1> QED BY <1>3, <1>4, <1>5, <1>6, <1>7, <1>8, <1>9 DEF BridgeInv

LEMMA RefuseInv ==
    ASSUME BridgeInv, NEW d \in Documents, Refuse(d)
    PROVE  BridgeInv'
<1>1. /\ d \in bridgeWire /\ bridgeWire' = bridgeWire \ {d}
      /\ UNCHANGED <<bridgeLegacy, bridgeHeld, bridgeRun, bridgeDisk, bridgeSent,
                     bridgeIngested, bridgeCoverage, bridgeAnswers>>
  BY DEF Refuse
<1>2. \/ bridgeReply' = bridgeReply
      \/ bridgeRun.doc = d /\ bridgeReply' \in {"none", "effect_unknown", NoBridge}
  BY DEF Refuse, BridgeAnswer
<1>3. bridgeReply' \in Effects \cup {NoBridge}
  BY <1>2 DEF BridgeInv, BridgeTypeOK, Effects
<1> QED BY <1>1, <1>2, <1>3, GoneInv

LEMMA LoseRequestInv ==
    ASSUME BridgeInv, NEW d \in Documents, LoseRequest(d)
    PROVE  BridgeInv'
<1>1. /\ d \in bridgeWire /\ bridgeWire' = bridgeWire \ {d} /\ bridgeReply' = bridgeReply
      /\ UNCHANGED <<bridgeLegacy, bridgeHeld, bridgeRun, bridgeDisk, bridgeSent,
                     bridgeIngested, bridgeCoverage, bridgeAnswers>>
  BY DEF LoseRequest
<1>2. bridgeReply' \in Effects \cup {NoBridge}
  BY <1>1 DEF BridgeInv, BridgeTypeOK
<1> QED BY <1>1, <1>2, GoneInv

(* A request that is still on its way is the attempt of unknown effect.     *)
LEMMA OnItsWay ==
    ASSUME BridgeInv, NEW d \in bridgeWire
    PROVE  Unknown = {d} /\ d \in Documents /\ d \notin bridgeIngested
<1> BridgeTypeOK /\ Requests /\ EffectsTrue /\ ReceiptOrder /\ OneAttempt
  BY DEF BridgeInv
<1>1. d \in Documents /\ d \notin bridgeIngested
  BY DEF BridgeTypeOK, Requests
<1>2. d \in bridgePrepared
  BY <1>1 DEF Requests, ReceiptOrder
<1>3. d \notin NoEffect /\ d \notin BridgeCommitted
  BY <1>1 DEF EffectsTrue, NoEffect, BridgeCommitted
<1>4. d \in Unknown
  BY <1>2, <1>3, EffectOf
<1> QED BY <1>1, <1>4 DEF OneAttempt

LEMMA IngestInv ==
    ASSUME BridgeInv, NEW d \in Documents, Ingest(d)
    PROVE  BridgeInv'
<1> BridgeTypeOK /\ RunPosts /\ RunKnows /\ Requests /\ EffectsTrue /\ UnknownStaysReadable
  BY DEF BridgeInv
<1>1. /\ d \in bridgeWire /\ bridgeWire' = bridgeWire \ {d}
      /\ bridgeIngested' = bridgeIngested \cup {d} /\ bridgeCoverage' = d
      /\ UNCHANGED <<bridgeLegacy, bridgeHeld, bridgeRun, bridgeDisk, bridgeSent, bridgeAnswers>>
  BY DEF Ingest
<1>2. \/ bridgeReply' = bridgeReply
      \/ bridgeReply' \in {"committed", "effect_unknown", NoBridge}
  BY DEF Ingest, BridgeAnswer
<1>3. "none" \notin {"committed", "effect_unknown", NoBridge}
  BY BridgeAssumption
<1>4. Unknown = {d} /\ d \notin bridgeIngested
  BY <1>1, OnItsWay
<1>5. Unknown' = Unknown /\ BridgeCommitted' = BridgeCommitted /\ NoEffect' = NoEffect
  BY <1>1, SameDisk
<1>6. UNCHANGED <<bridgeSources, bridgePrepared, bridgeTerminal, bridgeSettled>>
  BY <1>1 DEF bridgeDisk
<1>7. BridgeTypeOK'
  <2>1. bridgeReply' \in Effects \cup {NoBridge}
    BY <1>2 DEF BridgeTypeOK, Effects
  <2> QED BY <1>1, <1>6, <2>1 DEF BridgeTypeOK
<1>8. ReceiptOrder' /\ OneAttempt'
  BY <1>1, <1>5, <1>6 DEF BridgeInv, ReceiptOrder, OneAttempt
<1>9. RunBegins' /\ RunOn'
  BY <1>1, <1>5, <1>6 DEF BridgeInv, RunBegins, RunOn
<1>10. RunPosts'
  BY <1>1, <1>2, <1>3, <1>5, <1>6 DEF RunPosts
<1>11. RunKnows'
  BY <1>1, <1>6 DEF RunKnows
<1>12. Requests'
  <2>1. d # NoBridge
    BY BridgeAssumption
  <2> QED BY <1>1, <2>1 DEF Requests
<1>13. EffectsTrue'
  <2>1. \A e \in NoEffect : e # d
    BY <1>1 DEF EffectsTrue, NoEffect
  <2>2. \A a \in bridgeAnswers : a[2] = "none" => a[1] # d
    BY <1>1 DEF EffectsTrue
  <2> QED BY <1>1, <1>5, <2>1, <2>2 DEF EffectsTrue, NoEffect, BridgeCommitted
<1>14. UnknownStaysReadable'
  <2>1. \A e \in bridgeIngested : e[2] <= d[2]
    <3> SUFFICES ASSUME NEW e \in bridgeIngested PROVE e[2] <= d[2]
      OBVIOUS
    <3>1. bridgeCoverage # NoBridge /\ bridgeCoverage \in bridgeIngested
      BY DEF Requests
    <3>2. e[2] \in Nat /\ bridgeCoverage[2] \in Nat /\ d[2] \in Nat
      BY <3>1 DEF BridgeTypeOK, Documents
    <3>3. e[2] <= bridgeCoverage[2] /\ d[2] > bridgeCoverage[2]
      BY <3>1 DEF UnknownStaysReadable, Ingest, Advances
    <3> QED BY <3>2, <3>3
  <2>2. d[2] <= d[2]
    BY DEF Documents
  <2> QED BY <1>1, <1>4, <1>5, <2>1, <2>2 DEF UnknownStaysReadable, Unknown
<1> QED BY <1>7, <1>8, <1>9, <1>10, <1>11, <1>12, <1>13, <1>14 DEF BridgeInv

-----------------------------------------------------------------------------
(* Steps of the run that write receipts or send *)

LEMMA WriteSourceInv == ASSUME BridgeInv, WriteSource PROVE BridgeInv'
<1> BridgeTypeOK /\ RunBegins
  BY DEF BridgeInv
<1>1. /\ bridgeRun # NoBridge /\ bridgeRun.phase = "source"
      /\ bridgeRun' = [bridgeRun EXCEPT !.phase = "prepare"]
      /\ bridgeSources' = bridgeSources \cup {bridgeRun.doc}
      /\ UNCHANGED <<bridgeLegacy, bridgeHeld, bridgePrepared, bridgeTerminal, bridgeSettled,
                     bridgeSent, bridgeReply, bridgeAnswers>>
      /\ UNCHANGED <<bridgeWire, bridgeIngested, bridgeCoverage>>
  BY DEF WriteSource, Running, Goto, bridgeResident
<1>2. bridgeRun \in Runs /\ bridgeRun.doc \in Documents
  BY <1>1 DEF BridgeTypeOK, Runs
<1>3. /\ bridgeRun' \in Runs /\ bridgeRun'.doc = bridgeRun.doc
      /\ bridgeRun'.phase = "prepare" /\ bridgeRun'.post = bridgeRun.post
  BY <1>1, <1>2 DEF Runs, Phases, Beginning
<1>4. Unknown' = Unknown /\ BridgeCommitted' = BridgeCommitted /\ NoEffect' = NoEffect
  BY <1>1 DEF Unknown, BridgeCommitted, NoEffect, With, CurrentEffect
<1>5. BridgeTypeOK'
  BY <1>1, <1>2, <1>3 DEF BridgeTypeOK
<1>6. ReceiptOrder' /\ OneAttempt' /\ Requests'
  BY <1>1, <1>4 DEF BridgeInv, ReceiptOrder, OneAttempt, Requests
<1>7. RunBegins' /\ RunOn'
  BY <1>1, <1>3, <1>4 DEF RunBegins, RunOn, Beginning
<1>8. RunPosts' /\ RunKnows'
  BY <1>1, <1>3 DEF BridgeInv, RunPosts, RunKnows
<1>9. EffectsTrue'
  BY <1>1, <1>4 DEF BridgeInv, EffectsTrue, NoEffect, BridgeCommitted
<1>10. UnknownStaysReadable'
  BY <1>1, <1>4 DEF BridgeInv, UnknownStaysReadable, Unknown
<1> QED BY <1>5, <1>6, <1>7, <1>8, <1>9, <1>10 DEF BridgeInv

(* The preparation becomes the one attempt of unknown effect, and it was    *)
(* never sent: under client.lock nobody else can have created it.           *)
LEMMA PrepareInv == ASSUME BridgeInv, Prepare PROVE BridgeInv'
<1> BridgeTypeOK /\ ReceiptOrder /\ OneAttempt /\ RunBegins /\ RunKnows /\ Requests
  BY DEF BridgeInv
<1> DEFINE d == bridgeRun.doc
<1>1. /\ bridgeRun # NoBridge /\ bridgeRun.phase = "prepare"
      /\ bridgePrepared' = bridgePrepared \cup {d}
      /\ UNCHANGED <<bridgeLegacy, bridgeHeld, bridgeSources, bridgeTerminal, bridgeSettled,
                     bridgeSent, bridgeReply, bridgeAnswers>>
      /\ UNCHANGED <<bridgeWire, bridgeIngested, bridgeCoverage>>
  BY DEF Prepare, Running, bridgeResident
<1>2. bridgeRun \in Runs /\ d \in Documents
  BY <1>1 DEF BridgeTypeOK, Runs
<1>3. d \notin bridgePrepared /\ Unknown = {} /\ \A p \in BridgeCommitted : p[1] # d[1]
  BY <1>1 DEF RunBegins, Beginning
<1>4. bridgeRun' = [bridgeRun EXCEPT !.phase = "post"]
  BY <1>3 DEF Prepare, Goto
<1>5. /\ bridgeRun' \in Runs /\ bridgeRun'.doc = d
      /\ bridgeRun'.phase = "post" /\ bridgeRun'.post = bridgeRun.post
  BY <1>2, <1>4 DEF Runs, Phases
<1>6. d \notin bridgeSettled /\ bridgeTerminal[d] = NoBridge /\ bridgeSent[d] = 0
  BY <1>2, <1>3 DEF ReceiptOrder
<1>7. d \notin bridgeWire \cup bridgeIngested
  BY <1>2, <1>6 DEF Requests
<1>8. Unknown' = {d} /\ BridgeCommitted' = BridgeCommitted /\ NoEffect' = NoEffect
  <2>1. \A p : CurrentEffect(p)' = CurrentEffect(p)
    BY <1>1 DEF CurrentEffect
  <2>2. CurrentEffect(d) = "effect_unknown"
    BY <1>6 DEF CurrentEffect
  <2> QED BY <1>1, <1>3, <2>1, <2>2 DEF Unknown, BridgeCommitted, NoEffect, With
<1>9. bridgeRun.post # "none"
  BY <1>1 DEF RunKnows
<1> HIDE DEF d
<1>10. BridgeTypeOK'
  BY <1>1, <1>2, <1>5 DEF BridgeTypeOK
<1>11. ReceiptOrder'
  BY <1>1 DEF ReceiptOrder
<1>12. OneAttempt'
  BY <1>3, <1>8 DEF OneAttempt
<1>13. RunBegins' /\ RunOn'
  BY <1>5, <1>8 DEF RunBegins, RunOn, Beginning
<1>14. RunPosts'
  <2>1. \A a \in bridgeAnswers : a[1] # d
    BY <1>3 DEF ReceiptOrder
  <2> QED BY <1>1, <1>5, <1>6, <1>8, <2>1 DEF RunPosts
<1>15. RunKnows'
  BY <1>5, <1>9 DEF RunKnows
<1>16. Requests'
  BY <1>1 DEF Requests
<1>17. EffectsTrue'
  BY <1>1, <1>8 DEF BridgeInv, EffectsTrue, NoEffect, BridgeCommitted
<1>18. UnknownStaysReadable'
  BY <1>1, <1>7, <1>8 DEF BridgeInv, UnknownStaysReadable, Unknown
<1> QED BY <1>10, <1>11, <1>12, <1>13, <1>14, <1>15, <1>16, <1>17, <1>18 DEF BridgeInv

(* The one POST of the preparation.                                         *)
LEMMA PostInv == ASSUME BridgeInv, Post PROVE BridgeInv'
<1> BridgeTypeOK /\ ReceiptOrder /\ RunOn /\ RunPosts /\ Requests /\ EffectsTrue
  BY DEF BridgeInv
<1> DEFINE d == bridgeRun.doc
<1>1. /\ bridgeRun # NoBridge /\ bridgeRun.phase = "post" /\ bridgeReply' = NoBridge
      /\ bridgeRun' = [bridgeRun EXCEPT !.phase = "wait"]
      /\ bridgeWire' = bridgeWire \cup {d}
      /\ UNCHANGED <<bridgeLegacy, bridgeHeld, bridgeDisk, bridgeIngested,
                     bridgeCoverage, bridgeAnswers>>
  BY DEF Post, Running, Goto
<1>2. bridgeRun \in Runs /\ d \in Documents
  BY <1>1 DEF BridgeTypeOK, Runs
<1>3. /\ d \in Unknown /\ bridgeTerminal[d] = NoBridge /\ bridgeSent[d] = 0
      /\ \A a \in bridgeAnswers : a[1] # d
  BY <1>1 DEF RunPosts
<1>4. /\ bridgeSent' \in [Documents -> Nat] /\ bridgeSent'[d] = 1
      /\ \A e \in Documents \ {d} : bridgeSent'[e] = bridgeSent[e]
  BY <1>2, <1>3 DEF Post, BridgeTypeOK
<1>5. /\ bridgeRun' \in Runs /\ bridgeRun'.doc = d
      /\ bridgeRun'.phase = "wait" /\ bridgeRun'.post = bridgeRun.post
  BY <1>1, <1>2 DEF Runs, Phases
<1>6. Unknown' = Unknown /\ BridgeCommitted' = BridgeCommitted /\ NoEffect' = NoEffect
  BY <1>1, SameDisk
<1>7. UNCHANGED <<bridgeSources, bridgePrepared, bridgeTerminal, bridgeSettled>>
  BY <1>1 DEF bridgeDisk
<1>8. d \in bridgePrepared /\ d \notin NoEffect
  BY <1>3, EffectOf
<1> HIDE DEF d
<1>9. BridgeTypeOK'
  BY <1>1, <1>2, <1>4, <1>5, <1>7 DEF BridgeTypeOK
<1>10. ReceiptOrder' /\ OneAttempt'
  BY <1>1, <1>4, <1>6, <1>7, <1>8 DEF BridgeInv, ReceiptOrder, OneAttempt
<1>11. RunBegins' /\ RunOn'
  BY <1>1, <1>5, <1>6 DEF RunBegins, RunOn, Beginning, d
<1>12. RunPosts'
  BY <1>1, <1>3, <1>5, <1>6, <1>7, BridgeAssumption DEF RunPosts
<1>13. RunKnows'
  BY <1>5 DEF RunKnows
<1>14. Requests'
  BY <1>1, <1>2, <1>3, <1>4 DEF Requests
<1>15. EffectsTrue'
  BY <1>1, <1>3, <1>6, <1>8 DEF EffectsTrue, NoEffect, BridgeCommitted
<1>16. UnknownStaysReadable'
  BY <1>1, <1>6 DEF BridgeInv, UnknownStaysReadable, Unknown
<1> QED BY <1>9, <1>10, <1>11, <1>12, <1>13, <1>14, <1>15, <1>16 DEF BridgeInv

(* A receipt only says what the run knows: an attempt leaves the unknown    *)
(* ones as committed if it is in the ledger, as without effect if it cannot *)
(* get there.                                                               *)
LEMMA ReceiptEffects ==
    ASSUME BridgeInv, WriteReceipt
    PROVE  LET d == bridgeRun.doc IN
           /\ Unknown' \subseteq Unknown
           /\ \A p \in BridgeCommitted' : p \in BridgeCommitted \/ (p = d /\ d \in bridgeIngested)
           /\ \A p \in NoEffect' : p \in NoEffect \/ (p = d /\ bridgeRun.post = "none")
           /\ \A p \in bridgeSettled' : p \in bridgePrepared /\ bridgeTerminal'[p] # NoBridge
           /\ \A p \in Documents : bridgeTerminal'[p] # NoBridge => p \in bridgePrepared
           /\ bridgeTerminal' \in [Documents -> Effects \cup {NoBridge}]
           /\ bridgeSettled' \subseteq Documents
<1> BridgeTypeOK /\ ReceiptOrder /\ RunOn /\ RunKnows
  BY DEF BridgeInv
<1>a. PICK d : d = bridgeRun.doc
  OBVIOUS
<1>b. PICK post : post = bridgeRun.post
  OBVIOUS
<1>1. /\ bridgeRun # NoBridge /\ bridgeRun.phase = "receipt"
      /\ bridgeTerminal' = IF Ends(d) THEN [bridgeTerminal EXCEPT ![d] = post] ELSE bridgeTerminal
      /\ bridgeSettled' = IF Settles(d) THEN bridgeSettled \cup {d} ELSE bridgeSettled
      /\ UNCHANGED bridgePrepared
  BY <1>a, <1>b DEF WriteReceipt, Running
<1>2. /\ d \in Documents /\ post \in Effects /\ d \in bridgePrepared
      /\ post = "committed" => d \in bridgeIngested
      /\ post # NoBridge
  <2>1. bridgeRun \in Runs
    BY <1>1 DEF BridgeTypeOK
  <2>2. d \in Unknown \cup BridgeCommitted
    BY <1>1, <1>a DEF RunOn, Beginning
  <2> QED BY <1>1, <1>a, <1>b, <2>1, <2>2, EffectOf, BridgeAssumption DEF Runs, RunKnows, Effects
<1>3. CASE Ends(d)
  <2>1. /\ bridgeTerminal' \in [Documents -> Effects \cup {NoBridge}]
        /\ bridgeTerminal'[d] = post /\ bridgeSettled' = bridgeSettled
        /\ \A p \in Documents \ {d} : bridgeTerminal'[p] = bridgeTerminal[p]
    BY <1>1, <1>2, <1>3 DEF BridgeTypeOK, Settles
  <2>2. d \notin bridgeSettled
    BY <1>3 DEF ReceiptOrder, Ends
  <2>3. CurrentEffect(d) = "effect_unknown" /\ CurrentEffect(d)' = post
    BY <1>2, <1>3, <2>1, <2>2 DEF CurrentEffect, Ends
  <2>4. \A p \in Documents \ {d} : CurrentEffect(p)' = CurrentEffect(p)
    BY <2>1 DEF CurrentEffect
  <2>5. bridgePrepared \subseteq Documents /\ bridgeSettled \subseteq Documents
    BY DEF BridgeTypeOK
  <2>6. Unknown' \subseteq Unknown
    BY <1>1, <1>2, <2>3, <2>4, <2>5 DEF Unknown, With
  <2>7. \A p \in BridgeCommitted' : p \in BridgeCommitted \/ (p = d /\ d \in bridgeIngested)
    BY <1>1, <1>2, <2>3, <2>4, <2>5 DEF BridgeCommitted, With
  <2>8. \A p \in NoEffect' : p \in NoEffect \/ (p = d /\ post = "none")
    BY <1>1, <1>2, <2>3, <2>4, <2>5 DEF NoEffect, With
  <2>9. /\ \A p \in bridgeSettled' : p \in bridgePrepared /\ bridgeTerminal'[p] # NoBridge
        /\ \A p \in Documents : bridgeTerminal'[p] # NoBridge => p \in bridgePrepared
    BY <1>2, <2>1, <2>2, <2>5 DEF ReceiptOrder
  <2> QED BY <1>a, <1>b, <2>1, <2>5, <2>6, <2>7, <2>8, <2>9
<1>4. CASE ~Ends(d) /\ Settles(d)
  <2>1. bridgeTerminal' = bridgeTerminal /\ bridgeSettled' = bridgeSettled \cup {d}
    BY <1>1, <1>4
  <2>2. CurrentEffect(d)' = "committed" /\ d \in bridgeIngested
    BY <1>1, <1>2, <1>4, <1>b, <2>1 DEF CurrentEffect, Settles
  <2>3. \A p \in Documents \ {d} : CurrentEffect(p)' = CurrentEffect(p)
    BY <2>1 DEF CurrentEffect
  <2>4. bridgePrepared \subseteq Documents /\ bridgeSettled \subseteq Documents
    BY DEF BridgeTypeOK
  <2>5. bridgeTerminal[d] # NoBridge
    BY <1>4 DEF Ends
  <2>6. Unknown' \subseteq Unknown
    BY <1>1, <2>2, <2>3, <2>4 DEF Unknown, With
  <2>7. \A p \in BridgeCommitted' : p \in BridgeCommitted \/ (p = d /\ d \in bridgeIngested)
    BY <1>1, <2>2, <2>3, <2>4 DEF BridgeCommitted, With
  <2>8. NoEffect' \subseteq NoEffect
    BY <1>1, <2>2, <2>3, <2>4 DEF NoEffect, With
  <2>9. /\ \A p \in bridgeSettled' : p \in bridgePrepared /\ bridgeTerminal'[p] # NoBridge
        /\ \A p \in Documents : bridgeTerminal'[p] # NoBridge => p \in bridgePrepared
        /\ bridgeTerminal' \in [Documents -> Effects \cup {NoBridge}]
        /\ bridgeSettled' \subseteq Documents
    BY <1>2, <2>1, <2>4, <2>5 DEF ReceiptOrder, BridgeTypeOK
  <2> QED BY <1>a, <2>6, <2>7, <2>8, <2>9
<1>5. CASE ~Ends(d) /\ ~Settles(d)
  <2>1. UNCHANGED <<bridgePrepared, bridgeTerminal, bridgeSettled>>
    BY <1>1, <1>5
  <2>2. Unknown' = Unknown /\ BridgeCommitted' = BridgeCommitted /\ NoEffect' = NoEffect
    BY <2>1 DEF Unknown, BridgeCommitted, NoEffect, With, CurrentEffect
  <2> QED BY <2>1, <2>2 DEF ReceiptOrder, BridgeTypeOK
<1> QED BY <1>3, <1>4, <1>5

LEMMA WriteReceiptInv == ASSUME BridgeInv, WriteReceipt PROVE BridgeInv'
<1> BridgeTypeOK /\ ReceiptOrder /\ OneAttempt /\ RunOn /\ RunKnows /\ Requests /\ EffectsTrue
  BY DEF BridgeInv
<1> DEFINE d == bridgeRun.doc
           post == bridgeRun.post
<1>1. /\ bridgeRun # NoBridge /\ bridgeRun.phase = "receipt" /\ bridgeRun' = NoBridge
      /\ bridgeAnswers' = bridgeAnswers \cup {<<d, post>>}
      /\ UNCHANGED <<bridgeLegacy, bridgeHeld, bridgeSources, bridgePrepared, bridgeSent,
                     bridgeReply>>
      /\ UNCHANGED <<bridgeWire, bridgeIngested, bridgeCoverage>>
  BY DEF WriteReceipt, Running, Say, bridgeResident
<1>2. d \in Documents /\ post \in Effects /\ d \in Unknown \cup BridgeCommitted /\ d \in bridgePrepared
  <2>1. bridgeRun \in Runs
    BY <1>1 DEF BridgeTypeOK
  <2>2. d \in Unknown \cup BridgeCommitted
    BY <1>1 DEF RunOn, Beginning
  <2> QED BY <2>1, <2>2, EffectOf DEF Runs
<1>3. /\ post = "none" => d \notin bridgeWire \cup bridgeIngested
      /\ post = "committed" => d \in bridgeIngested
  BY <1>1 DEF RunKnows
<1>4. /\ Unknown' \subseteq Unknown
      /\ \A p \in BridgeCommitted' : p \in BridgeCommitted \/ (p = d /\ d \in bridgeIngested)
      /\ \A p \in NoEffect' : p \in NoEffect \/ (p = d /\ post = "none")
  BY ReceiptEffects
<1>5. /\ \A p \in bridgeSettled' : p \in bridgePrepared /\ bridgeTerminal'[p] # NoBridge
      /\ \A p \in Documents : bridgeTerminal'[p] # NoBridge => p \in bridgePrepared
      /\ bridgeTerminal' \in [Documents -> Effects \cup {NoBridge}]
      /\ bridgeSettled' \subseteq Documents
  BY ReceiptEffects
<1> HIDE DEF d, post
<1>6. BridgeTypeOK'
  BY <1>1, <1>2, <1>5 DEF BridgeTypeOK
<1>7. ReceiptOrder'
  BY <1>1, <1>2, <1>5 DEF ReceiptOrder
<1>8. OneAttempt'
  BY <1>2, <1>4 DEF OneAttempt
<1>9. Requests'
  BY <1>1 DEF Requests
<1>10. EffectsTrue'
  BY <1>1, <1>3, <1>4 DEF EffectsTrue, NoEffect, BridgeCommitted
<1>11. UnknownStaysReadable'
  BY <1>1, <1>4 DEF BridgeInv, UnknownStaysReadable, Unknown
<1> QED BY <1>1, <1>6, <1>7, <1>8, <1>9, <1>10, <1>11, NoRun DEF BridgeInv

-----------------------------------------------------------------------------
(* The theorems *)

LEMMA BridgeNextInv == ASSUME BridgeInv, BridgeNext PROVE BridgeInv'
<1>1. ASSUME NEW s \in BridgeStates, LegacyChanges(s) PROVE BridgeInv'
  BY <1>1, LegacyChangesInv
<1>2. ASSUME NEW c \in BridgeClients, LoadSource(c) PROVE BridgeInv'
  BY <1>2, LoadSourceInv
<1>3. ASSUME NEW c \in BridgeClients, BeginRun(c) PROVE BridgeInv'
  BY <1>3, BeginRunInv
<1>4. ASSUME NEW d \in Documents, Ingest(d) PROVE BridgeInv'
  BY <1>4, IngestInv
<1>5. ASSUME NEW d \in Documents, Refuse(d) PROVE BridgeInv'
  BY <1>5, RefuseInv
<1>6. ASSUME NEW d \in Documents, LoseRequest(d) PROVE BridgeInv'
  BY <1>6, LoseRequestInv
<1>7. CASE WriteSource \/ Prepare \/ Post
  BY <1>7, WriteSourceInv, PrepareInv, PostInv
<1>8. CASE EndWait \/ Query \/ WriteReceipt
  BY <1>8, EndWaitInv, QueryInv, WriteReceiptInv
<1>9. CASE ReceiptFails \/ KillClient
  BY <1>9, ReceiptFailsInv, KillClientInv
<1> QED BY <1>1, <1>2, <1>3, <1>4, <1>5, <1>6, <1>7, <1>8, <1>9 DEF BridgeNext

(* The invariant behind both theorems.                                      *)
LEMMA BridgeInvariant == BridgeSpec => []BridgeInv
<1>1. BridgeInv /\ [BridgeNext]_bridgeVars => BridgeInv'
  BY BridgeNextInv, BridgeStutterInv
<1> QED BY <1>1, BridgeInitInv, PTL DEF BridgeSpec

(* run_legacy_bridge_ingest_v04 "never sends twice for a preparation", and  *)
(* never finds its receipts ambiguous.                                      *)
THEOREM NeverSentTwice == BridgeSpec => []SentOnce
<1>1. BridgeInv => SentOnce
  BY DEF BridgeInv, SentOnce, Requests, OneAttempt, Unknown, BridgeCommitted
<1> QED BY <1>1, BridgeInvariant, PTL

(* What the receipts and the answers of a scope say is true of the ledger,  *)
(* and an attempt of unknown effect that was ingested stays readable.       *)
THEOREM EffectsAreKnown == BridgeSpec => []EffectsKnown
<1>1. BridgeInv => EffectsKnown
  BY DEF BridgeInv, EffectsKnown
<1> QED BY <1>1, BridgeInvariant, PTL
-----------------------------------------------------------------------------
(* The supervisor                                                            *)

Executed(r) == execution[r] # NoCompany
Launched(r) == worker[r].state \in {"running", "ended"}

(* The shape of the state.                                                  *)
SupervisorTypeOK ==
    /\ chief \in ChiefCarriers
    /\ chiefs \in [ChiefCarriers -> [state : {NoCompany} \cup CarrierStates, runs : BOOLEAN]]
    /\ department \in [DOMAIN Departments -> {"active", "parked"}]
    /\ carrier \in [Dispatches -> {NoCompany} \cup CarrierStates]
    /\ dispatch \in [Dispatches -> {NoCompany} \cup DispatchStates]
    /\ execution \in [Dispatches -> {NoCompany} \cup Executions]
    /\ worker \in [Dispatches -> [state : {"none", "running", "ended", "refused"},
                                  on : {NoCompany} \cup Dispatches]]

(* A worker and an execution are on a carrier of their department; a        *)
(* carrier that was executed on was bound.                                  *)
Placed ==
    /\ \A r \in Dispatches : Launched(r) =>
          worker[r].on \in Dispatches /\ DeptOf(worker[r].on) = DeptOf(r)
    /\ \A r \in Dispatches : Executed(r) =>
          DeptOf(execution[r].by) = DeptOf(r) /\ carrier[execution[r].by] # NoCompany

(* A running execution has its carrier for itself, active or fenced.        *)
Carried ==
    /\ \A r \in Occupied : carrier[execution[r].by] \in {"active", "fenced"}
    /\ \A r, q \in Occupied : execution[r].by = execution[q].by => r = q

(* What the reducer keeps: one current carrier of a department, and the     *)
(* slots within the capacity.                                               *)
OneCurrent   == \A d \in DOMAIN Departments : \A b, c \in LiveCarriers(d) : b = c
SlotsBounded == Cardinality(Slots) <= Capacity

(* Nothing of a parked department is on its way, executes or is active.     *)
ParkedIdle ==
    \A r \in Dispatches : department[DeptOf(r)] = "parked" =>
        /\ dispatch[r] \notin {"queued", "admitted", "in_flight"}
        /\ r \notin Occupied /\ carrier[r] # "active"

WorkersKnown ==
    \A r \in Dispatches : WorkerRuns(r) =>
        dispatch[r] = "in_flight" \/ (r \in Occupied /\ execution[r].by = worker[r].on)

(* The reducer's bounds and the rest.                                       *)
ReducedInv    == OneCurrent /\ SlotsBounded
LeadsInv      == Placed /\ Carried /\ ParkedIdle /\ WorkersKnown
SupervisorInv == SupervisorTypeOK /\ LeadsInv /\ ReducedInv

(* A request has one department.                                            *)
LEMMA DeptOfRequest ==
    ASSUME NEW r \in Dispatches
    PROVE  /\ DeptOf(r) \in DOMAIN Departments /\ r \in Departments[DeptOf(r)]
           /\ \A d \in DOMAIN Departments : r \in Departments[d] => d = DeptOf(r)
<1>1. PICK d \in DOMAIN Departments : r \in Departments[d]
  BY DEF Dispatches
<1>2. DeptOf(r) \in DOMAIN Departments /\ r \in Departments[DeptOf(r)]
  BY <1>1 DEF DeptOf
<1>. QED
  BY <1>2, SupervisorAssumption

LEMMA DepartmentHolds ==
    ASSUME NEW d \in DOMAIN Departments, NEW r \in Departments[d]
    PROVE  r \in Dispatches /\ DeptOf(r) = d
<1>1. r \in Dispatches
  BY DEF Dispatches
<1>. QED
  BY <1>1, DeptOfRequest

(* Two members make a set of at least two.                                  *)
LEMMA AtMostOne ==
    ASSUME NEW S, IsFiniteSet(S), Cardinality(S) <= 1, NEW b \in S, NEW c \in S
    PROVE  b = c
<1>. SUFFICES ASSUME b # c PROVE FALSE
  OBVIOUS
<1>1. IsFiniteSet({b}) /\ Cardinality({b}) = 1
  BY FS_Singleton
<1>2. IsFiniteSet({b} \cup {c}) /\ Cardinality({b} \cup {c}) = 2
  BY <1>1, FS_AddElement
<1>3. {b} \cup {c} \in SUBSET S
  OBVIOUS
<1>4. Cardinality({b} \cup {c}) <= Cardinality(S)
  BY <1>3, FS_Subset
<1>5. Cardinality(S) \in Nat
  BY FS_CardinalityType
<1>. QED
  BY <1>2, <1>4, <1>5

(* A commit keeps what the reducer keeps.                                   *)
LEMMA CommitsAreReduced ==
    ASSUME Committed
    PROVE  ReducedInv'
<1>1. SlotsBounded'
  BY DEF Committed, SlotsBounded
<1>2. ASSUME NEW d \in DOMAIN Departments, NEW b \in LiveCarriers(d)', NEW c \in LiveCarriers(d)'
      PROVE  b = c
  <2>1. LiveCarriers(d)' \subseteq Dispatches
    BY DepartmentHolds DEF LiveCarriers
  <2>2. IsFiniteSet(LiveCarriers(d)')
    BY <2>1, SupervisorAssumption, FS_Subset
  <2>3. Cardinality(LiveCarriers(d)') <= 1
    BY DEF Committed
  <2>. HIDE DEF LiveCarriers
  <2>. QED
    BY <2>2, <2>3, AtMostOne
<1>. QED
  BY <1>1, <1>2 DEF OneCurrent, ReducedInv

LEMMA SupervisorInitInv == SupervisorInit => SupervisorInv
<1>. SUFFICES ASSUME SupervisorInit PROVE SupervisorInv
  OBVIOUS
<1>1. SupervisorTypeOK
  BY SupervisorAssumption DEF SupervisorInit, SupervisorTypeOK, CarrierStates
<1>2. LeadsInv
  BY SupervisorAssumption DEF SupervisorInit, LeadsInv, Placed, Carried, ParkedIdle,
     WorkersKnown, Launched, Executed, WorkerRuns, Occupied, DispatchStates, CarrierStates
<1>3. OneCurrent
  BY SupervisorAssumption, DepartmentHolds
     DEF SupervisorInit, OneCurrent, LiveCarriers, CarrierStates
<1>4. Slots = {<<"chief", FirstChief>>}
  <2>1. ActiveCarriers = {} /\ Occupied = {} /\ HeldDispatches = {}
    BY SupervisorAssumption DEF SupervisorInit, ActiveCarriers, Occupied, HeldDispatches,
       CarrierStates, DispatchStates
  <2>2. {y \in ChiefCarriers : chiefs[y].state = "active" \/ chiefs[y].runs} = {FirstChief}
    BY SupervisorAssumption DEF SupervisorInit, CarrierStates
  <2>. QED
    BY <2>1, <2>2 DEF Slots
<1>5. SlotsBounded
  <2>1. Cardinality({<<"chief", FirstChief>>}) = 1
    BY FS_Singleton
  <2>. QED
    BY <1>4, <2>1, SupervisorAssumption DEF SlotsBounded
<1>. QED
  BY <1>1, <1>2, <1>3, <1>5 DEF SupervisorInv, ReducedInv

(* Steps on a dispatch that leave carriers, executions and workers alone.   *)
LEMMA DispatchStepsKeep ==
    ASSUME SupervisorInv, NEW r \in Dispatches,
           \/ EnqueueDispatch(r) \/ AdmitDispatch(r) \/ BeginDispatch(r)
           \/ RecordFailure(r) \/ MarkUnknown(r)
    PROVE  SupervisorInv'
<1>. USE DEF SupervisorInv, LeadsInv
<1>0. Committed
  BY DEF EnqueueDispatch, AdmitDispatch, BeginDispatch, RecordFailure, MarkUnknown, Admission
<1>1. /\ carrier' = carrier /\ execution' = execution /\ worker' = worker
      /\ chief' = chief /\ chiefs' = chiefs
  BY DEF EnqueueDispatch, AdmitDispatch, BeginDispatch, RecordFailure, MarkUnknown
<1>2. /\ dispatch' \in [Dispatches -> {NoCompany} \cup DispatchStates]
      /\ \A q \in Dispatches : q # r => dispatch'[q] = dispatch[q]
      /\ dispatch[r] = "in_flight" => ~WorkerRuns(r) \/ dispatch'[r] = "in_flight"
      /\ dispatch'[r] \in {"queued", "admitted", "in_flight"} =>
            department'[DeptOf(r)] = "active"
  <2>. /\ DeptOf(r) \in DOMAIN Departments
       /\ dispatch \in [Dispatches -> {NoCompany} \cup DispatchStates]
       /\ department \in [DOMAIN Departments -> {"active", "parked"}]
    BY DeptOfRequest DEF SupervisorTypeOK
  <2>1. CASE EnqueueDispatch(r)
    BY <2>1, SupervisorAssumption DEF EnqueueDispatch, Move, DispatchStates
  <2>2. CASE AdmitDispatch(r) \/ BeginDispatch(r)
    BY <2>2 DEF AdmitDispatch, Admissible, BeginDispatch, Move, DispatchStates, ParkedIdle
  <2>3. CASE RecordFailure(r)
    BY <2>3 DEF RecordFailure, Move, DispatchStates, WorkerRuns
  <2>4. CASE MarkUnknown(r)
    BY <2>4 DEF MarkUnknown, ParkedIdle
  <2>. QED
    BY <2>1, <2>2, <2>3, <2>4
<1>3. /\ department' \in [DOMAIN Departments -> {"active", "parked"}]
      /\ \A d \in DOMAIN Departments : department'[d] = "parked" => department[d] = "parked"
  BY DeptOfRequest DEF EnqueueDispatch, AdmitDispatch, BeginDispatch, RecordFailure,
     MarkUnknown, SupervisorTypeOK
<1>4. SupervisorTypeOK'
  BY <1>1, <1>2, <1>3 DEF SupervisorTypeOK
<1>5. Placed' /\ Carried'
  BY <1>1 DEF Placed, Carried, Launched, Executed, Occupied
<1>6. ParkedIdle'
  BY <1>1, <1>2, <1>3, DeptOfRequest DEF ParkedIdle, Occupied
<1>7. WorkersKnown'
  BY <1>1, <1>2 DEF WorkersKnown, WorkerRuns, Occupied
<1>. QED
  BY <1>0, <1>4, <1>5, <1>6, <1>7, CommitsAreReduced

(* Steps of the provider, which the supervisor's records do not show.       *)
LEMMA WorkerStepsKeep ==
    ASSUME SupervisorInv, NEW r \in Dispatches,
           LaunchWorker(r) \/ RefuseLaunch(r) \/ EndWorker(r)
    PROVE  SupervisorInv'
<1>. USE DEF SupervisorInv, LeadsInv
<1>1. /\ carrier' = carrier /\ execution' = execution /\ dispatch' = dispatch
      /\ department' = department /\ chief' = chief /\ chiefs' = chiefs
  BY DEF LaunchWorker, RefuseLaunch, EndWorker
<1>2. /\ worker' \in [Dispatches -> [state : {"none", "running", "ended", "refused"},
                                     on : {NoCompany} \cup Dispatches]]
      /\ \A q \in Dispatches : q # r => worker'[q] = worker[q]
      /\ worker'[r].state = "running" => dispatch[r] = "in_flight"
      /\ worker'[r].state \in {"running", "ended"} =>
            worker'[r].on \in Dispatches /\ DeptOf(worker'[r].on) = DeptOf(r)
  <2>. worker \in [Dispatches -> [state : {"none", "running", "ended", "refused"},
                                  on : {NoCompany} \cup Dispatches]]
    BY DEF SupervisorTypeOK
  <2>1. CASE LaunchWorker(r)
    <3>1. \A c \in LiveCarriers(DeptOf(r)) : c \in Dispatches /\ DeptOf(c) = DeptOf(r)
      BY DeptOfRequest, DepartmentHolds DEF LiveCarriers
    <3>2. PICK c \in Dispatches : /\ DeptOf(c) = DeptOf(r)
                                  /\ worker' = [worker EXCEPT ![r] = [state |-> "running", on |-> c]]
      <4>. DEFINE parked == {c \in LiveCarriers(DeptOf(r)) : carrier[c] = "parked"}
      <4>1. PICK c \in IF parked = {} THEN {r} ELSE parked :
                   worker' = [worker EXCEPT ![r] = [state |-> "running", on |-> c]]
        BY <2>1 DEF LaunchWorker
      <4>2. c \in Dispatches /\ DeptOf(c) = DeptOf(r)
        BY <4>1, <3>1
      <4>. QED
        BY <4>1, <4>2
    <3>. QED
      BY <3>2, <2>1 DEF LaunchWorker
  <2>2. CASE RefuseLaunch(r)
    BY <2>2 DEF RefuseLaunch
  <2>3. CASE EndWorker(r)
    BY <2>3 DEF EndWorker, WorkerRuns, Placed, Launched
  <2>. QED
    BY <2>1, <2>2, <2>3
<1>3. SupervisorTypeOK'
  BY <1>1, <1>2 DEF SupervisorTypeOK
<1>4. Placed'
  BY <1>1, <1>2 DEF Placed, Launched, Executed
<1>5. Carried' /\ ParkedIdle'
  BY <1>1 DEF Carried, ParkedIdle, Occupied
<1>6. WorkersKnown'
  BY <1>1, <1>2 DEF WorkersKnown, WorkerRuns, Occupied
<1>7. ReducedInv'
  BY <1>1 DEF ReducedInv, OneCurrent, SlotsBounded, LiveCarriers, Slots, ActiveCarriers,
     Occupied, HeldDispatches
<1>. QED
  BY <1>3, <1>4, <1>5, <1>6, <1>7

(* A recorded success: a parked carrier is resumed, or a fresh one bound    *)
(* and the prior one fenced.                                                *)
LEMMA RecordSuccessKeeps ==
    ASSUME SupervisorInv, NEW r \in Dispatches, RecordSuccess(r)
    PROVE  SupervisorInv'
<1>. USE DEF SupervisorInv, LeadsInv
<1>0. ReducedInv'
  BY CommitsAreReduced DEF RecordSuccess, Admission
<1>. DEFINE prior == LiveCarriers(DeptOf(r))
<1>1. PICK c \in Dispatches :
         /\ c = worker[r].on /\ DeptOf(c) = DeptOf(r)
         /\ execution' = [execution EXCEPT ![r] = [by |-> c, runtime |-> "running", idle |-> FALSE]]
         /\ \/ c \in prior /\ carrier[c] = "parked" /\ carrier' = [carrier EXCEPT ![c] = "active"]
            \/ /\ carrier[c] = NoCompany
               /\ carrier' = [b \in Dispatches |-> IF b = c THEN "active"
                                                    ELSE IF b \in prior THEN "fenced"
                                                    ELSE carrier[b]]
  <2>1. worker[r].on \in Dispatches /\ DeptOf(worker[r].on) = DeptOf(r)
    BY DEF RecordSuccess, Placed, Launched
  <2>2. CASE \E p \in prior : carrier[p] = "parked"
    <3>1. PICK p \in prior : carrier[p] = "parked"
      BY <2>2
    <3>2. worker[r].on \in prior /\ carrier' = [carrier EXCEPT ![worker[r].on] = "active"]
      BY <2>2 DEF RecordSuccess, Rebind
    <3>3. p = worker[r].on
      BY <3>1, <3>2, DeptOfRequest DEF ReducedInv, OneCurrent
    <3>. QED
      BY <2>1, <3>1, <3>2, <3>3 DEF RecordSuccess
  <2>3. CASE ~(\E p \in prior : carrier[p] = "parked")
    <3>1. /\ carrier[worker[r].on] = NoCompany
          /\ carrier' = [b \in Dispatches |-> IF b = worker[r].on THEN "active"
                                               ELSE IF b \in prior THEN "fenced"
                                               ELSE carrier[b]]
      BY <2>3 DEF RecordSuccess, Rebind
    <3>. QED
      BY <2>1, <3>1 DEF RecordSuccess
  <2>. QED
    BY <2>2, <2>3
<1>2. /\ chief' = chief /\ chiefs' = chiefs /\ department' = department /\ worker' = worker
      /\ dispatch' = [dispatch EXCEPT ![r] = "dispatched"] /\ dispatch[r] = "in_flight"
      /\ department[DeptOf(r)] = "active"
  BY DeptOfRequest DEF RecordSuccess, Move, ParkedIdle, SupervisorTypeOK
<1>3. /\ prior = {b \in Dispatches : DeptOf(b) = DeptOf(r) /\ carrier[b] \in {"active", "parked"}}
  BY DeptOfRequest, DepartmentHolds DEF LiveCarriers
<1>. HIDE DEF prior
<1>4. SupervisorTypeOK'
  BY <1>1, <1>2 DEF SupervisorTypeOK, Executions, CarrierStates, DispatchStates
<1>5. /\ carrier'[c] = "active"
      /\ \A b \in Dispatches : b # c =>
            /\ carrier'[b] \in {carrier[b], "fenced"}
            /\ carrier'[b] # carrier[b] => b \in prior
  BY <1>1 DEF SupervisorTypeOK
<1>6. /\ execution'[r] = [by |-> c, runtime |-> "running", idle |-> FALSE]
      /\ \A q \in Dispatches : q # r => execution'[q] = execution[q]
  BY <1>1 DEF SupervisorTypeOK
<1>7. \A q \in Occupied : execution[q].by # c /\ execution[q].by \in Dispatches
  BY <1>1, SupervisorAssumption DEF Carried, Placed, Executed, Occupied, SupervisorTypeOK, Executions
<1>8. \A q \in Occupied' : q = r \/ q \in Occupied
  BY <1>6 DEF Occupied
<1>9. Placed'
  <2>1. \A q \in Dispatches : execution[q] # NoCompany =>
           execution[q].by \in Dispatches /\ DeptOf(execution[q].by) = DeptOf(q)
             /\ carrier[execution[q].by] # NoCompany
    BY DEF SupervisorTypeOK, Executions, Placed, Executed
  <2>2. \A q \in Dispatches : execution'[q] # NoCompany =>
           /\ DeptOf(execution'[q].by) = DeptOf(q)
           /\ carrier'[execution'[q].by] # NoCompany
    <3>. SUFFICES ASSUME NEW q \in Dispatches, execution'[q] # NoCompany
         PROVE /\ DeptOf(execution'[q].by) = DeptOf(q)
               /\ carrier'[execution'[q].by] # NoCompany
      OBVIOUS
    <3>1. CASE q = r
      BY <3>1, <1>1, <1>5, <1>6, SupervisorAssumption DEF CarrierStates
    <3>2. CASE q # r
      BY <3>2, <2>1, <1>5, <1>6, SupervisorAssumption DEF CarrierStates
    <3>. QED
      BY <3>1, <3>2
  <2>. QED
    BY <1>2, <2>2 DEF Placed, Launched, Executed
<1>10. Carried'
  <2>1. \A q \in Occupied : carrier'[execution[q].by] \in {"active", "fenced"}
    BY <1>5, <1>7 DEF Carried
  <2>2. \A q \in Occupied' : carrier'[execution'[q].by] \in {"active", "fenced"}
    BY <2>1, <1>5, <1>6, <1>8 DEF Occupied
  <2>3. \A p, q \in Occupied' : execution'[p].by = execution'[q].by => p = q
    BY <1>6, <1>7, <1>8 DEF Carried, Occupied
  <2>. QED
    BY <2>2, <2>3 DEF Carried
<1>11. ParkedIdle'
  <2>. SUFFICES ASSUME NEW q \in Dispatches, department[DeptOf(q)] = "parked"
       PROVE /\ dispatch'[q] \notin {"queued", "admitted", "in_flight"}
             /\ q \notin Occupied' /\ carrier'[q] # "active"
    BY <1>2 DEF ParkedIdle
  <2>1. q # r /\ q # c
    BY <1>1, <1>2
  <2>. QED
    BY <2>1, <1>2, <1>5, <1>8 DEF ParkedIdle, SupervisorTypeOK
<1>12. WorkersKnown'
  <2>1. r \in Occupied' /\ execution'[r].by = worker'[r].on
    <3>1. [by |-> c, runtime |-> "running", idle |-> FALSE] \in Executions
      BY DEF Executions
    <3>2. execution'[r] # NoCompany
      BY <3>1, <1>6, SupervisorAssumption
    <3>. QED
      BY <3>2, <1>1, <1>2, <1>6 DEF Occupied
  <2>2. \A q \in Occupied \ {r} : q \in Occupied' /\ execution'[q] = execution[q]
    BY <1>6 DEF Occupied
  <2>. QED
    BY <2>1, <2>2, <1>2 DEF WorkersKnown, WorkerRuns, SupervisorTypeOK
<1>. QED
  BY <1>0, <1>4, <1>9, <1>10, <1>11, <1>12

(* A lead that stops, idles or is confirmed lost.                           *)
LEMMA LeadStepsKeep ==
    ASSUME SupervisorInv, NEW r \in Dispatches, RecordStop(r) \/ RecordIdle(r) \/ ConfirmLost(r)
    PROVE  SupervisorInv'
<1>. USE DEF SupervisorInv, LeadsInv
<1>0. ReducedInv'
  BY CommitsAreReduced DEF RecordStop, RecordIdle, ConfirmLost
<1>1. /\ chief' = chief /\ chiefs' = chiefs /\ department' = department /\ worker' = worker
      /\ dispatch' = dispatch
  BY DEF RecordStop, RecordIdle, ConfirmLost
<1>2. execution[r] \in Executions /\ execution[r] # NoCompany
  BY DEF RecordStop, RecordIdle, ConfirmLost, Occupied, SupervisorTypeOK
<1>3. /\ execution' \in [Dispatches -> {NoCompany} \cup Executions]
      /\ \A q \in Dispatches : q # r => execution'[q] = execution[q]
      /\ execution'[r] \in Executions /\ execution'[r].by = execution[r].by
      /\ r \notin Occupied'
      /\ r \in Occupied => ~WorkerRuns(r)
  <2>1. CASE RecordStop(r)
    BY <2>1, <1>2 DEF RecordStop, SupervisorTypeOK, Executions, Occupied
  <2>2. CASE RecordIdle(r)
    BY <2>2, <1>2 DEF RecordIdle, SupervisorTypeOK, Executions, Occupied
  <2>3. CASE ConfirmLost(r)
    BY <2>3, <1>2 DEF ConfirmLost, SupervisorTypeOK, Executions, Occupied
  <2>. QED
    BY <2>1, <2>2, <2>3
<1>4. Occupied' = Occupied \ {r}
  BY <1>3 DEF Occupied
<1>5. /\ carrier' \in [Dispatches -> {NoCompany} \cup CarrierStates]
      /\ \A b \in Dispatches : carrier'[b] # carrier[b] =>
            carrier'[b] = "lost" /\ b = execution[r].by /\ On(b) \cap Occupied = {r}
  BY <1>2 DEF RecordStop, RecordIdle, ConfirmLost, SupervisorTypeOK, CarrierStates, Executions
<1>6. SupervisorTypeOK'
  BY <1>1, <1>3, <1>5 DEF SupervisorTypeOK
<1>7. \A q \in Dispatches : execution'[q] # NoCompany =>
         execution[q] # NoCompany /\ execution'[q].by = execution[q].by /\ execution[q].by \in Dispatches
  BY <1>2, <1>3 DEF SupervisorTypeOK, Executions
<1>8. Placed'
  BY <1>1, <1>5, <1>7, SupervisorAssumption DEF Placed, Launched, Executed, CarrierStates
<1>9. \A q \in Occupied' : /\ q \in Occupied /\ q # r /\ execution'[q].by = execution[q].by
                           /\ carrier'[execution[q].by] = carrier[execution[q].by]
  <2>. SUFFICES ASSUME NEW q \in Occupied'
       PROVE  /\ q \in Occupied /\ q # r /\ execution'[q].by = execution[q].by
              /\ carrier'[execution[q].by] = carrier[execution[q].by]
    OBVIOUS
  <2>1. q \in Occupied /\ q # r /\ q \in Dispatches /\ execution'[q].by = execution[q].by
    BY <1>3, <1>4 DEF Occupied
  <2>2. execution[q].by \in Dispatches /\ q \in On(execution[q].by)
    BY <2>1 DEF Occupied, On, SupervisorTypeOK, Executions
  <2>. QED
    BY <2>1, <2>2, <1>5
<1>10. Carried'
  BY <1>9 DEF Carried
<1>11. ParkedIdle'
  BY <1>1, <1>4, <1>5 DEF ParkedIdle
<1>12. WorkersKnown'
  <2>1. \A q \in Occupied : q # r => q \in Occupied' /\ execution'[q] = execution[q]
    BY <1>3, <1>4 DEF Occupied
  <2>. QED
    BY <2>1, <1>1, <1>3 DEF WorkersKnown, WorkerRuns
<1>. QED
  BY <1>0, <1>6, <1>8, <1>10, <1>11, <1>12

(* A department is parked only when nothing of it executes.                 *)
LEMMA ParkKeeps ==
    ASSUME SupervisorInv, NEW d \in DOMAIN Departments, ParkDepartment(d)
    PROVE  SupervisorInv'
<1>. USE DEF SupervisorInv, LeadsInv
<1>0. ReducedInv'
  BY CommitsAreReduced DEF ParkDepartment
<1>1. /\ chief' = chief /\ chiefs' = chiefs /\ worker' = worker
      /\ dispatch' = dispatch /\ execution' = execution
      /\ department' = [department EXCEPT ![d] = "parked"]
      /\ carrier' = [c \in Dispatches |-> IF c \in LiveCarriers(d) THEN "parked" ELSE carrier[c]]
  BY DEF ParkDepartment
<1>2. SupervisorTypeOK'
  BY <1>1 DEF SupervisorTypeOK, CarrierStates
<1>3. \A c \in Dispatches : c \in LiveCarriers(d) <=>
                               DeptOf(c) = d /\ carrier[c] \in {"active", "parked"}
  BY DepartmentHolds, DeptOfRequest DEF LiveCarriers
<1>4. \A r \in Dispatches : DeptOf(r) = d =>
         r \notin Occupied /\ dispatch[r] \notin {"queued", "admitted", "in_flight"}
  BY DeptOfRequest DEF ParkDepartment, Parkable, Busy, Occupied
<1>5. Placed'
  <2>1. \A r \in Dispatches : execution[r] # NoCompany => execution[r].by \in Dispatches
    BY DEF SupervisorTypeOK, Executions
  <2>2. \A b \in Dispatches : carrier[b] # NoCompany => carrier'[b] # NoCompany
    BY <1>1, SupervisorAssumption DEF CarrierStates
  <2>. QED
    BY <1>1, <2>1, <2>2 DEF Placed, Launched, Executed
<1>6. Carried'
  <2>1. \A r \in Occupied : execution[r].by \in Dispatches /\ DeptOf(execution[r].by) # d
    BY <1>4 DEF Occupied, Placed, Executed, SupervisorTypeOK, Executions
  <2>2. Occupied' = Occupied
    BY <1>1 DEF Occupied
  <2>3. \A r \in Occupied : carrier'[execution[r].by] = carrier[execution[r].by]
    BY <1>1, <1>3, <2>1
  <2>. QED
    BY <1>1, <2>2, <2>3 DEF Carried
<1>7. ParkedIdle'
  <2>. SUFFICES ASSUME NEW r \in Dispatches, department'[DeptOf(r)] = "parked"
       PROVE /\ dispatch[r] \notin {"queued", "admitted", "in_flight"}
             /\ r \notin Occupied /\ carrier'[r] # "active"
    BY <1>1 DEF ParkedIdle, Occupied
  <2>1. CASE DeptOf(r) = d
    BY <2>1, <1>1, <1>3, <1>4
  <2>2. CASE DeptOf(r) # d
    BY <2>2, <1>1, <1>3, DeptOfRequest DEF ParkedIdle, SupervisorTypeOK
  <2>. QED
    BY <2>1, <2>2
<1>8. WorkersKnown'
  BY <1>1 DEF WorkersKnown, WorkerRuns, Occupied
<1>. QED
  BY <1>0, <1>2, <1>5, <1>6, <1>7, <1>8

(* The Chief's carriers.                                                    *)
LEMMA ChiefStepsKeep ==
    ASSUME SupervisorInv, NEW x \in ChiefCarriers, StopChief(x) \/ PrepareTakeover(x) \/ Takeover(x)
    PROVE  SupervisorInv'
<1>. USE DEF SupervisorInv, LeadsInv
<1>1. /\ department' = department /\ carrier' = carrier /\ dispatch' = dispatch
      /\ execution' = execution /\ worker' = worker
  BY DEF StopChief, PrepareTakeover, Takeover
<1>2. /\ chief' \in ChiefCarriers
      /\ chiefs' \in [ChiefCarriers -> [state : {NoCompany} \cup CarrierStates, runs : BOOLEAN]]
  <2>. /\ chief \in ChiefCarriers
       /\ chiefs \in [ChiefCarriers -> [state : {NoCompany} \cup CarrierStates, runs : BOOLEAN]]
    BY DEF SupervisorTypeOK
  <2>1. CASE StopChief(x)
    BY <2>1 DEF StopChief, CarrierStates
  <2>2. CASE PrepareTakeover(x)
    BY <2>2 DEF PrepareTakeover
  <2>3. CASE Takeover(x)
    BY <2>3 DEF Takeover, CarrierStates
  <2>. QED
    BY <2>1, <2>2, <2>3
<1>3. SupervisorTypeOK'
  BY <1>1, <1>2 DEF SupervisorTypeOK
<1>4. Placed' /\ Carried' /\ ParkedIdle' /\ WorkersKnown'
  BY <1>1 DEF Placed, Carried, ParkedIdle, WorkersKnown, Launched, Executed, Occupied, WorkerRuns
<1>5. ReducedInv'
  <2>1. CASE StopChief(x) \/ Takeover(x)
    BY <2>1, CommitsAreReduced DEF StopChief, Takeover
  <2>2. CASE PrepareTakeover(x)
    BY <2>2 DEF PrepareTakeover, ReducedInv, OneCurrent, SlotsBounded, LiveCarriers, Slots,
       ActiveCarriers, Occupied, HeldDispatches
  <2>. QED
    BY <2>1, <2>2
<1>. QED
  BY <1>3, <1>4, <1>5

LEMMA SupervisorStep == SupervisorInv /\ [SupervisorNext]_supervisorVars => SupervisorInv'
<1>. SUFFICES ASSUME SupervisorInv, [SupervisorNext]_supervisorVars PROVE SupervisorInv'
  OBVIOUS
<1>1. CASE UNCHANGED supervisorVars
  BY <1>1 DEF supervisorVars, SupervisorInv, LeadsInv, ReducedInv, SupervisorTypeOK, Placed,
     Carried, ParkedIdle, WorkersKnown, OneCurrent, SlotsBounded, Launched, Executed, Occupied,
     WorkerRuns, LiveCarriers, Slots, ActiveCarriers, HeldDispatches
<1>2. CASE SupervisorNext
  BY <1>2, DispatchStepsKeep, WorkerStepsKeep, RecordSuccessKeeps, LeadStepsKeep, ParkKeeps,
     ChiefStepsKeep DEF SupervisorNext
<1>. QED
  BY <1>1, <1>2

(* Every running worker has a slot of its own: its reservation, or the      *)
(* carrier that its execution holds.                                        *)
LEMMA WorkersHaveSlots == SupervisorInv => WorkersBounded
<1>. SUFFICES ASSUME SupervisorInv PROVE WorkersBounded
  OBVIOUS
<1>. USE DEF SupervisorInv, LeadsInv, ReducedInv
<1>. DEFINE W == {r \in Dispatches : WorkerRuns(r)}
            X == {x \in ChiefCarriers : chiefs[x].runs}
            C == {<<"chief", x>> : x \in X}
            slot == [r \in W |-> IF dispatch[r] = "in_flight" THEN <<"reservation", r>>
                                 ELSE <<"carrier", worker[r].on>>]
            pair == [x \in X |-> <<"chief", x>>]
<1>1. IsFiniteSet(Slots)
  <2>. DEFINE kinds == {"carrier", "reservation", "chief"}
  <2>1. IsFiniteSet(kinds)
    <3>1. IsFiniteSet({"carrier"})
      BY FS_Singleton
    <3>2. IsFiniteSet({"carrier"} \cup {"reservation"})
      BY <3>1, FS_AddElement
    <3>3. IsFiniteSet(({"carrier"} \cup {"reservation"}) \cup {"chief"})
      BY <3>2, FS_AddElement
    <3>4. kinds = ({"carrier"} \cup {"reservation"}) \cup {"chief"}
      OBVIOUS
    <3>. QED
      BY <3>3, <3>4
  <2>2. IsFiniteSet(Dispatches \cup ChiefCarriers)
    BY SupervisorAssumption, FS_Union
  <2>3. IsFiniteSet(kinds \X (Dispatches \cup ChiefCarriers))
    BY <2>1, <2>2, FS_Product
  <2>4. \A r \in Occupied : execution[r].by \in Dispatches
    BY DEF Occupied, SupervisorTypeOK, Executions
  <2>5. Slots \subseteq kinds \X (Dispatches \cup ChiefCarriers)
    BY <2>4 DEF Slots, ActiveCarriers, HeldDispatches
  <2>. QED
    BY <2>3, <2>5, FS_Subset
<1>2. C \subseteq Slots
  BY DEF Slots
<1>3. IsFiniteSet(C) /\ IsFiniteSet(Slots \ C)
      /\ Cardinality(Slots \ C) = Cardinality(Slots) - Cardinality(C)
  <2>1. Slots \cap C = C
    BY <1>2
  <2>2. IsFiniteSet(C)
    BY <1>1, <1>2, FS_Subset
  <2>. HIDE DEF C
  <2>. QED
    BY <1>1, <2>1, <2>2, FS_Difference
<1>4. Cardinality(X) <= Cardinality(C)
  <2>1. pair \in Injection(X, C)
    BY DEF Injection, IsInjective
  <2>. QED
    BY <2>1, <1>3, FS_Injection
<1>5. Cardinality(W) <= Cardinality(Slots \ C)
  <2>1. \A r \in W : slot[r] \in Slots \ C
    <3>. SUFFICES ASSUME NEW r \in W PROVE slot[r] \in Slots /\ slot[r][1] # "chief"
      OBVIOUS
    <3>1. CASE dispatch[r] = "in_flight"
      <4>1. r \in HeldDispatches
        BY <3>1 DEF HeldDispatches
      <4>. QED
        BY <3>1, <4>1 DEF Slots
    <3>2. CASE dispatch[r] # "in_flight"
      <4>1. r \in Occupied /\ execution[r].by = worker[r].on
        BY <3>2 DEF WorkersKnown
      <4>. QED
        BY <3>2, <4>1 DEF Slots
    <3>. QED
      BY <3>1, <3>2
  <2>2. \A r, q \in W : slot[r] = slot[q] => r = q
    <3>. SUFFICES ASSUME NEW r \in W, NEW q \in W, slot[r] = slot[q] PROVE r = q
      OBVIOUS
    <3>1. CASE dispatch[r] = "in_flight" \/ dispatch[q] = "in_flight"
      BY <3>1
    <3>2. CASE dispatch[r] # "in_flight" /\ dispatch[q] # "in_flight"
      BY <3>2 DEF WorkersKnown, Carried
    <3>. QED
      BY <3>1, <3>2
  <2>3. slot \in Injection(W, Slots \ C)
    BY <2>1, <2>2 DEF Injection, IsInjective
  <2>. QED
    BY <2>3, <1>3, FS_Injection
<1>6. /\ Cardinality(W) \in Nat /\ Cardinality(X) \in Nat /\ Cardinality(C) \in Nat
      /\ Cardinality(Slots) \in Nat
  <2>1. IsFiniteSet(W) /\ IsFiniteSet(X)
    BY SupervisorAssumption, FS_Subset
  <2>. QED
    BY <2>1, <1>1, <1>3, FS_CardinalityType
<1>. HIDE DEF W, X, C
<1>7. Cardinality(W) + Cardinality(X) <= Capacity
  BY <1>3, <1>4, <1>5, <1>6, SupervisorAssumption DEF SlotsBounded
<1>. QED
  BY <1>7 DEF WorkersBounded, W, X

LEMMA LeadsFollow == SupervisorInv => LeadsAccounted
<1>. SUFFICES ASSUME SupervisorInv PROVE LeadsAccounted
  OBVIOUS
<1>. USE DEF SupervisorInv, LeadsInv, ReducedInv
<1>1. ParkedQuiet
  BY DepartmentHolds DEF ParkedQuiet, ParkedIdle, WorkersKnown, HeldDispatches
<1>2. ASSUME NEW c \in Dispatches, carrier[c] = "active", NEW r \in Occupied,
             DeptOf(r) = DeptOf(c), execution[r].by # c
      PROVE  carrier[execution[r].by] = "fenced"
  <2>1. /\ execution[r].by \in Dispatches /\ DeptOf(execution[r].by) = DeptOf(c)
        /\ carrier[execution[r].by] \in {"active", "fenced"}
    BY <1>2 DEF Occupied, Placed, Carried, Executed, SupervisorTypeOK, Executions
  <2>. SUFFICES ASSUME carrier[execution[r].by] = "active" PROVE FALSE
    BY <2>1
  <2>2. c \in LiveCarriers(DeptOf(c)) /\ execution[r].by \in LiveCarriers(DeptOf(c))
    BY <1>2, <2>1, DeptOfRequest DEF LiveCarriers
  <2>. QED
    BY <1>2, <2>2, DeptOfRequest DEF OneCurrent
<1>3. LeadsKnown
  BY <1>2 DEF LeadsKnown, WorkersKnown
<1>. QED
  BY <1>1, <1>3 DEF LeadsAccounted

(* Launches, takeovers, lost answers and confirmations in any order neither *)
(* start more agents than there are slots nor lose sight of one, for every  *)
(* set of departments, requests and Chief carriers and every capacity       *)
(* (reduce_company_invariants, dispatch_department_lead, park_department).  *)
THEOREM DispatchesAreSound == SupervisorSpec => []DispatchesSound
<1>1. SupervisorInv => DispatchesSound
  BY WorkersHaveSlots, LeadsFollow DEF DispatchesSound
<1>. QED
  BY SupervisorInitInv, SupervisorStep, <1>1, PTL DEF SupervisorSpec
=============================================================================
