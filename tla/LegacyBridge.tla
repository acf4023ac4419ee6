---------------------------- MODULE LegacyBridge ----------------------------
(***************************************************************************)
(* The client that sends one legacy task's snapshots to the resident        *)
(* Company service, and the service's ingestion.  Everything is about one   *)
(* bridge scope: its attempts are directories of create-only receipts, read *)
(* and written under client.lock.  An attempt is identified by its source   *)
(* document, the legacy state with the instant it was observed at, so it is *)
(* prepared once; the process that prepared it owns its one POST.           *)
(*                                                                          *)
(* Requests may be late, their answers may be lost, receipts may fail to be *)
(* written and the client may be killed anywhere.  What the resident's      *)
(* commit itself may do is CompanyState's subject: here a request commits,  *)
(* is refused, or fails without having committed.                           *)
(***************************************************************************)
EXTENDS Naturals, FiniteSets

CONSTANTS
    BridgeClients,   \* processes that may run the command
    BridgeStates,    \* legacy states
    BridgeTimes,     \* bound: instants, 1 .. BridgeTimes
    BridgeAttempts,  \* attempts a scope may hold
    BridgeKills,     \* bound: kills and failed receipt writes
    NoBridge

Documents == BridgeStates \X (1 .. BridgeTimes)

ASSUME BridgeAssumption ==
    /\ {BridgeTimes, BridgeAttempts, BridgeKills} \subseteq Nat /\ BridgeTimes > 0
    /\ NoBridge \notin Documents \cup {"none", "committed", "effect_unknown"}

VARIABLES
    bridgeLegacy,    \* the legacy state and the instant
    bridgeHeld,      \* client -> the document it loaded
    bridgeRun,       \* the run that holds client.lock
    bridgeSources,   \* attempts with source.json
    bridgePrepared,  \* attempts with prepared.json
    bridgeTerminal,  \* attempt -> the effect of terminal.json
    bridgeSettled,   \* attempts with reconciled.json
    bridgeSent,      \* attempt -> POSTs sent
    bridgeWire,      \* requests the resident has not handled
    bridgeReply,     \* the answer on its way to the run
    bridgeIngested,  \* attempts the Company's ledger holds
    bridgeCoverage,  \* the document of the scope's current coverage
    bridgeAnswers,   \* attempts with the effects callers were told
    bridgeFaults     \* kills and failed writes so far

bridgeDisk == <<bridgeSources, bridgePrepared, bridgeTerminal, bridgeSettled>>
bridgeResident == <<bridgeWire, bridgeIngested, bridgeCoverage>>
bridgeVars == <<bridgeLegacy, bridgeHeld, bridgeRun, bridgeDisk, bridgeSent,
                bridgeReply, bridgeResident, bridgeAnswers, bridgeFaults>>

BridgeInit ==
    /\ bridgeLegacy \in BridgeStates \X {1}
    /\ bridgeHeld = [c \in BridgeClients |-> NoBridge] /\ bridgeRun = NoBridge
    /\ bridgeSources = {} /\ bridgePrepared = {} /\ bridgeSettled = {}
    /\ bridgeTerminal = [d \in Documents |-> NoBridge]
    /\ bridgeSent = [d \in Documents |-> 0]
    /\ bridgeWire = {} /\ bridgeReply = NoBridge
    /\ bridgeIngested = {} /\ bridgeCoverage = NoBridge
    /\ bridgeAnswers = {} /\ bridgeFaults = 0

(* What the receipts say of a prepared attempt.                             *)
CurrentEffect(d) ==
    IF d \in bridgeSettled THEN "committed"
    ELSE IF bridgeTerminal[d] # NoBridge THEN bridgeTerminal[d] ELSE "effect_unknown"

With(effect) == {d \in bridgePrepared : CurrentEffect(d) = effect}

(* Time passes; other commands change the legacy task.                      *)
LegacyChanges(s) ==
    /\ bridgeLegacy[2] < BridgeTimes
    /\ bridgeLegacy' = <<s, bridgeLegacy[2] + 1>>
    /\ UNCHANGED <<bridgeHeld, bridgeRun, bridgeDisk, bridgeSent, bridgeReply,
                   bridgeResident, bridgeAnswers, bridgeFaults>>

(* The source is loaded before the lock is taken.                           *)
LoadSource(c) ==
    /\ bridgeHeld[c] = NoBridge
    /\ bridgeHeld' = [bridgeHeld EXCEPT ![c] = bridgeLegacy]
    /\ UNCHANGED <<bridgeLegacy, bridgeRun, bridgeDisk, bridgeSent, bridgeReply,
                   bridgeResident, bridgeAnswers, bridgeFaults>>

(* Fault: an attempt of unknown effect holds no other attempt up.           *)
PriorCommitted(d) == {p \in With("committed") : p[1] = d[1]}

(* The attempt this run has to look at instead of sending its own: one of   *)
(* unknown effect, else a committed one of the same legacy state.           *)
Prior(d) ==
    IF With("effect_unknown") # {} THEN With("effect_unknown")
    ELSE {p \in With("committed") : p[1] = d[1]}

Full(d) == d \notin bridgeSources /\ Cardinality(bridgeSources) >= BridgeAttempts

Run(d, phase, post) == [doc |-> d, phase |-> phase, post |-> post]

(* The lock is taken and the inventory decides.  A run that finds its exact *)
(* attempt ended without effect answers that; at the limit of attempts it   *)
(* seals the capacity receipt and sends nothing; when the receipts are      *)
(* ambiguous it fails.                                                      *)
BeginRun(c) ==
    LET d == bridgeHeld[c] IN
    /\ bridgeRun = NoBridge /\ d # NoBridge
    /\ bridgeHeld' = [bridgeHeld EXCEPT ![c] = NoBridge]
    /\ \/ /\ d \in With("none")
          /\ bridgeAnswers' = bridgeAnswers \cup {<<d, "none">>}
          /\ UNCHANGED bridgeRun
       \/ /\ d \notin With("none") /\ Cardinality(Prior(d)) = 1
          /\ \E p \in Prior(d) : bridgeRun' = Run(p, "query", CurrentEffect(p))
          /\ UNCHANGED bridgeAnswers
       \/ /\ d \notin With("none") /\ Prior(d) = {} /\ ~Full(d)
          /\ bridgeRun' = Run(d, "source", "effect_unknown")
          /\ UNCHANGED bridgeAnswers
       \/ /\ d \notin With("none") /\ Prior(d) = {} /\ Full(d)
          /\ UNCHANGED <<bridgeRun, bridgeAnswers>>
    /\ UNCHANGED <<bridgeLegacy, bridgeDisk, bridgeSent, bridgeReply,
                   bridgeResident, bridgeFaults>>

Running(phase) == bridgeRun # NoBridge /\ bridgeRun.phase = phase
Goto(phase) == bridgeRun' = [bridgeRun EXCEPT !.phase = phase]

WriteSource ==
    /\ Running("source") /\ Goto("prepare")
    /\ bridgeSources' = bridgeSources \cup {bridgeRun.doc}
    /\ UNCHANGED <<bridgeLegacy, bridgeHeld, bridgePrepared, bridgeTerminal, bridgeSettled,
                   bridgeSent, bridgeReply, bridgeResident, bridgeAnswers, bridgeFaults>>

(* Only the run that created prepared.json owns the POST.                   *)
Prepare ==
    /\ Running("prepare")
    /\ Goto(IF bridgeRun.doc \in bridgePrepared THEN "query" ELSE "post")
    /\ bridgePrepared' = bridgePrepared \cup {bridgeRun.doc}
    /\ UNCHANGED <<bridgeLegacy, bridgeHeld, bridgeSources, bridgeTerminal, bridgeSettled,
                   bridgeSent, bridgeReply, bridgeResident, bridgeAnswers, bridgeFaults>>

Post ==
    /\ Running("post") /\ Goto("wait")
    /\ bridgeSent' = [bridgeSent EXCEPT ![bridgeRun.doc] = @ + 1]
    /\ bridgeWire' = bridgeWire \cup {bridgeRun.doc}
    /\ bridgeReply' = NoBridge
    /\ UNCHANGED <<bridgeLegacy, bridgeHeld, bridgeDisk, bridgeIngested,
                   bridgeCoverage, bridgeAnswers, bridgeFaults>>

(* The resident.  An answer reaches only a client that still waits for it.   *)
BridgeAnswer(d, effects) ==
    IF Running("wait") /\ bridgeRun.doc = d
    THEN bridgeReply' \in effects \cup {NoBridge} ELSE UNCHANGED bridgeReply

Advances(d) == bridgeCoverage # NoBridge => d[2] > bridgeCoverage[2]

(* A committed request is answered with success, with an unknown effect, or *)
(* with the failure of what follows the commit.                             *)
Ingest(d) ==
    /\ d \in bridgeWire /\ Advances(d)
    /\ bridgeWire' = bridgeWire \ {d}
    /\ bridgeIngested' = bridgeIngested \cup {d} /\ bridgeCoverage' = d
    /\ BridgeAnswer(d, {"committed", "effect_unknown"})
    /\ UNCHANGED <<bridgeLegacy, bridgeHeld, bridgeRun, bridgeDisk, bridgeSent,
                   bridgeAnswers, bridgeFaults>>

Refuse(d) ==
    /\ d \in bridgeWire
    /\ bridgeWire' = bridgeWire \ {d}
    /\ BridgeAnswer(d, IF Advances(d) THEN {"none", "effect_unknown"} ELSE {"none"})
    /\ UNCHANGED <<bridgeLegacy, bridgeHeld, bridgeRun, bridgeDisk, bridgeSent,
                   bridgeIngested, bridgeCoverage, bridgeAnswers, bridgeFaults>>

(* Fault: a request that timed out is taken for one that had no effect.     *)
UnansweredNone == "none"

Unanswered == "effect_unknown"

(* The answer arrives, or the wait ends without it.                         *)
EndWait ==
    /\ Running("wait")
    /\ bridgeRun' = [bridgeRun EXCEPT !.phase = "query",
                       !.post = IF bridgeReply = NoBridge THEN Unanswered ELSE bridgeReply]
    /\ bridgeReply' = NoBridge
    /\ UNCHANGED <<bridgeLegacy, bridgeHeld, bridgeDisk, bridgeSent, bridgeResident,
                   bridgeAnswers, bridgeFaults>>

(* A readback that shows the document proves the commit; one that does not  *)
(* shows nothing.  An answer "committed" without readback is not enough,    *)
(* unless the receipts already say so.                                      *)
Classify(readback) ==
    IF readback THEN "committed"
    ELSE IF bridgeRun.post = "committed" /\ CurrentEffect(bridgeRun.doc) # "committed"
         THEN "effect_unknown" ELSE bridgeRun.post

Query ==
    /\ Running("query")
    /\ \E readback \in {FALSE, bridgeCoverage = bridgeRun.doc} :
          bridgeRun' = [bridgeRun EXCEPT !.phase = "receipt", !.post = Classify(readback)]
    /\ UNCHANGED <<bridgeLegacy, bridgeHeld, bridgeDisk, bridgeSent, bridgeReply,
                   bridgeResident, bridgeAnswers, bridgeFaults>>

Say(effect) ==
    /\ bridgeAnswers' = bridgeAnswers \cup {<<bridgeRun.doc, effect>>}
    /\ bridgeRun' = NoBridge

(* The terminal receipt, or the reconciliation of one that was unknown.     *)
Ends(d) == bridgeTerminal[d] = NoBridge
Settles(d) == ~Ends(d) /\ CurrentEffect(d) = "effect_unknown" /\ bridgeRun.post = "committed"

WriteReceipt ==
    LET d == bridgeRun.doc IN
    /\ Running("receipt") /\ Say(bridgeRun.post)
    /\ bridgeTerminal' = IF Ends(d) THEN [bridgeTerminal EXCEPT ![d] = bridgeRun.post]
                         ELSE bridgeTerminal
    /\ bridgeSettled' = IF Settles(d) THEN bridgeSettled \cup {d} ELSE bridgeSettled
    /\ UNCHANGED <<bridgeLegacy, bridgeHeld, bridgeSources, bridgePrepared, bridgeSent,
                   bridgeReply, bridgeResident, bridgeFaults>>

BridgeFault ==
    /\ bridgeRun # NoBridge
    /\ bridgeFaults < BridgeKills /\ bridgeFaults' = bridgeFaults + 1

ReceiptFails ==
    /\ Running("receipt") /\ BridgeFault /\ Say("effect_unknown")
    /\ Ends(bridgeRun.doc) \/ Settles(bridgeRun.doc)
    /\ UNCHANGED <<bridgeLegacy, bridgeHeld, bridgeDisk, bridgeSent, bridgeReply,
                   bridgeResident>>

KillClient ==
    /\ BridgeFault
    /\ bridgeRun' = NoBridge
    /\ UNCHANGED <<bridgeLegacy, bridgeHeld, bridgeDisk, bridgeSent, bridgeReply,
                   bridgeResident, bridgeAnswers>>

(* A request dies with its connection.                                      *)
LoseRequest(d) ==
    /\ d \in bridgeWire
    /\ bridgeWire' = bridgeWire \ {d}
    /\ UNCHANGED <<bridgeLegacy, bridgeHeld, bridgeRun, bridgeDisk, bridgeSent,
                   bridgeReply, bridgeIngested, bridgeCoverage, bridgeAnswers, bridgeFaults>>

BridgeNext ==
    \/ \E s \in BridgeStates : LegacyChanges(s)
    \/ \E c \in BridgeClients : LoadSource(c) \/ BeginRun(c)
    \/ WriteSource \/ Prepare \/ Post \/ EndWait \/ Query \/ WriteReceipt
    \/ ReceiptFails \/ KillClient
    \/ \E d \in Documents : Ingest(d) \/ Refuse(d) \/ LoseRequest(d)

BridgeSpec == BridgeInit /\ [][BridgeNext]_bridgeVars

(* Properties.                                                               *)

(* No preparation is sent twice, and the receipts never become ambiguous:    *)
(* one attempt of unknown effect at a time, one committed attempt per legacy *)
(* state, whatever was killed or answered late (run_legacy_bridge_ingest_v04,*)
(* "never send twice for a preparation").                                    *)
SentOnce ==
    /\ \A d \in Documents : bridgeSent[d] <= 1
    /\ \A p, q \in With("effect_unknown") : p = q
    /\ \A p, q \in With("committed") : p[1] = q[1] => p = q

(* The receipts and the answers are true: an attempt said to have had no     *)
(* effect is not in the ledger and no request for it can still get there,    *)
(* one said to be committed is in the ledger (_classify,                     *)
(* run_legacy_bridge_ingest_v04).                                            *)
EffectsTrue ==
    /\ \A d \in With("none") : d \notin bridgeIngested \cup bridgeWire
    /\ With("committed") \subseteq bridgeIngested
    /\ \A a \in bridgeAnswers :
          /\ a[2] = "none" => a[1] \notin bridgeIngested \cup bridgeWire
          /\ a[2] = "committed" => a[1] \in bridgeIngested

(* An attempt of unknown effect that was ingested after all is the scope's   *)
(* current coverage for as long as it is unknown, so the next query that is  *)
(* answered settles it; and the coverage never goes back in time             *)
(* (run_legacy_bridge_ingest_v04, _require_monotonic_assessment).            *)
UnknownStaysReadable ==
    /\ \A d \in With("effect_unknown") \cap bridgeIngested : bridgeCoverage = d
    /\ \A d \in bridgeIngested : d[2] <= bridgeCoverage[2]

(* Both together.                                                            *)
EffectsKnown == EffectsTrue /\ UnknownStaysReadable
=============================================================================
