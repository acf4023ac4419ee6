----------------------------- MODULE MCCommands -----------------------------
(* Small instances of the commands that make several durable writes under   *)
(* one lock, hook receipt rotation, resource configuration, finish-mini and *)
(* the semantic store, of the Codex transport's launches, of permits and    *)
(* promotions, and of the Company: its ledger, the client of the legacy     *)
(* bridge and the supervisor.                                               *)
(* One part runs, chosen at the start, and the others stay as they began.   *)
(* The ledger has two parts: three requests without a restore, two of them  *)
(* with one.                                                                *)
EXTENDS HookReceipts, ResourceConfig, MiniCompletion, SemanticLedger,
        TransportLaunch, BoundTransitions, MCCompanyState, LegacyBridge, CompanySupervisor

CONSTANTS f1, f2, keep, ship, also, closing, recording, s1,
          d1, d2, e1, e2, e3, Parts

VARIABLE part

TwoFiles == <<f1, f2>>
Asked    == keep :> "none" @@ ship :> "local-only" @@ also :> "local-only"
Kinds    == closing :> "close" @@ recording :> "record"
Sealed   == e1 :> "nonce" @@ e2 :> "nonce"
Depts    == d1 :> {e1, e2} @@ d2 :> {e3}

lockedVars   == <<hookVars, resVars, miniVars, ledgerVars>>
serviceVars  == <<vars, bridgeVars, supervisorVars, launchVars, boundVars>>
CommandsVars == <<part, lockedVars, serviceVars>>

CommandsInit ==
    /\ part \in Parts
    /\ HookInit /\ ResInit /\ MiniInit /\ SemInit
    /\ Init /\ BridgeInit /\ SupervisorInit /\ LaunchInit /\ BoundInit
    /\ part # "semantic" => ledgerState = NoLedger
    /\ part # "bridge" => bridgeLegacy[1] = s1

CommandsNext ==
    /\ UNCHANGED part
    /\ \/ /\ part = "hooks" /\ HookNext
          /\ UNCHANGED <<resVars, miniVars, ledgerVars, serviceVars>>
       \/ /\ part = "resources" /\ ResNext
          /\ UNCHANGED <<hookVars, miniVars, ledgerVars, serviceVars>>
       \/ /\ part = "mini" /\ MiniNext
          /\ UNCHANGED <<hookVars, resVars, ledgerVars, serviceVars>>
       \/ /\ part = "semantic" /\ SemNext
          /\ UNCHANGED <<hookVars, resVars, miniVars, serviceVars>>
       \/ /\ part = "requests" /\ Next /\ spent'.mishaps = 0
          /\ UNCHANGED <<lockedVars, bridgeVars, supervisorVars, launchVars, boundVars>>
       \/ /\ part = "restores" /\ Next /\ base'[r3] = None
          /\ UNCHANGED <<lockedVars, bridgeVars, supervisorVars, launchVars, boundVars>>
       \/ /\ part = "bridge" /\ BridgeNext
          /\ UNCHANGED <<lockedVars, vars, supervisorVars, launchVars, boundVars>>
       \/ /\ part = "supervisor" /\ SupervisorNext
          /\ UNCHANGED <<lockedVars, vars, bridgeVars, launchVars, boundVars>>
       \/ /\ part = "launch" /\ LaunchNext
          /\ UNCHANGED <<lockedVars, vars, bridgeVars, supervisorVars, boundVars>>
       \/ /\ part = "grants" /\ BoundNext
          /\ UNCHANGED <<lockedVars, vars, bridgeVars, supervisorVars, launchVars>>

CommandsSpec == CommandsInit /\ [][CommandsNext]_CommandsVars

(* Two dispatches of a department are alike, and so are the two launches,   *)
(* runners and permits, the owners of the slot lock, the bridge clients and *)
(* the contents of a hook receipt, which are the same model values.         *)
Alike == Permutations({e1, e2})
=============================================================================
