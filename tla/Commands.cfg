\* Every part: three receipts and three rotations; two files and two plans; three
\* finish-mini requests; two changes, migrations and rollbacks; two kills each.  Two
\* owners and a writer outside the slot lock, three colliding requests, an SQLite
\* error, and with two of them a restore of the ledger file or a loss of the read
\* model.  Two bridge clients, two attempts, two kills.  Three dispatches of two
\* departments, two Chief carriers and three slots.  Two launches of an arm, two
\* runners, two Chief epochs; two kills, failed writes, foreign events, expiries or
\* takeovers.  Two permits of one nonce, two promotions, two Chief epochs and an
\* event of another command; a kill of any command.
CONSTANTS
    HookKeys = {k1, k2, k3}
    HookBytes = {e1, e2}
    HookOps = {p, q, r}
    HookEpochs = 2
    HookEntries = 1
    HookGenerations = 3
    HookKills = 2
    Legacy = Legacy
    NoHook = NoHook
    f1 = f1
    f2 = f2
    ResFiles <- TwoFiles
    ResIds = {a1, a2}
    ResGated = a2
    ResFaults = 2
    ResProbes = {"rollback", "migrate"}
    ResKills = 1
    ResEdits = 1
    Original = Original
    Edited = Edited
    NoRes = NoRes
    keep = keep
    ship = ship
    also = also
    MiniRequests <- Asked
    MiniKills = 2
    MiniEdits = 3
    NoMini = NoMini
    closing = closing
    recording = recording
    LedgerChanges <- Kinds
    LedgerLegacy = {w1}
    LedgerMigrations = {m1, m2}
    LedgerRollbacks = {r1}
    LedgerInit = birth
    LedgerKills = 2
    NoLedger = NoLedger
    r1 = r1
    r2 = r2
    r3 = r3
    r4 = r4
    None = None
    Requests = {r1, r2, r3}
    Ids <- Given
    Outcomes = {"committed"}
    Writers = {e1, e2, x}
    Owners = {e1, e2}
    Mishaps = 1
    Faults = 1
    s1 = s1
    BridgeClients = {e1, e2}
    BridgeStates = {s1, s2}
    BridgeTimes = 3
    BridgeAttempts = 2
    BridgeKills = 2
    NoBridge = NoBridge
    d1 = d1
    d2 = d2
    e1 = e1
    e2 = e2
    e3 = e3
    Departments <- Depts
    ChiefCarriers = {h1, h2}
    FirstChief = h1
    Capacity = 3
    Fanout = 2
    NoCompany = NoCompany
    Launches = {e1, e2}
    Runners = {e1, e2}
    LaunchEpochs = 2
    LaunchMishaps = 2
    NoLaunch = NoLaunch
    BoundPermits <- Sealed
    BoundPromotions = {m1, m2}
    BoundEpochs = 2
    BoundOthers = 1
    NoBound = NoBound
    Parts = {"hooks", "resources", "mini", "semantic", "requests", "restores", "bridge",
             "supervisor", "launch", "grants"}
SPECIFICATION CommandsSpec
SYMMETRY Alike
INVARIANTS
    GenerationsSound
    ReceiptsExplain
    FinishResumable
    LedgerNeverStuck
    LedgerAuthoritative
    LaunchesSound
    LaunchRecoverable
    SentOnce
    EffectsKnown
    DispatchesSound
    GrantsResolvable
PROPERTIES
    AdmittedOnCurrent
    ImplementsReceiptLog
    FinishSound
    ImplementsHistory
    ImplementsGrants
CHECK_DEADLOCK FALSE
