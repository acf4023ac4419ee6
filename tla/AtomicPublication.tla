-------------------------- MODULE AtomicPublication --------------------------
(***************************************************************************)
(* How AOI puts a file on disk, and what is left when it is interrupted: on *)
(* POSIX, a private temporary beside the target is filled, fsynced and then *)
(* renamed over the target (write) or linked to it and unlinked (create).   *)
(* The same two routines publish the configuration, the state lock itself   *)
(* and every document under the lock, so the module also has the bootstrap  *)
(* of a project and recover-temporaries, which removes what killed writers  *)
(* left behind.                                                             *)
(*                                                                          *)
(* The file system is a map from names to inodes and from inodes to bytes;  *)
(* an inode's link count is the number of its names.  A temporary's name    *)
(* carries the operation and the target.  Inodes and nonces are numbers and *)
(* the least unused one is taken.                                           *)
(***************************************************************************)
EXTENDS Naturals, FiniteSets

CONSTANTS
    Procs,      \* processes
    Values,     \* complete payloads of a document
    Commands,   \* what processes may be asked to do, of AllCommands
    Fresh,      \* TRUE: no project yet; FALSE: an initialized one
    None,
    Inodes,     \* bound: inode numbers
    Nonces,     \* bound: nonces of temporaries
    MaxRuns,    \* bound: commands started
    Kills,      \* bound: processes killed
    Faults      \* bound: system calls that fail

AllCommands == {"init", "plan", "acquire", "create", "write", "recover", "read"}

ASSUME PublicationAssumption ==
    /\ Commands \subseteq AllCommands
    /\ Fresh \in BOOLEAN
    /\ None \notin Procs \cup Values \cup Inodes \cup Nonces
    /\ Inodes \subseteq Nat /\ IsFiniteSet(Inodes)
    /\ Nonces \subseteq Nat /\ IsFiniteSet(Nonces)
    /\ ~Fresh => 1..3 \subseteq Inodes
    /\ MaxRuns \in Nat /\ Kills \in Nat /\ Faults \in Nat

VARIABLES
    entry,      \* the inode each published name refers to
    temp,       \* the temporary of each nonce
    bytes,      \* the content of each inode
    marker,     \* platform.json: "absent", "torn" or "whole"
    chief,      \* chief-authority.json exists
    holder,     \* the process that holds flock on each inode
    run,        \* the command each process executes
    left        \* what the bounds leave: runs, kills and faults

vars == <<entry, temp, bytes, marker, chief, holder, run, left>>
files == <<entry, temp, bytes>>

Targets == {"config", "lock", "policy", "record"}

(* The payload of the lock is one NUL, that of config and policy is fixed.  *)
Fixed == "fixed"
Empty == "empty"

Files(t) == IF t = "config" THEN "root" ELSE "state"

Temporaries == [op : {"create", "write"}, target : Targets, ino : Inodes]

-----------------------------------------------------------------------------
(* The file system                                                          *)

Live(n) == temp[n] # None

Links(i) == Cardinality({t \in Targets : entry[t] = i})
            + Cardinality({n \in Nonces : Live(n) /\ temp[n].ino = i})

Private(t) == entry[t] # None /\ Links(entry[t]) = 1

Least(S) == CHOOSE x \in S : \A y \in S : x <= y

UsedInodes == {i \in Inodes : Links(i) > 0}
              \cup {i \in Inodes : \E p \in Procs :
                        run[p] # None /\ (run[p].ino = i \/ run[p].lock = i)}

UsedNonces == {n \in Nonces : Live(n)
                   \/ \E p \in Procs : run[p] # None /\ run[p].nonce = n}

-----------------------------------------------------------------------------
(* Processes                                                                *)

Steps == AllCommands \cup
    {"configure", "layout", "mark", "fill marker", "relayout", "lock file",
     "preflight", "bind", "wait", "grant", "remove", "leave",
     "open", "fill", "name", "unlink", "sync", "stat", "open file", "return"}

Runs == [cmd : AllCommands \cup {"grant"}, at : Steps, op : {None, "create", "write"},
         target : Targets \cup {None}, val : Values \cup {Fixed, None},
         nonce : Nonces \cup {None}, ino : Inodes \cup {None},
         lock : Inodes \cup {None},
         todo : SUBSET [nonce : Nonces, ino : Inodes, links : Nat]]

ASSUME NullAssumption == None \notin Runs /\ None \notin Temporaries

TypeOK ==
    /\ entry \in [Targets -> Inodes \cup {None}]
    /\ \A n \in Nonces : temp[n] \in Temporaries \cup {None}
    /\ bytes \in [Inodes -> Values \cup {Fixed, Empty}]
    /\ marker \in {"absent", "torn", "whole"}
    /\ chief \in BOOLEAN
    /\ holder \in [Inodes -> Procs \cup {None}]
    /\ \A p \in Procs : run[p] # None => run[p] \in Runs
    /\ \A i \in Inodes : holder[i] # None => run[holder[i]] # None
    /\ left \in [runs : Nat, kills : Nat, faults : Nat]

At(p, step) == run[p] # None /\ run[p].at = step

Go(p, step) == run' = [run EXCEPT ![p].at = step]

(* A fault, for the checks: the error path of state_lock forgets the lock.  *)
EndKeepingLock(p) == run' = [run EXCEPT ![p] = None] /\ UNCHANGED holder

(* A process that ends, well or not, closes its files: flock is gone.       *)
End(p) ==
    /\ run' = [run EXCEPT ![p] = None]
    /\ holder' = [i \in Inodes |-> IF holder[i] = p THEN None ELSE holder[i]]

EndAsIs(p) == End(p) /\ UNCHANGED <<files, marker, chief, left>>

StartPublishing(p, op, t, v) ==
    run' = [run EXCEPT ![p].at = "open", ![p].op = op, ![p].target = t, ![p].val = v]

AfterPublishing(t) ==
    IF t = "config" THEN "layout" ELSE IF t = "lock" THEN "bind" ELSE "leave"

(* The names preflight_layout inspects: missing or one private file each,   *)
(* and a marker that can be read.  The first is a fault, for the checks: a  *)
(* marker that cannot be read passes.                                       *)
PreflightAnyMarker == \A t \in {"lock", "policy"} : entry[t] # None => Private(t)

Preflight ==
    /\ \A t \in {"lock", "policy"} : entry[t] # None => Private(t)
    /\ marker # "torn"

Pristine ==
    /\ marker = "absent"
    /\ \A t \in Targets \ {"config"} : entry[t] = None
    /\ \A n \in Nonces : Live(n) => Files(temp[n].target) = "root"

Init ==
    /\ temp = [n \in Nonces |-> None]
    /\ holder = [i \in Inodes |-> None]
    /\ run = [p \in Procs |-> None]
    /\ left = [runs |-> MaxRuns, kills |-> Kills, faults |-> Faults]
    /\ IF Fresh
       THEN /\ entry = [t \in Targets |-> None]
            /\ bytes = [i \in Inodes |-> Empty]
            /\ marker = "absent" /\ chief = FALSE
       ELSE /\ entry = [config |-> 1, lock |-> 2, policy |-> 3, record |-> None]
            /\ bytes = [i \in Inodes |-> IF i \in 1..3 THEN Fixed ELSE Empty]
            /\ marker = "whole" /\ chief = TRUE

(* An unauthenticated init is dispatched while there is no configuration;   *)
(* every other command begins by reading one.                               *)
Start(p) ==
    /\ run[p] = None /\ left.runs > 0
    /\ left' = [left EXCEPT !.runs = @ - 1]
    /\ \E c \in Commands, v \in Values :
        /\ IF c = "init" THEN entry["config"] = None ELSE Private("config")
        /\ run' = [run EXCEPT ![p] =
               [cmd |-> c, val |-> IF c \in {"create", "write"} THEN v ELSE None,
                at |-> IF c = "init" THEN "configure" ELSE IF c = "plan" THEN "layout"
                       ELSE IF c = "read" THEN "stat" ELSE "preflight",
                op |-> None, target |-> None, nonce |-> None, ino |-> None,
                lock |-> None, todo |-> {}]]
    /\ UNCHANGED <<files, marker, chief, holder>>

-----------------------------------------------------------------------------
(* Bootstrap                                                                *)

Configure(p) ==
    /\ At(p, "configure")
    /\ IF entry["config"] = None /\ Pristine
       THEN /\ StartPublishing(p, "create", "config", Fixed)
            /\ UNCHANGED <<files, marker, chief, holder, left>>
       ELSE EndAsIs(p)

(* ensure_layout: preflight, then the platform marker, which is created and *)
(* filled in place, then preflight again.                                   *)
Layout(p) ==
    /\ At(p, "layout")
    /\ IF Preflight
       THEN /\ Go(p, IF marker = "absent" THEN "mark" ELSE "relayout")
            /\ UNCHANGED <<files, marker, chief, holder, left>>
       ELSE EndAsIs(p)

Mark(p) ==
    /\ At(p, "mark")
    /\ \/ /\ marker = "absent" /\ marker' = "torn" /\ Go(p, "fill marker")
          /\ UNCHANGED <<files, chief, holder, left>>
       \/ marker = "torn" /\ EndAsIs(p)
       \/ /\ marker = "whole" /\ Go(p, "relayout")
          /\ UNCHANGED <<files, marker, chief, holder, left>>

FillMarker(p) ==
    /\ At(p, "fill marker")
    /\ marker' = "whole" /\ Go(p, "relayout")
    /\ UNCHANGED <<files, chief, holder, left>>

Relayout(p) ==
    /\ At(p, "relayout")
    /\ IF Preflight
       THEN /\ Go(p, "lock file")
            /\ UNCHANGED <<files, marker, chief, holder, left>>
       ELSE EndAsIs(p)

(* The state lock is made by whoever finds it missing, under no lock.       *)
LockFile(p) ==
    /\ At(p, "lock file")
    /\ IF entry["lock"] = None THEN StartPublishing(p, "create", "lock", Fixed)
                               ELSE Go(p, "bind")
    /\ UNCHANGED <<files, marker, chief, holder, left>>

(* state_lock(create_layout=False): nothing is made, the lock must be there. *)
CheckLayout(p) ==
    /\ At(p, "preflight")
    /\ IF Preflight /\ marker = "whole" /\ entry["lock"] # None
       THEN Go(p, "bind") /\ UNCHANGED <<files, marker, chief, holder, left>>
       ELSE EndAsIs(p)

(* The lock file is opened and must be private and hold its one NUL.        *)
Bind(p) ==
    /\ At(p, "bind")
    /\ IF Private("lock") /\ bytes[entry["lock"]] = Fixed
       THEN /\ run' = [run EXCEPT ![p].lock = entry["lock"], ![p].at = "wait",
                                  ![p].op = None, ![p].target = None,
                                  ![p].nonce = None, ![p].ino = None]
            /\ UNCHANGED <<files, marker, chief, holder, left>>
       ELSE EndAsIs(p)

(* flock on the opened inode, then the path must still name that inode.     *)
Enter(p) ==
    /\ At(p, "wait") /\ holder[run[p].lock] = None
    /\ IF Private("lock") /\ entry["lock"] = run[p].lock
       THEN /\ holder' = [holder EXCEPT ![run[p].lock] = p]
            /\ Go(p, run[p].cmd)
            /\ UNCHANGED <<files, marker, chief, left>>
       ELSE EndAsIs(p)

-----------------------------------------------------------------------------
(* What each command does under the lock                                    *)

(* A fault, for the checks: init looks for a Chief only before the lock.    *)
InitTreeAnyway(p) ==
    /\ At(p, "init")
    /\ IF entry["policy"] = None THEN StartPublishing(p, "write", "policy", Fixed)
                                 ELSE Go(p, "leave")
    /\ UNCHANGED <<files, marker, chief, holder, left>>

InitTree(p) ==
    /\ At(p, "init")
    /\ IF chief THEN EndAsIs(p)
       ELSE /\ IF entry["policy"] = None
               THEN StartPublishing(p, "write", "policy", Fixed)
               ELSE Go(p, "leave")
            /\ UNCHANGED <<files, marker, chief, holder, left>>

Plan(p) == At(p, "plan") /\ EndAsIs(p)

Document(p) ==
    /\ At(p, "create") \/ At(p, "write")
    /\ IF chief
       THEN /\ StartPublishing(p, run[p].cmd, "record", run[p].val)
            /\ UNCHANGED <<files, marker, chief, holder, left>>
       ELSE EndAsIs(p)

(* An interrupted initialization a first Chief may take over: no document   *)
(* yet, and no temporary but unlinked ones of the state lock.               *)
InterruptedPrefix ==
    /\ ~chief
    /\ entry["policy"] = None /\ entry["record"] = None
    /\ \A n \in Nonces : Live(n) /\ Files(temp[n].target) = "state" =>
           /\ temp[n].target = "lock" /\ temp[n].op = "create"
           /\ Links(temp[n].ino) = 1

(* chief-acquire judges the tree in one locked section and publishes the    *)
(* authority in a second one.                                               *)
JudgeTree(p) ==
    /\ At(p, "acquire")
    /\ IF entry["policy"] # None \/ InterruptedPrefix
       THEN /\ run' = [run EXCEPT ![p].cmd = "grant", ![p].at = "preflight",
                                  ![p].lock = None]
            /\ holder' = [holder EXCEPT ![run[p].lock] = None]
            /\ UNCHANGED <<files, marker, chief, left>>
       ELSE EndAsIs(p)

Grant(p) ==
    /\ At(p, "grant")
    /\ chief' = TRUE /\ End(p)
    /\ UNCHANGED <<files, marker, left>>

Leave(p) == At(p, "leave") /\ EndAsIs(p)

-----------------------------------------------------------------------------
(* Publication                                                              *)

Owns(p) == LET n == run[p].nonce
           IN  n # None /\ Live(n) /\ temp[n].ino = run[p].ino

(* A fault, for the checks: the name is published before the bytes.         *)
OpenTemporaryUnfilled(p) ==
    /\ At(p, "open")
    /\ Nonces \ UsedNonces # {} /\ Inodes \ UsedInodes # {}
    /\ LET n == Least(Nonces \ UsedNonces)
           i == Least(Inodes \ UsedInodes)
       IN  /\ temp' = [temp EXCEPT ![n] = [op |-> run[p].op,
                                           target |-> run[p].target, ino |-> i]]
           /\ bytes' = [bytes EXCEPT ![i] = Empty]
           /\ run' = [run EXCEPT ![p].nonce = n, ![p].ino = i, ![p].at = "name"]
    /\ UNCHANGED <<entry, marker, chief, holder, left>>

OpenTemporary(p) ==
    /\ At(p, "open")
    /\ Nonces \ UsedNonces # {} /\ Inodes \ UsedInodes # {}
    /\ LET n == Least(Nonces \ UsedNonces)
           i == Least(Inodes \ UsedInodes)
       IN  /\ temp' = [temp EXCEPT ![n] = [op |-> run[p].op,
                                           target |-> run[p].target, ino |-> i]]
           /\ bytes' = [bytes EXCEPT ![i] = Empty]
           /\ run' = [run EXCEPT ![p].nonce = n, ![p].ino = i, ![p].at = "fill"]
    /\ UNCHANGED <<entry, marker, chief, holder, left>>

Fill(p) ==
    /\ At(p, "fill")
    /\ bytes' = [bytes EXCEPT ![run[p].ino] = run[p].val]
    /\ Go(p, "name")
    /\ UNCHANGED <<entry, temp, marker, chief, holder, left>>

Unnamed(p) == [temp EXCEPT ![run[p].nonce] = None]

Renamed(p) ==
    /\ entry' = [entry EXCEPT ![run[p].target] = run[p].ino]
    /\ temp' = Unnamed(p)
    /\ Go(p, "sync")

(* Faults, for the checks: a write that links and then unlinks, and a       *)
(* create that renames over whatever is there.                              *)
ReplaceByLink(p) ==
    /\ At(p, "name") /\ run[p].op = "write" /\ Owns(p)
    /\ entry' = [entry EXCEPT ![run[p].target] = run[p].ino]
    /\ Go(p, "unlink")
    /\ UNCHANGED <<temp, bytes, marker, chief, holder, left>>

LinkByRename(p) ==
    /\ At(p, "name") /\ run[p].op = "create" /\ Owns(p)
    /\ Renamed(p)
    /\ UNCHANGED <<bytes, marker, chief, holder, left>>

Replace(p) ==
    /\ At(p, "name") /\ run[p].op = "write" /\ Owns(p)
    /\ Renamed(p)
    /\ UNCHANGED <<bytes, marker, chief, holder, left>>

(* A link is refused when the target exists; the temporary is removed, and  *)
(* whoever wanted a state lock goes on with the one that is there.          *)
Link(p) ==
    /\ At(p, "name") /\ run[p].op = "create" /\ Owns(p)
    /\ IF entry[run[p].target] = None
       THEN /\ entry' = [entry EXCEPT ![run[p].target] = run[p].ino]
            /\ Go(p, "unlink")
            /\ UNCHANGED <<temp, holder>>
       ELSE /\ temp' = Unnamed(p)
            /\ IF run[p].target = "lock" THEN Go(p, "bind") /\ UNCHANGED holder
                                         ELSE End(p)
            /\ UNCHANGED entry
    /\ UNCHANGED <<bytes, marker, chief, left>>

Unlink(p) ==
    /\ At(p, "unlink") /\ Owns(p)
    /\ temp' = Unnamed(p) /\ Go(p, "sync")
    /\ UNCHANGED <<entry, bytes, marker, chief, holder, left>>

(* The temporary is gone: the call fails, and with it the command.          *)
Robbed(p) ==
    /\ At(p, "name") \/ At(p, "unlink")
    /\ ~Owns(p) /\ EndAsIs(p)

Sync(p) ==
    /\ At(p, "sync")
    /\ Go(p, AfterPublishing(run[p].target))
    /\ UNCHANGED <<files, marker, chief, holder, left>>

(* A failing system call ends the command; its cleanup removes what it made *)
(* unless that fails too.                                                   *)
Fault(p) ==
    /\ \E s \in {"fill marker", "fill", "name", "unlink", "sync"} : At(p, s)
    /\ left.faults > 0 /\ left' = [left EXCEPT !.faults = @ - 1]
    /\ \E cleaned \in BOOLEAN :
        /\ temp' = IF cleaned /\ Owns(p) THEN Unnamed(p) ELSE temp
        /\ marker' = IF cleaned /\ At(p, "fill marker") THEN "absent" ELSE marker
    /\ End(p)
    /\ UNCHANGED <<entry, bytes, chief>>

Kill(p) ==
    /\ run[p] # None
    /\ left.kills > 0 /\ left' = [left EXCEPT !.kills = @ - 1]
    /\ End(p)
    /\ UNCHANGED <<files, marker, chief>>

-----------------------------------------------------------------------------
(* recover-temporaries                                                      *)

Residue == {n \in Nonces : Live(n) /\ Files(temp[n].target) = "state"}

Alias(n) ==
    /\ temp[n].op = "create" /\ Links(temp[n].ino) = 2
    /\ entry[temp[n].target] = temp[n].ino

Recoverable(n) == Links(temp[n].ino) = 1 \/ Alias(n)

Snapshot(n) == [nonce |-> n, ino |-> temp[n].ino, links |-> Links(temp[n].ino)]

(* One ambiguous temporary and nothing is removed; the Chief is asked for   *)
(* only when there is something to remove.                                  *)
Scan(p) ==
    /\ At(p, "recover")
    /\ IF Residue # {} /\ chief /\ \A n \in Residue : Recoverable(n)
       THEN /\ run' = [run EXCEPT ![p].at = "remove",
                                  ![p].todo = {Snapshot(n) : n \in Residue}]
            /\ UNCHANGED <<files, marker, chief, holder, left>>
       ELSE EndAsIs(p)

Unchanged(x) ==
    Live(x.nonce) /\ Snapshot(x.nonce) = x /\ Recoverable(x.nonce)

Remove(p) ==
    /\ At(p, "remove")
    /\ \E x \in run[p].todo :
        IF Unchanged(x)
        THEN /\ temp' = [temp EXCEPT ![x.nonce] = None]
             /\ run' = [run EXCEPT ![p].todo = @ \ {x}]
             /\ UNCHANGED <<entry, bytes, marker, chief, holder, left>>
        ELSE EndAsIs(p)

Removed(p) == At(p, "remove") /\ run[p].todo = {} /\ EndAsIs(p)

-----------------------------------------------------------------------------
(* load_json, which takes no lock                                           *)

Stat(p) ==
    /\ At(p, "stat")
    /\ IF Private("record")
       THEN /\ run' = [run EXCEPT ![p].ino = entry["record"], ![p].at = "open file"]
            /\ UNCHANGED <<files, marker, chief, holder, left>>
       ELSE EndAsIs(p)

OpenFile(p) ==
    /\ At(p, "open file")
    /\ IF Private("record") /\ entry["record"] = run[p].ino
       THEN /\ Go(p, "return")
            /\ UNCHANGED <<files, marker, chief, holder, left>>
       ELSE EndAsIs(p)

Return(p) == At(p, "return") /\ EndAsIs(p)

-----------------------------------------------------------------------------
(* The specification                                                        *)

Bootstrap(p) ==
    \/ Configure(p) \/ Layout(p) \/ Mark(p) \/ FillMarker(p) \/ Relayout(p)
    \/ LockFile(p) \/ CheckLayout(p) \/ Bind(p) \/ Enter(p)

Body(p) ==
    \/ InitTree(p) \/ Plan(p) \/ Document(p) \/ JudgeTree(p) \/ Grant(p)
    \/ Scan(p) \/ Remove(p) \/ Removed(p) \/ Leave(p)

Publication(p) ==
    \/ OpenTemporary(p) \/ Fill(p) \/ Replace(p) \/ Link(p) \/ Unlink(p)
    \/ Robbed(p) \/ Sync(p)

Reading(p) == Stat(p) \/ OpenFile(p) \/ Return(p)

Step(p) == Bootstrap(p) \/ Body(p) \/ Publication(p) \/ Reading(p)

Next == \E p \in Procs : Start(p) \/ Step(p) \/ Fault(p) \/ Kill(p)

Spec == Init /\ [][Next]_vars

(* The operating system runs every process that can take a step.            *)
FairSpec == Spec /\ \A p \in Procs : WF_vars(Step(p))

-----------------------------------------------------------------------------
(* Properties                                                               *)

(* The state lock excludes: although processes that find no lock file race  *)
(* to make one under no lock, and link, unlink and flock are separate       *)
(* calls, no two processes are ever past state_lock at once.                *)
OneHolder ==
    \A i, j \in Inodes :
        holder[i] # None /\ holder[j] # None => i = j

(* An init that was dispatched without credentials never writes into a tree *)
(* that has a Chief, however a chief-acquire and the making of the lock     *)
(* fall between its steps.                                                  *)
InitYieldsToChief == [][entry'["policy"] # entry["policy"] => ~chief]_vars

(* The platform marker, which says how the tree is locked, comes first: as  *)
(* long as it is missing or torn there is no state lock, no policy, no      *)
(* document and no Chief, so the process killed between creating and        *)
(* filling it leaves a tree that every later command refuses, and none that *)
(* is used under an unknown lock domain.                                    *)
MarkerFirst ==
    marker # "whole" =>
        /\ ~chief
        /\ \A t \in Targets \ {"config"} : entry[t] = None
        /\ \A i \in Inodes : holder[i] = None

(* A writer under the lock finds its temporary where it left it: recovery   *)
(* never takes it for residue.                                              *)
WriterKeepsTemporary ==
    \A p \in Procs :
        /\ At(p, "fill") \/ At(p, "name") \/ At(p, "unlink")
        /\ \E i \in Inodes : holder[i] = p
        => Owns(p)

(* What kills and failed calls leave behind is never ambiguous: at every    *)
(* moment every temporary of the state tree is one that recover-temporaries *)
(* would remove, and a document with two names, which every reader and      *)
(* every preflight refuses, has such a temporary for the second one.        *)
ResidueRecoverable ==
    /\ \A n \in Residue : Recoverable(n)
    /\ \A t \in Targets \ {"config"} :
           entry[t] # None /\ ~Private(t)
               => \E n \in Residue : Alias(n) /\ temp[n].target = t

(* Every command ends: no error path, refusal, kill or failed call leaves   *)
(* the processes that wait for the lock waiting.                            *)
CommandsEnd == \A p \in Procs : run[p] # None ~> run[p] = None

(* Readers that take no lock see one complete publication of the record.    *)
File == INSTANCE PublishedFile WITH
            Readers <- Procs, Absent <- None,
            value <- IF entry["record"] = None THEN None ELSE bytes[entry["record"]],
            seen <- [p \in Procs |-> IF At(p, "return") THEN bytes[run[p].ino] ELSE None]

ImplementsFile == File!Spec

(* docs/POLICY.md says of the scans that a live cooperative writer finishes *)
(* or releases the lock before scanning proceeds: nothing a running process *)
(* still uses would be taken for residue.                                   *)
LiveWritersFinishFirst ==
    \A p, q \in Procs :
        At(p, "remove") /\ run[q] # None
            => \A x \in run[p].todo : x.nonce # run[q].nonce
=============================================================================
