---------------------- MODULE AtomicPublicationProofs ----------------------
(***************************************************************************)
(* Proofs about publication: for every set of processes, payloads and       *)
(* bounds the state lock excludes although it is made under no lock, the    *)
(* platform marker comes before everything it describes, an init without    *)
(* credentials yields to a Chief, recovery leaves a live writer its         *)
(* temporary and can tell every other one, and readers without the lock see *)
(* whole publications.                                                      *)
(***************************************************************************)
EXTENDS MCAtomicPublication, FiniteSetTheorems, WellFoundedInduction, TLAPS

Publishing == {"open", "fill", "name", "unlink", "sync"}

(* The steps between flock and its release.                                 *)
Locked == {"init", "plan", "acquire", "create", "write", "recover", "grant",
           "remove", "leave"}

(* The steps of the commands that make what is missing.                     *)
Makers == {"configure", "layout", "mark", "fill marker", "relayout", "lock file"}

Makes(p, T) == run[p] # None /\ run[p].at \in Publishing /\ run[p].target \in T

InSection(p) ==
    \/ run[p] # None /\ run[p].at \in Locked
    \/ Makes(p, {"policy", "record"})

PastMarker(p) ==
    \/ run[p] # None /\ run[p].at \in {"relayout", "lock file", "bind", "wait"}
    \/ InSection(p)
    \/ Makes(p, {"lock"})

-----------------------------------------------------------------------------
(* The invariant *)

(* What a command carries fits the step it is at.                           *)
Carries(p) ==
    run[p] # None =>
        /\ run[p] \in Runs
        /\ run[p].at \in Publishing =>
              /\ run[p].op \in {"create", "write"} /\ run[p].target \in Targets
              /\ run[p].val \in Values \cup {Fixed}
              /\ run[p].op = "write" => run[p].target \in {"policy", "record"}
              /\ run[p].target = "record" => run[p].val \in Values
        /\ run[p].cmd \in {"create", "write"} => run[p].val \in Values
        /\ run[p].at \in AllCommands \cup {"grant"} => run[p].at = run[p].cmd
        /\ run[p].at \in Makers \/ Makes(p, {"config", "lock"}) => run[p].cmd \in {"init", "plan"}
        /\ run[p].at \notin {"stat", "open file", "return"} => run[p].cmd # "read"

(* Who is past state_lock holds flock, and knows what was found before.     *)
Placed(p) ==
    /\ InSection(p) => run[p].lock \in Inodes /\ holder[run[p].lock] = p
    /\ PastMarker(p) => marker = "whole"
    /\ Makes(p, {"policy"}) => ~chief
    /\ At(p, "fill marker") => marker = "torn"

(* A writer under the lock has its temporary.                               *)
Keeps(p) ==
    InSection(p) /\ run[p].at \in {"fill", "name", "unlink"} => Owns(p)

(* A file is whole before it has a name, and nobody else has it until then. *)
Whole(p) ==
    /\ At(p, "fill") =>
          /\ run[p].ino \in Inodes
          /\ \A t \in Targets : entry[t] # run[p].ino
          /\ \A q \in Procs \ {p} : run[q] # None => run[q].ino # run[p].ino
    /\ At(p, "name") => run[p].ino \in Inodes /\ bytes[run[p].ino] = run[p].val
    /\ At(p, "return") => run[p].ino \in Inodes /\ bytes[run[p].ino] \in Values

Distinct(p, q) ==
    run[p] # None /\ run[q] # None =>
        /\ run[p].nonce = run[q].nonce => run[p].nonce = None
        /\ ~(run[p].at = "fill marker" /\ run[q].at = "fill marker")

FileTypes ==
    /\ entry \in [Targets -> Inodes \cup {None}]
    /\ temp \in [Nonces -> Temporaries \cup {None}]
    /\ bytes \in [Inodes -> Values \cup {Fixed, Empty}]
    /\ marker \in {"absent", "torn", "whole"}
    /\ chief \in BOOLEAN
    /\ holder \in [Inodes -> Procs \cup {None}]
    /\ run = [p \in Procs |-> run[p]]
    /\ left \in [runs : Nat, kills : Nat, faults : Nat]

(* There is one lock file for ever, and only its inode is held.             *)
OneLock ==
    \A i \in Inodes : holder[i] # None => entry["lock"] = i /\ InSection(holder[i])

RecordWhole == entry["record"] # None => bytes[entry["record"]] \in Values

PublicationInv ==
    /\ FileTypes /\ OneLock /\ RecordWhole /\ MarkerFirst
    /\ \A p \in Procs : Carries(p) /\ Placed(p) /\ Keeps(p) /\ Whole(p)
    /\ \A p \in Procs : \A q \in Procs \ {p} : Distinct(p, q)

-----------------------------------------------------------------------------
(* Numbers of inodes and nonces *)

LEMMA LeastIn ==
    ASSUME NEW S \in SUBSET Nat, S # {}
    PROVE  Least(S) \in S
<1>1. PICK m \in S : \A k \in S : <<k, m>> \notin OpToRel(<, Nat)
  BY WFMin, NatLessThanWellFounded, Zenon
<1>2. \A k \in S : ~(k < m)
  BY <1>1, Zenon DEF OpToRel
<1>3. \A k \in S : m <= k
  BY <1>2
<1> QED BY <1>3 DEF Least

(* An inode with a name is in use.                                          *)
LEMMA LinksCount ==
    ASSUME FileTypes, NEW i \in Inodes
    PROVE  /\ Links(i) \in Nat
           /\ \A t \in Targets : entry[t] = i => Links(i) > 0
           /\ \A n \in Nonces : Live(n) /\ temp[n].ino = i => Links(i) > 0
<1> DEFINE N == {t \in Targets : entry[t] = i}
           T == {n \in Nonces : Live(n) /\ temp[n].ino = i}
<1>1. IsFiniteSet(Targets)
  <2>1. IsFiniteSet({} \cup {"config"})
    BY FS_EmptySet, FS_AddElement
  <2>2. IsFiniteSet(({} \cup {"config"}) \cup {"lock"})
    BY <2>1, FS_AddElement
  <2>3. IsFiniteSet((({} \cup {"config"}) \cup {"lock"}) \cup {"policy"})
    BY <2>2, FS_AddElement
  <2>4. IsFiniteSet(((({} \cup {"config"}) \cup {"lock"}) \cup {"policy"}) \cup {"record"})
    BY <2>3, FS_AddElement
  <2>5. Targets = ((({} \cup {"config"}) \cup {"lock"}) \cup {"policy"}) \cup {"record"}
    BY DEF Targets
  <2> QED BY <2>4, <2>5
<1>2. IsFiniteSet(N) /\ IsFiniteSet(T)
  BY <1>1, FS_Subset, PublicationAssumption, N \subseteq Targets, T \subseteq Nonces
<1>3. Cardinality(N) \in Nat /\ Cardinality(T) \in Nat
  BY <1>2, FS_CardinalityType
<1>4. (N # {} => Cardinality(N) # 0) /\ (T # {} => Cardinality(T) # 0)
  BY <1>2, FS_EmptySet
<1> HIDE DEF N, T
<1>5. /\ Cardinality(N) + Cardinality(T) \in Nat
      /\ N # {} \/ T # {} => Cardinality(N) + Cardinality(T) > 0
  BY <1>3, <1>4
<1> QED BY <1>5 DEF N, T, Links

LEMMA Unused ==
    ASSUME FileTypes, Inodes \ UsedInodes # {}, Nonces \ UsedNonces # {}
    PROVE  LET i == Least(Inodes \ UsedInodes)  n == Least(Nonces \ UsedNonces) IN
           /\ i \in Inodes /\ n \in Nonces
           /\ \A t \in Targets : entry[t] # i
           /\ \A m \in Nonces : Live(m) => temp[m].ino # i
           /\ \A q \in Procs : run[q] # None => run[q].ino # i /\ run[q].nonce # n
<1>1. Least(Inodes \ UsedInodes) \in Inodes \ UsedInodes
  BY LeastIn, PublicationAssumption
<1>2. Least(Nonces \ UsedNonces) \in Nonces \ UsedNonces
  BY LeastIn, PublicationAssumption
<1> QED BY <1>1, <1>2, LinksCount DEF UsedInodes, UsedNonces

-----------------------------------------------------------------------------
(* One process moves, the others stay *)

Others(p) ==
    /\ run' = [q \in Procs |-> run'[q]]
    /\ \A q \in Procs \ {p} : run'[q] = run[q]

(* A move that leaves every file alone.                                     *)
LEMMA RunFrame ==
    ASSUME PublicationInv, NEW p \in Procs, Others(p),
           UNCHANGED <<entry, temp, bytes, marker, chief, holder>>,
           left' \in [runs : Nat, kills : Nat, faults : Nat],
           Carries(p)', Placed(p)', Keeps(p)', Whole(p)',
           \A i \in Inodes : holder[i] = p => InSection(p)',
           run'[p] # None =>
               /\ run'[p].nonce = None \/ (run[p] # None /\ run'[p].nonce = run[p].nonce)
               /\ run'[p].at # "fill marker"
               /\ \/ run'[p].ino = None
                  \/ run[p] # None /\ run'[p].ino = run[p].ino
                  \/ \E t \in Targets : entry[t] = run'[p].ino
    PROVE  PublicationInv'
<1>1. FileTypes'
  BY DEF PublicationInv, FileTypes, Others
<1>2. OneLock'
  <2>1. \A q \in Procs \ {p} : InSection(q)' = InSection(q)
    BY DEF Others, InSection, Makes
  <2> QED BY <2>1 DEF PublicationInv, OneLock, FileTypes
<1>3. RecordWhole' /\ MarkerFirst'
  BY DEF PublicationInv, RecordWhole, MarkerFirst
<1>4. ASSUME NEW q \in Procs \ {p}
      PROVE  Carries(q)' /\ Placed(q)' /\ Keeps(q)' /\ Whole(q)'
  <2>1. run'[q] = run[q] /\ Carries(q) /\ Placed(q) /\ Keeps(q) /\ Whole(q)
    BY DEF PublicationInv, Others
  <2>2. Carries(q)'
    BY <2>1 DEF Carries, Makes
  <2>3. Placed(q)'
    BY <2>1 DEF Placed, InSection, PastMarker, Makes, At
  <2>4. Keeps(q)'
    BY <2>1 DEF Keeps, InSection, Makes, Owns, Live
  <2>5. Whole(q)'
    <3>1. ASSUME At(q, "fill"), NEW r \in Procs \ {q}, run'[r] # None
          PROVE  run'[r].ino # run[q].ino
      <4>1. /\ run[q].ino \in Inodes /\ None \notin Inodes
            /\ \A t \in Targets : entry[t] # run[q].ino
            /\ run[r] # None => run[r].ino # run[q].ino
        BY <2>1, <3>1, PublicationAssumption DEF Whole
      <4>2. CASE r = p
        BY <3>1, <4>1, <4>2
      <4>3. CASE r # p
        BY <3>1, <4>1, <4>3 DEF Others
      <4> QED BY <4>2, <4>3
    <3> QED BY <2>1, <3>1 DEF Whole, At
  <2> QED BY <2>2, <2>3, <2>4, <2>5
<1>5. ASSUME NEW q \in Procs, NEW r \in Procs \ {q}
      PROVE  Distinct(q, r)'
  <2>1. Distinct(q, r) /\ Distinct(r, q)
    BY DEF PublicationInv
  <2> QED BY <2>1 DEF Distinct, Others
<1> QED BY <1>1, <1>2, <1>3, <1>4, <1>5 DEF PublicationInv

LEMMA GoMoves ==
    ASSUME FileTypes, NEW p \in Procs, Carries(p), run[p] # None, NEW s \in Steps, Go(p, s)
    PROVE  /\ Others(p) /\ run'[p] \in Runs /\ run'[p] # None /\ run'[p].at = s
           /\ run'[p].cmd = run[p].cmd /\ run'[p].op = run[p].op
           /\ run'[p].target = run[p].target /\ run'[p].val = run[p].val
           /\ run'[p].nonce = run[p].nonce /\ run'[p].ino = run[p].ino
           /\ run'[p].lock = run[p].lock /\ run'[p].todo = run[p].todo
<1>1. run[p] \in Runs
  BY DEF Carries
<1>2. run'[p] = [run[p] EXCEPT !.at = s] /\ Others(p)
  BY DEF Go, FileTypes, Others
<1>3. run'[p] \in Runs
  BY <1>1, <1>2 DEF Runs
<1> QED BY <1>1, <1>2, <1>3, NullAssumption DEF Runs

(* A step of a command that is neither publishing nor reading.              *)
LEMMA GoFrame ==
    ASSUME PublicationInv, NEW p \in Procs, run[p] # None,
           NEW s \in {"layout", "mark", "relayout", "lock file", "bind", "leave"}, Go(p, s),
           UNCHANGED <<entry, temp, bytes, marker, chief, holder, left>>,
           s \in {"relayout", "lock file", "bind", "leave"} => marker = "whole",
           s = "leave" <=> InSection(p),
           s \in Makers => run[p].cmd \in {"init", "plan"},
           run[p].at \notin {"stat", "open file", "return"}
    PROVE  PublicationInv'
<1>0. s \in Steps
  BY DEF Steps
<1>1. FileTypes /\ OneLock /\ Carries(p) /\ Placed(p)
  BY DEF PublicationInv
<1>2. /\ Others(p) /\ run'[p] \in Runs /\ run'[p] # None /\ run'[p].at = s
      /\ run'[p].cmd = run[p].cmd /\ run'[p].val = run[p].val
      /\ run'[p].nonce = run[p].nonce /\ run'[p].ino = run[p].ino
      /\ run'[p].lock = run[p].lock
  BY <1>0, <1>1, GoMoves
<1>3. Carries(p)'
  BY <1>1, <1>2 DEF Carries, Publishing, Makes, Makers, AllCommands
<1>4. (InSection(p)' <=> s = "leave") /\ ~Makes(p, {"policy"})' /\ ~Makes(p, {"lock"})'
  BY <1>2 DEF InSection, Makes, Publishing, Locked
<1>5. Placed(p)'
  BY <1>1, <1>2, <1>4 DEF Placed, PastMarker, At
<1>6. Keeps(p)' /\ Whole(p)'
  BY <1>2 DEF Keeps, Whole, At
<1>7. \A i \in Inodes : holder[i] = p => InSection(p)'
  BY <1>1, <1>4, PublicationAssumption DEF OneLock
<1>8. left' \in [runs : Nat, kills : Nat, faults : Nat]
  BY <1>1 DEF FileTypes
<1> QED BY <1>2, <1>3, <1>5, <1>6, <1>7, <1>8, RunFrame

(* A command starts to publish: what it is about to write fits.             *)
LEMMA StartFrame ==
    ASSUME PublicationInv, NEW p \in Procs, run[p] # None,
           NEW op \in {"create", "write"}, NEW t \in Targets, NEW v \in Values \cup {Fixed},
           StartPublishing(p, op, t, v),
           UNCHANGED <<entry, temp, bytes, marker, chief, holder, left>>,
           op = "write" => t \in {"policy", "record"},
           t = "record" => v \in Values,
           run[p].cmd \in {"create", "write"} => v \in Values,
           t \in {"config", "lock"} => run[p].cmd \in {"init", "plan"},
           t \in {"policy", "record"} <=> InSection(p),
           t # "config" => marker = "whole",
           t = "policy" => ~chief,
           run[p].at \notin {"stat", "open file", "return"}
    PROVE  PublicationInv'
<1>1. FileTypes /\ OneLock /\ Carries(p) /\ Placed(p) /\ run[p] \in Runs
  BY DEF PublicationInv, Carries
<1>2. /\ run'[p] = [run[p] EXCEPT !.at = "open", !.op = op, !.target = t, !.val = v]
      /\ Others(p)
  BY <1>1 DEF StartPublishing, FileTypes, Others
<1>11. op \in {None, "create", "write"} /\ t \in Targets \cup {None} /\ "open" \in Steps
       /\ v \in Values \cup {Fixed, None}
  BY DEF Steps
<1>12. run'[p] \in Runs
  BY ZenonT(40), <1>1, <1>2, <1>11 DEF Runs
<1>3. /\ run'[p] \in Runs
      /\ run'[p].at = "open" /\ run'[p].op = op /\ run'[p].target = t /\ run'[p].val = v
      /\ run'[p].cmd = run[p].cmd
      /\ run'[p].nonce = run[p].nonce /\ run'[p].ino = run[p].ino
      /\ run'[p].lock = run[p].lock
  BY <1>1, <1>2, <1>12 DEF Runs
<1>4. run'[p] # None
  BY <1>3, NullAssumption
<1>5. Carries(p)'
  BY <1>1, <1>3, <1>4 DEF Carries, Publishing, Makes, Makers, AllCommands
<1>6. /\ InSection(p)' <=> t \in {"policy", "record"}
      /\ Makes(p, {"policy"})' <=> t = "policy"
      /\ Makes(p, {"lock"})' <=> t = "lock"
  BY <1>3, <1>4 DEF InSection, Makes, Publishing, Locked
<1>7. Placed(p)'
  <2>1. PastMarker(p)' => marker' = "whole"
    BY <1>3, <1>6 DEF PastMarker
  <2> QED BY <1>1, <1>3, <1>6, <2>1 DEF Placed, At
<1>8. Keeps(p)' /\ Whole(p)'
  BY <1>3 DEF Keeps, Whole, At
<1>9. \A i \in Inodes : holder[i] = p => InSection(p)'
  BY <1>1, <1>6, PublicationAssumption DEF OneLock
<1>10. left' \in [runs : Nat, kills : Nat, faults : Nat]
  BY <1>1 DEF FileTypes
<1> QED BY <1>2, <1>3, <1>4, <1>5, <1>7, <1>8, <1>9, <1>10, RunFrame

-----------------------------------------------------------------------------
(* The end of a command *)

LEMMA SoleHolder ==
    ASSUME PublicationInv, NEW p \in Procs, NEW q \in Procs, InSection(p), InSection(q)
    PROVE  p = q
<1>1. /\ run[p].lock \in Inodes /\ holder[run[p].lock] = p
      /\ run[q].lock \in Inodes /\ holder[run[q].lock] = q
  BY DEF PublicationInv, Placed
<1>2. entry["lock"] = run[p].lock /\ entry["lock"] = run[q].lock
  BY <1>1, PublicationAssumption DEF PublicationInv, OneLock
<1> QED BY <1>1, <1>2

(* Whether it returns, is refused, fails or is killed: flock is gone, the   *)
(* temporary may be removed, and so may the marker it was filling.          *)
LEMMA EndFrame ==
    ASSUME PublicationInv, NEW p \in Procs, run[p] # None, End(p),
           UNCHANGED <<entry, bytes>>,
           left' \in [runs : Nat, kills : Nat, faults : Nat],
           temp' = temp \/ (Owns(p) /\ temp' = Unnamed(p)),
           marker' = marker \/ (At(p, "fill marker") /\ marker' = "absent"),
           chief' = chief \/ (chief' = TRUE /\ At(p, "grant"))
    PROVE  PublicationInv'
<1>1. /\ FileTypes /\ OneLock /\ RecordWhole /\ MarkerFirst
      /\ Carries(p) /\ Placed(p) /\ None \notin Procs
  BY PublicationAssumption DEF PublicationInv
<1>2. run'[p] = None /\ Others(p)
  BY <1>1 DEF End, FileTypes, Others
<1>3. \A i \in Inodes : holder'[i] = IF holder[i] = p THEN None ELSE holder[i]
  BY DEF End
<1>4. At(p, "grant") => InSection(p) /\ PastMarker(p) /\ marker = "whole" /\ marker' = marker
  BY <1>1 DEF At, InSection, Locked, PastMarker, Placed
<1>5. At(p, "fill marker") => marker = "torn"
  BY <1>1 DEF Placed
<1>6. FileTypes'
  <2>1. holder' \in [Inodes -> Procs \cup {None}]
    BY <1>1, <1>3 DEF End, FileTypes
  <2>2. temp' \in [Nonces -> Temporaries \cup {None}]
    BY <1>1 DEF FileTypes, Unnamed
  <2> QED BY <1>1, <1>2, <2>1, <2>2 DEF FileTypes, Others
<1>7. \A q \in Procs \ {p} : InSection(q)' <=> InSection(q)
  BY <1>2 DEF Others, InSection, Makes
<1>8. OneLock'
  BY <1>1, <1>3, <1>7 DEF OneLock, FileTypes
<1>9. RecordWhole'
  BY <1>1 DEF RecordWhole
<1>10. MarkerFirst'
  BY <1>1, <1>3, <1>4, <1>5 DEF MarkerFirst
<1>11. Carries(p)' /\ Placed(p)' /\ Keeps(p)' /\ Whole(p)'
  BY <1>2 DEF Carries, Placed, Keeps, Whole, InSection, PastMarker, Makes, At
<1>12. ASSUME NEW q \in Procs \ {p}
       PROVE  Carries(q)' /\ Placed(q)' /\ Keeps(q)' /\ Whole(q)'
  <2>1. /\ run'[q] = run[q] /\ Carries(q) /\ Placed(q) /\ Keeps(q) /\ Whole(q)
        /\ Distinct(q, p)
    BY <1>2 DEF PublicationInv, Others
  <2>2. Carries(q)'
    BY <2>1 DEF Carries, Makes
  <2>3. InSection(q) => run[q].lock \in Inodes /\ holder'[run[q].lock] = q
    BY <1>3, <2>1 DEF Placed
  <2>4. PastMarker(q) => marker' = "whole"
    BY <1>5, <2>1 DEF Placed
  <2>5. Makes(q, {"policy"}) => ~chief'
    <3>1. Makes(q, {"policy"}) => InSection(q)
      BY DEF InSection, Makes
    <3> QED BY <1>4, <2>1, <3>1, SoleHolder DEF Placed
  <2>6. At(q, "fill marker") => marker' = "torn"
    BY <2>1 DEF Placed, Distinct, At
  <2>7. Placed(q)'
    BY <2>1, <2>3, <2>4, <2>5, <2>6 DEF Placed, InSection, PastMarker, Makes, At
  <2>8. Keeps(q)'
    <3>1. ASSUME Owns(q), run[q] # None
          PROVE  Owns(q)'
      <4>1. run[q].nonce \in Nonces
        BY <2>1, <3>1 DEF Carries, Runs, Owns
      <4>2. Owns(p) => run[p].nonce # run[q].nonce
        BY <2>1, <3>1 DEF Distinct, Owns
      <4>3. temp'[run[q].nonce] = temp[run[q].nonce]
        BY <1>1, <4>1, <4>2 DEF FileTypes, Unnamed
      <4> QED BY <2>1, <3>1, <4>3 DEF Owns, Live
    <3> QED BY <2>1, <3>1 DEF Keeps, InSection, Makes
  <2>9. Whole(q)'
    BY <1>2, <2>1 DEF Whole, At, Others
  <2> QED BY <2>2, <2>7, <2>8, <2>9
<1>13. ASSUME NEW q \in Procs, NEW r \in Procs \ {q}
       PROVE  Distinct(q, r)'
  <2>1. Distinct(q, r)
    BY DEF PublicationInv
  <2> QED BY <1>2, <2>1 DEF Distinct, Others
<1> QED BY <1>6, <1>8, <1>9, <1>10, <1>11, <1>12, <1>13 DEF PublicationInv

LEMMA EndAsIsInv ==
    ASSUME PublicationInv, NEW p \in Procs, run[p] # None, EndAsIs(p)
    PROVE  PublicationInv'
<1>1. left' \in [runs : Nat, kills : Nat, faults : Nat]
  BY DEF PublicationInv, FileTypes, EndAsIs
<1> QED BY <1>1, EndFrame DEF EndAsIs, files

LEMMA GrantInv ==
    ASSUME PublicationInv, NEW p \in Procs, Grant(p)
    PROVE  PublicationInv'
<1>1. left' \in [runs : Nat, kills : Nat, faults : Nat] /\ run[p] # None
  BY DEF PublicationInv, FileTypes, Grant, At
<1> QED BY <1>1, EndFrame DEF Grant, files

LEMMA KillInv ==
    ASSUME PublicationInv, NEW p \in Procs, Kill(p)
    PROVE  PublicationInv'
<1>1. left' \in [runs : Nat, kills : Nat, faults : Nat] /\ run[p] # None
  BY DEF PublicationInv, FileTypes, Kill
<1> QED BY <1>1, EndFrame DEF Kill, files

LEMMA FaultInv ==
    ASSUME PublicationInv, NEW p \in Procs, Fault(p)
    PROVE  PublicationInv'
<1>1. left' \in [runs : Nat, kills : Nat, faults : Nat]
  <2>1. /\ left \in [runs : Nat, kills : Nat, faults : Nat]
        /\ left.faults > 0 /\ left' = [left EXCEPT !.faults = @ - 1]
    BY DEF PublicationInv, FileTypes, Fault
  <2> QED BY <2>1
<1>3. run[p] # None
  BY DEF Fault, At
<1>2. /\ temp' = temp \/ (Owns(p) /\ temp' = Unnamed(p))
      /\ marker' = marker \/ (At(p, "fill marker") /\ marker' = "absent")
  BY DEF Fault
<1> QED BY <1>1, <1>2, <1>3, EndFrame DEF Fault

-----------------------------------------------------------------------------
(* The start of a command and the bootstrap *)

LEMMA InitInv == Init => PublicationInv
<1> SUFFICES ASSUME Init PROVE PublicationInv
  OBVIOUS
<1>1. /\ \A p \in Procs : run[p] = None
      /\ \A i \in Inodes : holder[i] = None
      /\ entry["record"] = None
  BY DEF Init, Targets
<1>2. FileTypes
  <2>1. CASE Fresh
    BY <2>1, PublicationAssumption DEF Init, FileTypes, Targets
  <2>2. CASE ~Fresh
    <3>1. 1 \in Inodes /\ 2 \in Inodes /\ 3 \in Inodes
      BY <2>2, PublicationAssumption
    <3>2. entry \in [Targets -> Inodes \cup {None}]
      BY <2>2, <3>1 DEF Init, Targets
    <3> QED BY <2>2, <3>2, PublicationAssumption DEF Init, FileTypes
  <2> QED BY <2>1, <2>2
<1>3. MarkerFirst
  BY <1>1 DEF Init, MarkerFirst, Targets
<1>4. OneLock /\ RecordWhole
  BY <1>1 DEF OneLock, RecordWhole
<1>5. \A p \in Procs : Carries(p) /\ Placed(p) /\ Keeps(p) /\ Whole(p)
  BY <1>1 DEF Carries, Placed, Keeps, Whole, InSection, PastMarker, Makes, At
<1>6. \A p \in Procs : \A q \in Procs \ {p} : Distinct(p, q)
  BY <1>1 DEF Distinct
<1> QED BY <1>2, <1>3, <1>4, <1>5, <1>6 DEF PublicationInv

LEMMA StartMoves ==
    ASSUME FileTypes, NEW p \in Procs, Start(p)
    PROVE  /\ Others(p)
           /\ run'[p].at \in {"configure", "layout", "stat", "preflight"}
           /\ run'[p].cmd = "read" => run'[p].at = "stat"
           /\ run'[p].at \in {"configure", "layout"} => run'[p].cmd \in {"init", "plan"}
           /\ run'[p].cmd \in {"create", "write"} => run'[p].val \in Values
           /\ run'[p].nonce = None /\ run'[p].ino = None /\ run'[p] \in Runs
<1>2. PICK c \in Commands, v \in Values : run' = [run EXCEPT ![p] =
               [cmd |-> c, val |-> IF c \in {"create", "write"} THEN v ELSE None,
                at |-> IF c = "init" THEN "configure" ELSE IF c = "plan" THEN "layout"
                       ELSE IF c = "read" THEN "stat" ELSE "preflight",
                op |-> None, target |-> None, nonce |-> None, ino |-> None,
                lock |-> None, todo |-> {}]]
  BY DEF Start
<1>3. c \in AllCommands
  BY PublicationAssumption
<1>4. /\ Others(p)
      /\ run'[p] = [cmd |-> c, val |-> IF c \in {"create", "write"} THEN v ELSE None,
                    at |-> IF c = "init" THEN "configure" ELSE IF c = "plan" THEN "layout"
                           ELSE IF c = "read" THEN "stat" ELSE "preflight",
                    op |-> None, target |-> None, nonce |-> None, ino |-> None,
                    lock |-> None, todo |-> {}]
  BY <1>2 DEF FileTypes, Others
<1>5. /\ run'[p].at \in {"configure", "layout", "stat", "preflight"}
      /\ run'[p].cmd = "read" => run'[p].at = "stat"
      /\ run'[p].at \in {"configure", "layout"} => run'[p].cmd \in {"init", "plan"}
      /\ run'[p].cmd \in {"create", "write"} => run'[p].val \in Values
      /\ run'[p].nonce = None /\ run'[p].ino = None
  BY <1>4
<1>6. run'[p] \in Runs
  BY <1>3, <1>4 DEF Runs, Steps
<1> QED BY <1>4, <1>5, <1>6

LEMMA StartInv ==
    ASSUME PublicationInv, NEW p \in Procs, Start(p)
    PROVE  PublicationInv'
<1>1. FileTypes /\ OneLock /\ run[p] = None /\ None \notin Procs
  BY PublicationAssumption DEF PublicationInv, Start
<1>5. /\ Others(p)
      /\ run'[p].at \in {"configure", "layout", "stat", "preflight"}
      /\ run'[p].cmd = "read" => run'[p].at = "stat"
      /\ run'[p].at \in {"configure", "layout"} => run'[p].cmd \in {"init", "plan"}
      /\ run'[p].cmd \in {"create", "write"} => run'[p].val \in Values
      /\ run'[p].nonce = None /\ run'[p].ino = None /\ run'[p] \in Runs
  BY <1>1, StartMoves
<1>7. Carries(p)'
  BY <1>5 DEF Carries, Publishing, Makes, Makers, AllCommands
<1>8. /\ ~InSection(p)' /\ ~PastMarker(p)' /\ ~Makes(p, {"policy"})'
      /\ ~At(p, "fill marker")' /\ ~At(p, "fill")' /\ ~At(p, "name")' /\ ~At(p, "return")'
  BY <1>5 DEF InSection, PastMarker, Makes, At, Publishing, Locked
<1>9. Placed(p)' /\ Keeps(p)' /\ Whole(p)'
  BY <1>8 DEF Placed, Keeps, Whole
<1>10. \A i \in Inodes : holder[i] # p
  BY <1>1 DEF OneLock, InSection, Makes
<1>11. left' \in [runs : Nat, kills : Nat, faults : Nat]
  <2>1. /\ left \in [runs : Nat, kills : Nat, faults : Nat]
        /\ left.runs > 0 /\ left' = [left EXCEPT !.runs = @ - 1]
    BY <1>1 DEF FileTypes, Start
  <2> QED BY <2>1
<1>12. UNCHANGED <<entry, temp, bytes, marker, chief, holder>>
  BY DEF Start, files
<1> QED BY <1>5, <1>7, <1>9, <1>10, <1>11, <1>12, RunFrame

LEMMA ConfigureInv ==
    ASSUME PublicationInv, NEW p \in Procs, Configure(p)
    PROVE  PublicationInv'
<1>1. run[p] # None /\ run[p].at = "configure" /\ ~InSection(p) /\ Carries(p)
  BY DEF Configure, At, InSection, Makes, Locked, Publishing, PublicationInv
<1>2. CASE EndAsIs(p)
  BY <1>1, <1>2, EndAsIsInv
<1>3. CASE /\ StartPublishing(p, "create", "config", Fixed)
           /\ UNCHANGED <<files, marker, chief, holder, left>>
  <2>1. run[p].cmd \notin {"create", "write"}
    BY <1>1 DEF Carries, Makers
  <2>2. run[p].cmd \in {"init", "plan"}
    BY <1>1 DEF Carries, Makers
  <2> QED BY <1>1, <1>3, <2>1, <2>2, StartFrame DEF files, Targets
<1> QED BY <1>2, <1>3 DEF Configure

LEMMA LayoutInv ==
    ASSUME PublicationInv, NEW p \in Procs, Layout(p) \/ Relayout(p)
    PROVE  PublicationInv'
<1>1. /\ run[p] # None /\ run[p].at \in {"layout", "relayout"} /\ ~InSection(p)
      /\ marker \in {"absent", "torn", "whole"}
      /\ At(p, "relayout") => marker = "whole"
      /\ run[p].cmd \in {"init", "plan"}
  BY DEF Layout, Relayout, At, InSection, Makes, Locked, Publishing, PublicationInv, Placed,
         PastMarker, FileTypes, Carries, Makers
<1>2. CASE EndAsIs(p)
  BY <1>1, <1>2, EndAsIsInv
<1>3. CASE ~EndAsIs(p)
  <2>1. UNCHANGED <<entry, temp, bytes, marker, chief, holder, left>>
    BY <1>3 DEF Layout, Relayout, files
  <2>2. PICK s \in {"mark", "relayout", "lock file"} :
            Go(p, s) /\ (s # "mark" => marker = "whole")
    BY <1>1, <1>3 DEF Layout, Relayout, Preflight
  <2> QED BY <1>1, <2>1, <2>2, GoFrame
<1> QED BY <1>2, <1>3

(* The marker is created and filled by one process at a time.               *)
LEMMA MarkerFrame ==
    ASSUME PublicationInv, NEW p \in Procs, run[p] # None,
           UNCHANGED <<entry, temp, bytes, chief, holder, left>>,
           \/ At(p, "mark") /\ marker = "absent" /\ marker' = "torn" /\ Go(p, "fill marker")
           \/ At(p, "fill marker") /\ marker' = "whole" /\ Go(p, "relayout")
    PROVE  PublicationInv'
<1>1. /\ FileTypes /\ OneLock /\ RecordWhole /\ MarkerFirst /\ Carries(p) /\ Placed(p)
      /\ None \notin Procs
  BY PublicationAssumption DEF PublicationInv
<1>2. PICK s \in {"fill marker", "relayout"} :
          /\ Go(p, s) /\ run[p].at \in {"mark", "fill marker"} /\ marker # "whole"
          /\ s = "fill marker" => marker = "absent" /\ marker' = "torn"
          /\ s = "relayout" => At(p, "fill marker") /\ marker = "torn" /\ marker' = "whole"
  BY <1>1 DEF At, Placed
<1>3. s \in Steps
  BY DEF Steps
<1>4. /\ Others(p) /\ run'[p] \in Runs /\ run'[p] # None /\ run'[p].at = s
      /\ run'[p].cmd = run[p].cmd /\ run'[p].val = run[p].val
      /\ run'[p].nonce = run[p].nonce /\ run'[p].ino = run[p].ino
  BY <1>1, <1>2, <1>3, GoMoves
<1>5. FileTypes'
  BY <1>1, <1>2, <1>4 DEF FileTypes, Others
<1>6. OneLock' /\ RecordWhole' /\ MarkerFirst'
  BY <1>1, <1>2 DEF OneLock, RecordWhole, MarkerFirst, Targets, FileTypes
<1>7. Carries(p)'
  BY <1>1, <1>2, <1>4 DEF Carries, Publishing, Makers, Makes, AllCommands
<1>8. ~InSection(p)' /\ ~Makes(p, {"policy"})' /\ ~Makes(p, {"lock"})'
  BY <1>4 DEF InSection, Makes, Locked, Publishing
<1>9. Placed(p)' /\ Keeps(p)' /\ Whole(p)'
  BY <1>2, <1>4, <1>8 DEF Placed, Keeps, Whole, PastMarker, At
<1>10. ASSUME NEW q \in Procs \ {p}
       PROVE  Carries(q)' /\ Placed(q)' /\ Keeps(q)' /\ Whole(q)'
  <2>1. /\ run'[q] = run[q] /\ Carries(q) /\ Placed(q) /\ Keeps(q) /\ Whole(q)
        /\ Distinct(q, p)
    BY <1>4 DEF PublicationInv, Others
  <2>2. Carries(q)' /\ Keeps(q)'
    BY <2>1 DEF Carries, Keeps, Makes, InSection, Owns, Live
  <2>3. ~PastMarker(q)
    BY <1>2, <2>1 DEF Placed
  <2>4. ~At(q, "fill marker")
    BY <1>2, <2>1 DEF Placed, Distinct, At
  <2>5. ~PastMarker(q)' /\ ~At(q, "fill marker")'
    BY <2>1, <2>3, <2>4 DEF PastMarker, InSection, Makes, At
  <2>6. Placed(q)'
    BY <2>1, <2>5 DEF Placed, PastMarker, Makes, InSection
  <2>7. Whole(q)'
    <3>1. ASSUME NEW r \in Procs, run'[r] # None
          PROVE  run[r] # None /\ run'[r].ino = run[r].ino
      BY <1>4, <3>1 DEF Others
    <3> QED BY <2>1, <3>1 DEF Whole, At
  <2> QED BY <2>2, <2>6, <2>7
<1>11. ASSUME NEW q \in Procs, NEW r \in Procs \ {q}
       PROVE  Distinct(q, r)'
  <2>1. /\ Distinct(q, r) /\ Distinct(r, q)
        /\ At(q, "fill marker") \/ At(r, "fill marker") => marker = "torn"
    BY DEF PublicationInv, Placed
  <2>2. ~(At(q, "fill marker")' /\ At(r, "fill marker")')
    <3>1. CASE q = p
      BY <1>2, <1>4, <2>1, <3>1 DEF At, Others
    <3>2. CASE r = p
      BY <1>2, <1>4, <2>1, <3>2 DEF At, Others
    <3>3. CASE q # p /\ r # p
      BY <1>4, <2>1, <3>3 DEF At, Others, Distinct
    <3> QED BY <3>1, <3>2, <3>3
  <2> QED BY <1>4, <2>1, <2>2 DEF Distinct, Others, At
<1> QED BY <1>5, <1>6, <1>7, <1>9, <1>10, <1>11 DEF PublicationInv

LEMMA MarkInv ==
    ASSUME PublicationInv, NEW p \in Procs, Mark(p) \/ FillMarker(p)
    PROVE  PublicationInv'
<1>1. /\ run[p] # None /\ run[p].at \in {"mark", "fill marker"} /\ ~InSection(p)
      /\ run[p].cmd \in {"init", "plan"}
  BY DEF Mark, FillMarker, At, InSection, Makes, Locked, Publishing, PublicationInv, Carries,
         Makers
<1>2. CASE Mark(p) /\ marker = "torn"
  BY <1>1, <1>2, EndAsIsInv DEF Mark
<1>3. CASE Mark(p) /\ marker = "whole"
  BY <1>1, <1>3, GoFrame DEF Mark, files
<1>4. CASE Mark(p) /\ marker = "absent"
  BY <1>1, <1>4, MarkerFrame DEF Mark, files
<1>5. CASE FillMarker(p)
  BY <1>1, <1>5, MarkerFrame DEF FillMarker, files
<1>6. marker \in {"absent", "torn", "whole"}
  BY DEF PublicationInv, FileTypes
<1> QED BY <1>2, <1>3, <1>4, <1>5, <1>6

LEMMA LockFileInv ==
    ASSUME PublicationInv, NEW p \in Procs, LockFile(p)
    PROVE  PublicationInv'
<1>1. /\ run[p] # None /\ run[p].at = "lock file" /\ ~InSection(p)
      /\ run[p].cmd \in {"init", "plan"} /\ marker = "whole"
  BY DEF LockFile, At, InSection, Makes, Locked, Publishing, PublicationInv, Carries,
         Makers, Placed, PastMarker
<1>2. UNCHANGED <<entry, temp, bytes, marker, chief, holder, left>>
  BY DEF LockFile, files
<1>3. CASE StartPublishing(p, "create", "lock", Fixed)
  BY <1>1, <1>2, <1>3, StartFrame DEF Targets
<1>4. CASE Go(p, "bind")
  BY <1>1, <1>2, <1>4, GoFrame DEF Makers
<1> QED BY <1>3, <1>4 DEF LockFile

LEMMA CheckLayoutInv ==
    ASSUME PublicationInv, NEW p \in Procs, CheckLayout(p)
    PROVE  PublicationInv'
<1>1. run[p] # None /\ run[p].at = "preflight" /\ ~InSection(p)
  BY DEF CheckLayout, At, InSection, Makes, Locked, Publishing
<1>2. CASE EndAsIs(p)
  BY <1>1, <1>2, EndAsIsInv
<1>3. CASE ~EndAsIs(p)
  BY <1>1, <1>3, GoFrame DEF CheckLayout, files, Makers
<1> QED BY <1>2, <1>3

-----------------------------------------------------------------------------
(* Taking the lock and giving it back *)

LEMMA BindInv ==
    ASSUME PublicationInv, NEW p \in Procs, Bind(p)
    PROVE  PublicationInv'
<1>1. /\ run[p] # None /\ run[p].at = "bind" /\ ~InSection(p) /\ Carries(p) /\ Placed(p)
      /\ FileTypes /\ OneLock /\ run[p] \in Runs /\ marker = "whole" /\ None \notin Procs
  BY ZenonT(40), PublicationAssumption
     DEF Bind, At, InSection, Makes, Locked, Publishing, PublicationInv, Carries, Placed, PastMarker
<1>2. CASE EndAsIs(p)
  BY <1>1, <1>2, EndAsIsInv
<1>3. CASE ~EndAsIs(p)
  <2>1. /\ entry["lock"] \in Inodes /\ UNCHANGED <<entry, temp, bytes, marker, chief, holder, left>>
        /\ run' = [run EXCEPT ![p].lock = entry["lock"], ![p].at = "wait",
                              ![p].op = None, ![p].target = None,
                              ![p].nonce = None, ![p].ino = None]
    BY <1>1, <1>3 DEF Bind, Private, files, FileTypes, Targets
  <2>2. /\ Others(p)
        /\ run'[p] = [run[p] EXCEPT !.lock = entry["lock"], !.at = "wait", !.op = None,
                                    !.target = None, !.nonce = None, !.ino = None]
    BY <1>1, <2>1 DEF FileTypes, Others
  <2>3. run'[p] \in Runs
    <3>1. "wait" \in Steps /\ entry["lock"] \in Inodes \cup {None}
      BY <2>1 DEF Steps
    <3> QED BY <1>1, <2>2, <3>1 DEF Runs
  <2>4. /\ run'[p].at = "wait" /\ run'[p].nonce = None /\ run'[p].ino = None
        /\ run'[p].cmd = run[p].cmd /\ run'[p].val = run[p].val
    BY <1>1, <2>2 DEF Runs
  <2>5. Carries(p)'
    BY <1>1, <2>3, <2>4 DEF Carries, Publishing, Makes, Makers, AllCommands
  <2>6. ~InSection(p)' /\ ~Makes(p, {"policy"})'
    BY SMTT(20), <2>4 DEF InSection, Makes, Locked, Publishing
  <2>7. Placed(p)' /\ Keeps(p)' /\ Whole(p)'
    BY <1>1, <2>1, <2>4, <2>6 DEF Placed, Keeps, Whole, At
  <2>8. \A i \in Inodes : holder[i] # p
    BY <1>1 DEF OneLock
  <2>9. left' \in [runs : Nat, kills : Nat, faults : Nat]
    BY <1>1, <2>1 DEF FileTypes
  <2> QED BY <2>1, <2>2, <2>4, <2>5, <2>7, <2>8, <2>9, RunFrame
<1> QED BY <1>2, <1>3

LEMMA HolderFrame ==
    ASSUME PublicationInv, NEW p \in Procs, run[p] # None, run'[p] # None, Others(p),
           UNCHANGED <<entry, temp, bytes, marker, chief, left>>, marker = "whole",
           holder' \in [Inodes -> Procs \cup {None}],
           \A i \in Inodes : holder'[i] # holder[i] => {holder[i], holder'[i]} \subseteq {p, None},
           \A i \in Inodes : holder'[i] = p => InSection(p)' /\ entry["lock"] = i,
           Carries(p)', Placed(p)', Keeps(p)', Whole(p)',
           run'[p].nonce = run[p].nonce, run'[p].ino = run[p].ino, run'[p].at # "fill marker"
    PROVE  PublicationInv'
<1>1. FileTypes /\ OneLock /\ RecordWhole /\ None \notin Procs
  BY PublicationAssumption DEF PublicationInv
<1>2. FileTypes'
  BY <1>1 DEF FileTypes, Others
<1>3. \A q \in Procs \ {p} : InSection(q)' <=> InSection(q)
  BY DEF Others, InSection, Makes
<1>4. OneLock'
  BY ZenonT(40), <1>1, <1>2, <1>3 DEF OneLock, FileTypes
<1>5. RecordWhole' /\ MarkerFirst'
  BY <1>1 DEF RecordWhole, MarkerFirst
<1>6. ASSUME NEW q \in Procs \ {p}
      PROVE  Carries(q)' /\ Placed(q)' /\ Keeps(q)' /\ Whole(q)'
  <2>1. run'[q] = run[q] /\ Carries(q) /\ Placed(q) /\ Keeps(q) /\ Whole(q)
    BY DEF PublicationInv, Others
  <2>2. Carries(q)' /\ Keeps(q)'
    BY <2>1 DEF Carries, Keeps, Makes, InSection, Owns, Live
  <2>3. InSection(q) => run[q].lock \in Inodes /\ holder'[run[q].lock] = q
    BY <1>1, <2>1 DEF Placed
  <2>4. Placed(q)'
    BY <2>1, <2>3 DEF Placed, InSection, PastMarker, Makes, At
  <2>5. ASSUME NEW r \in Procs, run'[r] # None
        PROVE  run[r] # None /\ run'[r].ino = run[r].ino
    BY <2>5 DEF Others
  <2>6. Whole(q)'
    BY ZenonT(40), <2>1, <2>5 DEF Whole, At
  <2> QED BY <2>2, <2>4, <2>6
<1>7. ASSUME NEW q \in Procs, NEW r \in Procs \ {q}
      PROVE  Distinct(q, r)'
  <2>1. Distinct(q, r) /\ Distinct(r, q)
    BY DEF PublicationInv
  <2> QED BY <2>1 DEF Distinct, Others
<1> QED BY <1>2, <1>4, <1>5, <1>6, <1>7 DEF PublicationInv

LEMMA EnterInv ==
    ASSUME PublicationInv, NEW p \in Procs, Enter(p)
    PROVE  PublicationInv'
<1>1. /\ run[p] # None /\ run[p].at = "wait" /\ ~InSection(p) /\ Carries(p) /\ Placed(p)
      /\ FileTypes /\ OneLock /\ run[p] \in Runs /\ marker = "whole" /\ None \notin Procs
  BY PublicationAssumption
     DEF Enter, At, InSection, Makes, Locked, Publishing, PublicationInv, Carries, Placed, PastMarker
<1>2. CASE EndAsIs(p)
  BY <1>1, <1>2, EndAsIsInv
<1>3. CASE ~EndAsIs(p)
  <2>1. /\ entry["lock"] = run[p].lock /\ entry["lock"] \in Inodes
        /\ holder[run[p].lock] = None /\ holder' = [holder EXCEPT ![run[p].lock] = p]
        /\ Go(p, run[p].cmd) /\ UNCHANGED <<entry, temp, bytes, marker, chief, left>>
    BY <1>1, <1>3 DEF Enter, Private, files, FileTypes, Targets
  <2>2. run[p].cmd \in AllCommands \cup {"grant"} /\ run[p].cmd # "read"
    BY <1>1 DEF Runs, Carries
  <2>3. run[p].cmd \in Steps /\ run[p].cmd \in Locked
    BY <2>2 DEF Steps, Locked, AllCommands
  <2>4. /\ Others(p) /\ run'[p] \in Runs /\ run'[p] # None /\ run'[p].at = run[p].cmd
        /\ run'[p].cmd = run[p].cmd /\ run'[p].val = run[p].val
        /\ run'[p].nonce = run[p].nonce /\ run'[p].ino = run[p].ino
        /\ run'[p].lock = run[p].lock
    BY <1>1, <2>1, <2>3, GoMoves
  <2>5. Carries(p)'
    BY <1>1, <2>3, <2>4 DEF Carries, Publishing, Makes, Makers, Locked
  <2>6. InSection(p)' /\ ~Makes(p, {"policy"})'
    BY <2>3, <2>4 DEF InSection, Makes, Locked, Publishing
  <2>7. Placed(p)' /\ Keeps(p)' /\ Whole(p)'
    BY <1>1, <2>1, <2>3, <2>4, <2>6 DEF Placed, Keeps, Whole, At, Locked, FileTypes
  <2>8. /\ holder' \in [Inodes -> Procs \cup {None}]
        /\ \A i \in Inodes : holder'[i] # holder[i] => {holder[i], holder'[i]} \subseteq {p, None}
    BY <1>1, <2>1 DEF FileTypes
  <2>9. \A i \in Inodes : holder'[i] = p => InSection(p)' /\ entry["lock"] = i
    BY <1>1, <2>1, <2>6 DEF FileTypes, OneLock
  <2>10. run'[p].at # "fill marker"
    BY <2>3, <2>4 DEF Locked
  <2> QED BY <1>1, <2>1, <2>4, <2>5, <2>7, <2>8, <2>9, <2>10, HolderFrame
<1> QED BY <1>2, <1>3

LEMMA JudgeTreeInv ==
    ASSUME PublicationInv, NEW p \in Procs, JudgeTree(p)
    PROVE  PublicationInv'
<1>1. /\ run[p] # None /\ run[p].at = "acquire" /\ InSection(p) /\ Carries(p) /\ Placed(p)
      /\ FileTypes /\ OneLock /\ run[p] \in Runs /\ marker = "whole" /\ None \notin Procs
      /\ run[p].lock \in Inodes /\ holder[run[p].lock] = p
  BY PublicationAssumption
     DEF JudgeTree, At, InSection, Locked, PublicationInv, Carries, Placed, PastMarker
<1>2. CASE EndAsIs(p)
  BY <1>1, <1>2, EndAsIsInv
<1>3. CASE ~EndAsIs(p)
  <2>1. /\ run' = [run EXCEPT ![p].cmd = "grant", ![p].at = "preflight", ![p].lock = None]
        /\ holder' = [holder EXCEPT ![run[p].lock] = None]
        /\ UNCHANGED <<entry, temp, bytes, marker, chief, left>>
    BY <1>3 DEF JudgeTree, files
  <2>2. /\ Others(p)
        /\ run'[p] = [run[p] EXCEPT !.cmd = "grant", !.at = "preflight", !.lock = None]
    BY <1>1, <2>1 DEF FileTypes, Others
  <2>3. run'[p] \in Runs
    BY <1>1, <2>2 DEF Runs, Steps
  <2>4. /\ run'[p].at = "preflight" /\ run'[p].cmd = "grant"
        /\ run'[p].nonce = run[p].nonce /\ run'[p].ino = run[p].ino /\ run'[p] # None
    BY <1>1, <2>2, <2>3, NullAssumption DEF Runs
  <2>5. Carries(p)'
    BY <2>3, <2>4 DEF Carries, Publishing, Makes, Makers, AllCommands
  <2>6. ~InSection(p)' /\ ~Makes(p, {"policy"})' /\ ~PastMarker(p)'
    BY <2>4 DEF InSection, Makes, Locked, Publishing, PastMarker
  <2>7. Placed(p)' /\ Keeps(p)' /\ Whole(p)'
    BY <2>4, <2>6 DEF Placed, Keeps, Whole, At
  <2>8. /\ holder' \in [Inodes -> Procs \cup {None}]
        /\ \A i \in Inodes : holder'[i] # holder[i] => {holder[i], holder'[i]} \subseteq {p, None}
    BY <1>1, <2>1 DEF FileTypes
  <2>9. \A i \in Inodes : holder'[i] # p
    BY <1>1, <2>1 DEF FileTypes, OneLock
  <2> QED BY <1>1, <2>1, <2>2, <2>4, <2>5, <2>7, <2>8, <2>9, HolderFrame
<1> QED BY <1>2, <1>3

-----------------------------------------------------------------------------
(* What commands do under the lock, and reading *)

LEMMA InitTreeInv ==
    ASSUME PublicationInv, NEW p \in Procs, InitTree(p)
    PROVE  PublicationInv'
<1>1. /\ run[p] # None /\ run[p].at = "init" /\ InSection(p) /\ marker = "whole"
      /\ run[p].cmd = "init"
  BY DEF InitTree, At, InSection, Locked, PublicationInv, Carries, Placed, PastMarker, AllCommands
<1>2. CASE EndAsIs(p)
  BY <1>1, <1>2, EndAsIsInv
<1>3. CASE ~EndAsIs(p)
  <2>1. ~chief /\ UNCHANGED <<entry, temp, bytes, marker, chief, holder, left>>
    BY <1>3 DEF InitTree, files
  <2>2. CASE StartPublishing(p, "write", "policy", Fixed)
    BY <1>1, <2>1, <2>2, StartFrame DEF Targets
  <2>3. CASE Go(p, "leave")
    BY <1>1, <2>1, <2>3, GoFrame DEF Makers
  <2> QED BY <1>3, <2>2, <2>3 DEF InitTree
<1> QED BY <1>2, <1>3

LEMMA DocumentInv ==
    ASSUME PublicationInv, NEW p \in Procs, Document(p)
    PROVE  PublicationInv'
<1>1. /\ run[p] # None /\ run[p].at \in {"create", "write"} /\ InSection(p) /\ marker = "whole"
      /\ run[p].cmd \in {"create", "write"} /\ run[p].val \in Values
  BY ZenonT(40)
     DEF Document, At, InSection, Locked, PublicationInv, Carries, Placed, PastMarker, AllCommands
<1>2. CASE EndAsIs(p)
  BY <1>1, <1>2, EndAsIsInv
<1>3. CASE ~EndAsIs(p)
  <2>1. /\ StartPublishing(p, run[p].cmd, "record", run[p].val)
        /\ UNCHANGED <<entry, temp, bytes, marker, chief, holder, left>>
    BY <1>3 DEF Document, files
  <2>2. PICK c, v : c = run[p].cmd /\ v = run[p].val
    OBVIOUS
  <2>3. StartPublishing(p, c, "record", v) /\ c \in {"create", "write"} /\ v \in Values
    BY <1>1, <2>1, <2>2
  <2> QED BY <1>1, <2>1, <2>3, StartFrame DEF Targets
<1> QED BY <1>2, <1>3

LEMMA LeaveInv ==
    ASSUME PublicationInv, NEW p \in Procs,
           Plan(p) \/ Leave(p) \/ Removed(p) \/ Robbed(p) \/ Return(p)
    PROVE  PublicationInv'
  BY EndAsIsInv DEF Plan, Leave, Removed, Robbed, Return, At

(* The todo list of a recovery changes.                                     *)
LEMMA ScanInv ==
    ASSUME PublicationInv, NEW p \in Procs, Scan(p)
    PROVE  PublicationInv'
<1>1. /\ run[p] # None /\ run[p].at = "recover" /\ InSection(p) /\ Carries(p) /\ Placed(p)
      /\ FileTypes /\ run[p] \in Runs
  BY DEF Scan, At, InSection, Locked, PublicationInv, Carries
<1>2. CASE EndAsIs(p)
  BY <1>1, <1>2, EndAsIsInv
<1>3. CASE ~EndAsIs(p)
  <2>1. PICK S : S = {Snapshot(n) : n \in Residue}
    OBVIOUS
  <2>2. /\ run' = [run EXCEPT ![p].at = "remove", ![p].todo = S]
        /\ UNCHANGED <<entry, temp, bytes, marker, chief, holder, left>>
    BY <1>3, <2>1 DEF Scan, files
  <2>3. S \in SUBSET [nonce : Nonces, ino : Inodes, links : Nat]
    <3>1. ASSUME NEW n \in Residue
          PROVE  Snapshot(n) \in [nonce : Nonces, ino : Inodes, links : Nat]
      <4>1. n \in Nonces /\ temp[n].ino \in Inodes
        BY <1>1 DEF Residue, Live, FileTypes, Temporaries
      <4>2. Links(temp[n].ino) \in Nat
        BY <1>1, <4>1, LinksCount
      <4> QED BY <4>1, <4>2 DEF Snapshot
    <3> QED BY <2>1, <3>1
  <2>4. Others(p) /\ run'[p] = [run[p] EXCEPT !.at = "remove", !.todo = S]
    BY <1>1, <2>2 DEF FileTypes, Others
  <2>5. run'[p] \in Runs
    <3>1. "remove" \in Steps
      BY DEF Steps
    <3> QED BY <1>1, <2>3, <2>4, <3>1 DEF Runs
  <2>6. /\ run'[p].at = "remove" /\ run'[p].cmd = run[p].cmd /\ run'[p].val = run[p].val
        /\ run'[p].nonce = run[p].nonce /\ run'[p].ino = run[p].ino
        /\ run'[p].lock = run[p].lock /\ run'[p] # None
    BY <1>1, <2>4, <2>5, NullAssumption DEF Runs
  <2>7. Carries(p)'
    BY <1>1, <2>5, <2>6 DEF Carries, Publishing, Makes, Makers, AllCommands
  <2>8. InSection(p)' /\ ~Makes(p, {"policy"})' /\ PastMarker(p)
    BY <1>1, <2>6 DEF InSection, Makes, Locked, Publishing, PastMarker
  <2>9. Placed(p)' /\ Keeps(p)' /\ Whole(p)'
    BY <1>1, <2>2, <2>6, <2>8 DEF Placed, Keeps, Whole, At
  <2>10. left' \in [runs : Nat, kills : Nat, faults : Nat]
    BY <1>1, <2>2 DEF FileTypes
  <2> QED BY <1>1, <2>2, <2>4, <2>6, <2>7, <2>8, <2>9, <2>10, RunFrame
<1> QED BY <1>2, <1>3

LEMMA StatInv ==
    ASSUME PublicationInv, NEW p \in Procs, Stat(p)
    PROVE  PublicationInv'
<1>1. /\ run[p] # None /\ run[p].at = "stat" /\ ~InSection(p) /\ Carries(p)
      /\ FileTypes /\ OneLock /\ run[p] \in Runs /\ None \notin Procs
  BY PublicationAssumption
     DEF Stat, At, InSection, Makes, Locked, Publishing, PublicationInv, Carries
<1>2. CASE EndAsIs(p)
  BY <1>1, <1>2, EndAsIsInv
<1>3. CASE ~EndAsIs(p)
  <2>1. /\ entry["record"] \in Inodes
        /\ run' = [run EXCEPT ![p].ino = entry["record"], ![p].at = "open file"]
        /\ UNCHANGED <<entry, temp, bytes, marker, chief, holder, left>>
    BY <1>1, <1>3 DEF Stat, Private, files, FileTypes, Targets
  <2>2. Others(p) /\ run'[p] = [run[p] EXCEPT !.ino = entry["record"], !.at = "open file"]
    BY <1>1, <2>1 DEF FileTypes, Others
  <2>3. run'[p] \in Runs
    <3>1. "open file" \in Steps
      BY DEF Steps
    <3>2. entry["record"] \in Inodes \cup {None}
      BY <2>1
    <3> QED BY <1>1, <2>2, <3>1, <3>2 DEF Runs
  <2>4. /\ run'[p].at = "open file" /\ run'[p].cmd = run[p].cmd /\ run'[p].val = run[p].val
        /\ run'[p].nonce = run[p].nonce /\ run'[p].ino = entry["record"]
    BY <1>1, <2>2 DEF Runs
  <2>5. Carries(p)'
    BY <1>1, <2>3, <2>4 DEF Carries, Publishing, Makes, Makers, AllCommands
  <2>6. ~InSection(p)' /\ ~Makes(p, {"policy"})' /\ ~PastMarker(p)'
    BY <2>4 DEF InSection, Makes, Locked, Publishing, PastMarker
  <2>7. Placed(p)' /\ Keeps(p)' /\ Whole(p)'
    BY <2>4, <2>6 DEF Placed, Keeps, Whole, At
  <2>8. \A i \in Inodes : holder[i] # p
    BY <1>1 DEF OneLock
  <2>9. left' \in [runs : Nat, kills : Nat, faults : Nat] /\ "record" \in Targets
    BY <1>1, <2>1 DEF FileTypes, Targets
  <2> QED BY <1>1, <2>1, <2>2, <2>4, <2>5, <2>7, <2>8, <2>9, RunFrame
<1> QED BY <1>2, <1>3

LEMMA OpenFileInv ==
    ASSUME PublicationInv, NEW p \in Procs, OpenFile(p)
    PROVE  PublicationInv'
<1>1. /\ run[p] # None /\ run[p].at = "open file" /\ ~InSection(p) /\ Carries(p)
      /\ FileTypes /\ OneLock /\ RecordWhole /\ run[p] \in Runs /\ None \notin Procs
  BY PublicationAssumption
     DEF OpenFile, At, InSection, Makes, Locked, Publishing, PublicationInv, Carries
<1>2. CASE EndAsIs(p)
  BY <1>1, <1>2, EndAsIsInv
<1>3. CASE ~EndAsIs(p)
  <2>1. /\ entry["record"] \in Inodes /\ entry["record"] = run[p].ino
        /\ bytes[run[p].ino] \in Values
        /\ Go(p, "return") /\ UNCHANGED <<entry, temp, bytes, marker, chief, holder, left>>
    BY <1>1, <1>3 DEF OpenFile, Private, files, FileTypes, Targets, RecordWhole
  <2>2. "return" \in Steps
    BY DEF Steps
  <2>3. /\ Others(p) /\ run'[p] \in Runs /\ run'[p] # None /\ run'[p].at = "return"
        /\ run'[p].cmd = run[p].cmd /\ run'[p].val = run[p].val
        /\ run'[p].nonce = run[p].nonce /\ run'[p].ino = run[p].ino
    BY <1>1, <2>1, <2>2, GoMoves
  <2>4. Carries(p)'
    BY <1>1, <2>3 DEF Carries, Publishing, Makes, Makers, AllCommands
  <2>5. ~InSection(p)' /\ ~Makes(p, {"policy"})' /\ ~PastMarker(p)'
    BY <2>3 DEF InSection, Makes, Locked, Publishing, PastMarker
  <2>6. Placed(p)' /\ Keeps(p)' /\ Whole(p)'
    BY <2>1, <2>3, <2>5 DEF Placed, Keeps, Whole, At
  <2>7. \A i \in Inodes : holder[i] # p
    BY <1>1 DEF OneLock
  <2>8. left' \in [runs : Nat, kills : Nat, faults : Nat]
    BY <1>1, <2>1 DEF FileTypes
  <2> QED BY <1>1, <2>1, <2>3, <2>4, <2>6, <2>7, <2>8, RunFrame
<1> QED BY <1>2, <1>3

-----------------------------------------------------------------------------
(* Publication and recovery *)

(* One process changes files: what it must leave to the others.             *)
LEMMA FileFrame ==
    ASSUME PublicationInv, NEW p \in Procs, run[p] # None, run'[p] # None, Others(p),
           UNCHANGED <<marker, chief, holder, left>>,
           FileTypes', RecordWhole', MarkerFirst',
           entry["lock"] # None => entry'["lock"] = entry["lock"],
           Carries(p)', Placed(p)', Keeps(p)', Whole(p)', InSection(p)' <=> InSection(p),
           run'[p].at # "fill marker",
           \A t \in Targets : entry'[t] \in {entry[t], run[p].ino},
           \A q \in Procs \ {p} : run[q] # None =>
               /\ run[q].nonce \in Nonces =>
                      InSection(p) \/ temp'[run[q].nonce] = temp[run[q].nonce]
               /\ run[q].ino \in Inodes => bytes'[run[q].ino] = bytes[run[q].ino]
               /\ run'[p].nonce # run[p].nonce => run[q].nonce # run'[p].nonce
               /\ run'[p].ino # run[p].ino => run[q].ino # run'[p].ino
    PROVE  PublicationInv'
<1>1. OneLock /\ None \notin Procs /\ None \notin Inodes /\ FileTypes
  BY PublicationAssumption DEF PublicationInv
<1>2. \A q \in Procs : InSection(q)' <=> InSection(q)
  BY DEF Others, InSection, Makes
<1>3. OneLock'
  BY ZenonT(40), <1>1, <1>2 DEF OneLock, FileTypes
<1>4. ASSUME NEW q \in Procs \ {p}
      PROVE  Carries(q)' /\ Placed(q)' /\ Keeps(q)' /\ Whole(q)'
  <2>1. run'[q] = run[q] /\ Carries(q) /\ Placed(q) /\ Keeps(q) /\ Whole(q)
    BY DEF PublicationInv, Others
  <2>2. Carries(q)' /\ Placed(q)'
    BY ZenonT(40), <2>1 DEF Carries, Placed, InSection, PastMarker, Makes, At
  <2>3. Keeps(q)'
    <3>1. ASSUME InSection(q), Owns(q)
          PROVE  Owns(q)'
      <4>1. run[q] # None /\ run[q].nonce \in Nonces
        BY <2>1, <3>1 DEF InSection, Makes, Owns, Carries, Runs
      <4>2. ~InSection(p)
        BY <3>1, SoleHolder
      <4>3. temp'[run[q].nonce] = temp[run[q].nonce]
        BY <4>1, <4>2
      <4> QED BY <2>1, <3>1, <4>3 DEF Owns, Live
    <3> QED BY <1>2, <2>1, <3>1 DEF Keeps
  <2>4. ASSUME At(q, "fill"), NEW t \in Targets
        PROVE  entry'[t] # run[q].ino
    <3>1. entry[t] # run[q].ino /\ run[p].ino # run[q].ino
      BY <2>1, <2>4 DEF Whole
    <3> QED BY <3>1
  <2>5. ASSUME At(q, "fill"), NEW r \in Procs \ {q}, run'[r] # None
        PROVE  run'[r].ino # run[q].ino
    <3>1. run[r] # None => run[r].ino # run[q].ino
      BY <2>1, <2>5 DEF Whole
    <3>2. CASE r = p
      BY <2>5, <3>1, <3>2 DEF At
    <3>3. CASE r # p
      BY <2>5, <3>1, <3>3 DEF Others
    <3> QED BY <3>2, <3>3
  <2>6. Whole(q)'
    <3>1. /\ At(q, "fill")' <=> At(q, "fill")
          /\ At(q, "name")' <=> At(q, "name")
          /\ At(q, "return")' <=> At(q, "return")
      BY <2>1 DEF At
    <3>2. ASSUME At(q, "name") PROVE bytes'[run[q].ino] = run[q].val /\ run[q].ino \in Inodes
      BY <2>1, <3>2 DEF Whole, At
    <3>3. ASSUME At(q, "return") PROVE bytes'[run[q].ino] \in Values /\ run[q].ino \in Inodes
      BY <2>1, <3>3 DEF Whole, At
    <3>4. ASSUME At(q, "fill") PROVE run[q].ino \in Inodes
      BY <2>1, <3>4 DEF Whole
    <3> QED BY <2>1, <2>4, <2>5, <3>1, <3>2, <3>3, <3>4 DEF Whole
  <2> QED BY <2>2, <2>3, <2>6
<1>5. ASSUME NEW q \in Procs, NEW r \in Procs \ {q}
      PROVE  Distinct(q, r)'
  <2>1. Distinct(q, r) /\ Distinct(r, q)
    BY DEF PublicationInv
  <2>2. CASE q # p /\ r # p
    BY <2>1, <2>2 DEF Distinct, Others
  <2>3. CASE q = p
    BY <2>1, <2>3 DEF Distinct, Others
  <2>4. CASE r = p
    <3>1. q \in Procs \ {p} /\ run'[q] = run[q] /\ Distinct(q, p)
      BY <2>1, <2>4 DEF Others
    <3>2. Distinct(q, p)'
      BY <3>1 DEF Distinct
    <3> QED BY <2>4, <3>2
  <2> QED BY <2>2, <2>3, <2>4
<1> QED BY <1>3, <1>4, <1>5 DEF PublicationInv

(* Unnaming one's own temporary leaves those of the others.                 *)
LEMMA UnnamedOthers ==
    ASSUME PublicationInv, NEW p \in Procs, run[p] # None, Owns(p),
           NEW q \in Procs \ {p}, run[q] # None, run[q].nonce \in Nonces
    PROVE  Unnamed(p)[run[q].nonce] = temp[run[q].nonce]
<1>1. Distinct(p, q) /\ FileTypes
  BY DEF PublicationInv
<1>2. run[p].nonce # run[q].nonce
  BY <1>1 DEF Distinct, Owns
<1> QED BY <1>1, <1>2 DEF Unnamed, FileTypes

LEMMA RemoveInv ==
    ASSUME PublicationInv, NEW p \in Procs, Remove(p)
    PROVE  PublicationInv'
<1>1. /\ run[p] # None /\ run[p].at = "remove" /\ InSection(p) /\ Carries(p) /\ Placed(p)
      /\ FileTypes /\ RecordWhole /\ MarkerFirst /\ run[p] \in Runs
  BY DEF Remove, At, InSection, Locked, PublicationInv, Carries
<1>2. CASE EndAsIs(p)
  BY <1>1, <1>2, EndAsIsInv
<1>3. CASE ~EndAsIs(p)
  <2>1. PICK x \in run[p].todo :
          /\ temp' = [temp EXCEPT ![x.nonce] = None]
          /\ run' = [run EXCEPT ![p].todo = @ \ {x}]
          /\ UNCHANGED <<entry, bytes, marker, chief, holder, left>>
    BY <1>3 DEF Remove
  <2>2. Others(p) /\ run'[p] = [run[p] EXCEPT !.todo = @ \ {x}]
    BY <1>1, <2>1 DEF FileTypes, Others
  <2>3. run'[p] \in Runs
    BY <1>1, <2>2 DEF Runs
  <2>4. /\ run'[p].at = run[p].at /\ run'[p].cmd = run[p].cmd /\ run'[p].val = run[p].val
        /\ run'[p].nonce = run[p].nonce /\ run'[p].ino = run[p].ino
        /\ run'[p].lock = run[p].lock /\ run'[p] # None
    BY <1>1, <2>2, <2>3, NullAssumption DEF Runs
  <2>5. Carries(p)'
    BY <1>1, <2>3, <2>4 DEF Carries, Publishing, Makes, Makers, AllCommands
  <2>6. InSection(p)' /\ ~Makes(p, {"policy"})' /\ PastMarker(p)
    BY <1>1, <2>4 DEF InSection, Makes, Locked, Publishing, PastMarker
  <2>7. Placed(p)' /\ Keeps(p)' /\ Whole(p)'
    BY <1>1, <2>1, <2>4, <2>6 DEF Placed, Keeps, Whole, At
  <2>8. FileTypes'
    <3>1. temp' \in [Nonces -> Temporaries \cup {None}]
      BY <1>1, <2>1 DEF FileTypes
    <3> QED BY <1>1, <2>1, <2>2, <3>1 DEF FileTypes, Others
  <2>9. RecordWhole' /\ MarkerFirst'
    BY <1>1, <2>1 DEF RecordWhole, MarkerFirst
  <2>10. run'[p].at # "fill marker"
    BY <1>1, <2>4
  <2> QED BY <1>1, <2>1, <2>2, <2>4, <2>5, <2>6, <2>7, <2>8, <2>9, <2>10, FileFrame
<1> QED BY <1>2, <1>3

LEMMA OpenTemporaryInv ==
    ASSUME PublicationInv, NEW p \in Procs, OpenTemporary(p)
    PROVE  PublicationInv'
<1>1. /\ run[p] # None /\ run[p].at = "open" /\ Carries(p) /\ Placed(p)
      /\ FileTypes /\ RecordWhole /\ MarkerFirst /\ run[p] \in Runs
      /\ run[p].op \in {"create", "write"} /\ run[p].target \in Targets
      /\ None \notin Inodes /\ None \notin Nonces
  BY PublicationAssumption DEF OpenTemporary, At, PublicationInv, Carries, Publishing
<1>2. PICK n, i : n = Least(Nonces \ UsedNonces) /\ i = Least(Inodes \ UsedInodes)
  OBVIOUS
<1>3. /\ temp' = [temp EXCEPT ![n] = [op |-> run[p].op, target |-> run[p].target, ino |-> i]]
      /\ bytes' = [bytes EXCEPT ![i] = Empty]
      /\ run' = [run EXCEPT ![p].nonce = n, ![p].ino = i, ![p].at = "fill"]
      /\ UNCHANGED <<entry, marker, chief, holder, left>>
  BY <1>2 DEF OpenTemporary
<1>4. /\ i \in Inodes /\ n \in Nonces
      /\ \A t \in Targets : entry[t] # i
      /\ \A q \in Procs : run[q] # None => run[q].ino # i /\ run[q].nonce # n
  BY <1>1, <1>2, Unused DEF OpenTemporary
<1>5. Others(p) /\ run'[p] = [run[p] EXCEPT !.nonce = n, !.ino = i, !.at = "fill"]
  BY <1>1, <1>3 DEF FileTypes, Others
<1>6. run'[p] \in Runs
  <2>1. "fill" \in Steps /\ n \in Nonces \cup {None} /\ i \in Inodes \cup {None}
    BY <1>4 DEF Steps
  <2> QED BY <1>1, <1>5, <2>1 DEF Runs
<1>7. /\ run'[p].at = "fill" /\ run'[p].nonce = n /\ run'[p].ino = i
      /\ run'[p].cmd = run[p].cmd /\ run'[p].val = run[p].val /\ run'[p].lock = run[p].lock
      /\ run'[p].op = run[p].op /\ run'[p].target = run[p].target /\ run'[p] # None
  BY <1>1, <1>5, <1>6, NullAssumption DEF Runs
<1>8. Carries(p)'
  BY <1>1, <1>6, <1>7 DEF Carries, Publishing, Makes, Makers, AllCommands
<1>9. /\ InSection(p)' <=> InSection(p)
      /\ Makes(p, {"policy"})' <=> Makes(p, {"policy"})
      /\ Makes(p, {"lock"})' <=> Makes(p, {"lock"})
  BY <1>1, <1>7 DEF InSection, Makes, Publishing, Locked
<1>10. Placed(p)'
  <2>1. PastMarker(p)' => PastMarker(p)
    BY <1>7, <1>9 DEF PastMarker
  <2> QED BY <1>1, <1>3, <1>7, <1>9, <2>1 DEF Placed, At
<1>11. [op |-> run[p].op, target |-> run[p].target, ino |-> i] \in Temporaries
  BY <1>1, <1>4 DEF Temporaries
<1>12. FileTypes'
  <2>1. temp' \in [Nonces -> Temporaries \cup {None}]
    BY <1>1, <1>3, <1>11 DEF FileTypes
  <2>2. bytes' \in [Inodes -> Values \cup {Fixed, Empty}]
    BY <1>1, <1>3 DEF FileTypes
  <2> QED BY <1>1, <1>3, <1>5, <2>1, <2>2 DEF FileTypes, Others
<1>13. Keeps(p)'
  <2>1. temp'[n] = [op |-> run[p].op, target |-> run[p].target, ino |-> i] /\ temp'[n] # None
    BY <1>1, <1>3, <1>4, <1>11, NullAssumption DEF FileTypes
  <2>2. Owns(p)'
    BY <1>1, <1>4, <1>7, <2>1 DEF Owns, Live
  <2> QED BY <2>2 DEF Keeps
<1>14. Whole(p)'
  <2>1. ASSUME NEW q \in Procs \ {p}, run'[q] # None
        PROVE  run'[q].ino # i
    BY <1>4, <1>5, <2>1 DEF Others
  <2>2. \A t \in Targets : entry'[t] # i
    BY <1>3, <1>4
  <2> QED BY <1>4, <1>7, <2>1, <2>2 DEF Whole, At
<1>15. RecordWhole' /\ MarkerFirst'
  BY <1>1, <1>3, <1>4 DEF RecordWhole, MarkerFirst, FileTypes, Targets
<1>16. ASSUME NEW q \in Procs \ {p}, run[q] # None
       PROVE  /\ run[q].nonce \in Nonces => temp'[run[q].nonce] = temp[run[q].nonce]
              /\ run[q].ino \in Inodes => bytes'[run[q].ino] = bytes[run[q].ino]
              /\ run[q].nonce # n /\ run[q].ino # i
  BY <1>1, <1>3, <1>4, <1>16 DEF FileTypes
<1>17. run'[p].at # "fill marker"
  BY <1>7
<1> QED BY ZenonT(40), <1>1, <1>3, <1>5, <1>7, <1>8, <1>9, <1>10, <1>12, <1>13, <1>14, <1>15,
           <1>16, <1>17, FileFrame

(* The later steps of a publication carry the same things.                  *)
LEMMA PublishMoves ==
    ASSUME PublicationInv, NEW p \in Procs, run[p] # None, run[p].at \in Publishing,
           NEW s \in {"name", "unlink", "sync"}, Go(p, s), UNCHANGED <<marker, chief, holder>>
    PROVE  /\ Others(p) /\ run'[p] # None /\ run'[p].at = s
           /\ run'[p].nonce = run[p].nonce /\ run'[p].ino = run[p].ino
           /\ run'[p].val = run[p].val
           /\ Carries(p)' /\ Placed(p)' /\ (InSection(p)' <=> InSection(p))
<1>1. FileTypes /\ Carries(p) /\ Placed(p) /\ s \in Steps
  BY DEF PublicationInv, Steps
<1>2. /\ Others(p) /\ run'[p] \in Runs /\ run'[p] # None /\ run'[p].at = s
      /\ run'[p].cmd = run[p].cmd /\ run'[p].op = run[p].op
      /\ run'[p].target = run[p].target /\ run'[p].val = run[p].val
      /\ run'[p].nonce = run[p].nonce /\ run'[p].ino = run[p].ino
      /\ run'[p].lock = run[p].lock
  BY <1>1, GoMoves
<1>3. Carries(p)'
  BY <1>1, <1>2 DEF Carries, Publishing, Makes, Makers, AllCommands
<1>4. /\ InSection(p)' <=> InSection(p)
      /\ Makes(p, {"policy"})' <=> Makes(p, {"policy"})
      /\ Makes(p, {"lock"})' <=> Makes(p, {"lock"})
  BY <1>2 DEF InSection, Makes, Publishing, Locked
<1>5. Placed(p)'
  <2>1. PastMarker(p)' => PastMarker(p)
    BY <1>2, <1>4 DEF PastMarker
  <2> QED BY <1>1, <1>2, <1>4, <2>1 DEF Placed, At
<1> QED BY <1>2, <1>3, <1>4, <1>5

LEMMA FillInv ==
    ASSUME PublicationInv, NEW p \in Procs, Fill(p)
    PROVE  PublicationInv'
<1>1. /\ run[p] # None /\ run[p].at = "fill" /\ run[p].at \in Publishing /\ FileTypes
      /\ RecordWhole /\ MarkerFirst /\ Keeps(p) /\ run[p].val \in Values \cup {Fixed}
      /\ run[p].ino \in Inodes
      /\ \A t \in Targets : entry[t] # run[p].ino
      /\ \A q \in Procs \ {p} : run[q] # None => run[q].ino # run[p].ino
  BY DEF Fill, At, PublicationInv, Carries, Publishing, Whole
<1>2. /\ bytes' = [bytes EXCEPT ![run[p].ino] = run[p].val] /\ Go(p, "name")
      /\ UNCHANGED <<entry, temp, marker, chief, holder, left>>
  BY DEF Fill
<1>3. /\ Others(p) /\ run'[p] # None /\ run'[p].at = "name"
      /\ run'[p].nonce = run[p].nonce /\ run'[p].ino = run[p].ino
      /\ run'[p].val = run[p].val
      /\ Carries(p)' /\ Placed(p)' /\ (InSection(p)' <=> InSection(p))
  BY <1>1, <1>2, PublishMoves
<1>4. bytes'[run[p].ino] = run[p].val
  BY <1>1, <1>2 DEF FileTypes
<1>5. FileTypes'
  <2>1. bytes' \in [Inodes -> Values \cup {Fixed, Empty}]
    BY <1>1, <1>2 DEF FileTypes
  <2> QED BY <1>1, <1>2, <1>3, <2>1 DEF FileTypes, Others
<1>6. RecordWhole' /\ MarkerFirst'
  BY <1>1, <1>2 DEF RecordWhole, MarkerFirst, FileTypes, Targets
<1>7. Keeps(p)'
  BY <1>1, <1>2, <1>3 DEF Keeps, Owns, Live
<1>8. Whole(p)'
  BY <1>1, <1>3, <1>4 DEF Whole, At
<1>9. \A q \in Procs \ {p} : run[q] # None /\ run[q].ino \in Inodes =>
          bytes'[run[q].ino] = bytes[run[q].ino]
  BY <1>1, <1>2 DEF FileTypes
<1>10. run'[p].at # "fill marker"
  BY <1>3
<1> QED BY <1>1, <1>2, <1>3, <1>5, <1>6, <1>7, <1>8, <1>9, <1>10, FileFrame

(* A new name for a whole file.                                             *)
LEMMA NameInv ==
    ASSUME PublicationInv, NEW p \in Procs, At(p, "name"), Owns(p),
           entry' = [entry EXCEPT ![run[p].target] = run[p].ino],
           \/ run[p].op = "write" /\ temp' = Unnamed(p) /\ Go(p, "sync")
           \/ entry[run[p].target] = None /\ temp' = temp /\ Go(p, "unlink"),
           UNCHANGED <<bytes, marker, chief, holder, left>>
    PROVE  PublicationInv'
<1>1. /\ run[p] # None /\ run[p].at = "name" /\ run[p].at \in Publishing /\ FileTypes
      /\ RecordWhole /\ MarkerFirst /\ Keeps(p) /\ Placed(p)
      /\ run[p].ino \in Inodes /\ bytes[run[p].ino] = run[p].val
      /\ run[p].target \in Targets
      /\ run[p].op = "write" => run[p].target \in {"policy", "record"}
      /\ run[p].target = "record" => run[p].val \in Values
  BY DEF At, PublicationInv, Carries, Publishing, Whole
<1>2. PICK s \in {"sync", "unlink"} : Go(p, s) /\ (s = "unlink" => temp' = temp)
  OBVIOUS
<1>3. /\ Others(p) /\ run'[p] # None /\ run'[p].at = s
      /\ run'[p].nonce = run[p].nonce /\ run'[p].ino = run[p].ino
      /\ Carries(p)' /\ Placed(p)' /\ (InSection(p)' <=> InSection(p))
  BY <1>1, <1>2, PublishMoves
<1>4. FileTypes'
  <2>1. entry' \in [Targets -> Inodes \cup {None}]
    BY <1>1 DEF FileTypes
  <2>2. temp' \in [Nonces -> Temporaries \cup {None}]
    BY <1>1 DEF FileTypes, Unnamed
  <2> QED BY <1>1, <1>3, <2>1, <2>2 DEF FileTypes, Others
<1>5. \A t \in Targets : entry'[t] = IF t = run[p].target THEN run[p].ino ELSE entry[t]
  BY <1>1 DEF FileTypes
<1>6. RecordWhole'
  BY <1>1, <1>5 DEF RecordWhole, Targets
<1>7. MarkerFirst'
  <2>1. run[p].target # "config" => marker = "whole"
    BY <1>1 DEF Placed, PastMarker, InSection, Makes, Targets
  <2> QED BY <1>1, <1>5, <2>1 DEF MarkerFirst, Targets
<1>8. Keeps(p)'
  BY <1>1, <1>2, <1>3 DEF Keeps, Owns, Live
<1>9. Whole(p)'
  BY <1>3 DEF Whole, At
<1>10. entry["lock"] # None => entry'["lock"] = entry["lock"]
  BY <1>1, <1>5 DEF Targets
<1>11. \A q \in Procs \ {p} : run[q] # None /\ run[q].nonce \in Nonces =>
           temp'[run[q].nonce] = temp[run[q].nonce]
  BY <1>1, UnnamedOthers
<1>12. run'[p].at # "fill marker"
  BY <1>3
<1> QED BY <1>1, <1>3, <1>4, <1>5, <1>6, <1>7, <1>8, <1>9, <1>10, <1>11, <1>12, FileFrame

LEMMA ReplaceInv ==
    ASSUME PublicationInv, NEW p \in Procs, Replace(p)
    PROVE  PublicationInv'
  BY NameInv DEF Replace, Renamed

(* The temporary is unnamed and the file has its one name.                  *)
LEMMA UnnamedInv ==
    ASSUME PublicationInv, NEW p \in Procs, run[p] # None, Owns(p), temp' = Unnamed(p),
           \/ At(p, "unlink") /\ Go(p, "sync")
           \/ At(p, "name") /\ run[p].target = "lock" /\ Go(p, "bind"),
           UNCHANGED <<entry, bytes, marker, chief, holder, left>>
    PROVE  PublicationInv'
<1>1. /\ FileTypes /\ RecordWhole /\ MarkerFirst /\ Carries(p) /\ Placed(p)
      /\ run[p].at \in Publishing
  BY DEF At, PublicationInv, Publishing
<1>2. FileTypes' \/ ~Others(p)
  <2>1. temp' \in [Nonces -> Temporaries \cup {None}]
    BY <1>1 DEF FileTypes, Unnamed
  <2> QED BY <1>1, <2>1 DEF FileTypes, Others
<1>3. RecordWhole' /\ MarkerFirst'
  BY <1>1 DEF RecordWhole, MarkerFirst
<1>4. \A q \in Procs \ {p} : run[q] # None /\ run[q].nonce \in Nonces =>
          temp'[run[q].nonce] = temp[run[q].nonce]
  BY UnnamedOthers
<1>5. CASE At(p, "unlink") /\ Go(p, "sync")
  <2>1. /\ Others(p) /\ run'[p] # None /\ run'[p].at = "sync"
        /\ run'[p].nonce = run[p].nonce /\ run'[p].ino = run[p].ino
        /\ Carries(p)' /\ Placed(p)' /\ (InSection(p)' <=> InSection(p))
    BY <1>1, <1>5, PublishMoves
  <2>2. Keeps(p)' /\ Whole(p)' /\ run'[p].at # "fill marker"
    BY <2>1 DEF Keeps, Whole, At
  <2> QED BY <1>2, <1>3, <1>4, <2>1, <2>2, FileFrame
<1>6. CASE At(p, "name") /\ run[p].target = "lock" /\ Go(p, "bind")
  <2>1. /\ "bind" \in Steps /\ ~InSection(p) /\ marker = "whole"
        /\ run[p].cmd \in {"init", "plan"}
    BY <1>1, <1>6 DEF Steps, InSection, Makes, At, Locked, Publishing, Placed, PastMarker, Carries
  <2>2. /\ Others(p) /\ run'[p] \in Runs /\ run'[p] # None /\ run'[p].at = "bind"
        /\ run'[p].cmd = run[p].cmd /\ run'[p].val = run[p].val
        /\ run'[p].nonce = run[p].nonce /\ run'[p].ino = run[p].ino
    BY <1>1, <1>6, <2>1, GoMoves
  <2>3. Carries(p)'
    BY <1>1, <2>1, <2>2 DEF Carries, Publishing, Makes, Makers, AllCommands
  <2>4. ~InSection(p)' /\ ~Makes(p, {"policy"})'
    BY <2>2 DEF InSection, Makes, Locked, Publishing
  <2>5. Placed(p)' /\ Keeps(p)' /\ Whole(p)' /\ run'[p].at # "fill marker"
    BY <2>1, <2>2, <2>4 DEF Placed, Keeps, Whole, At
  <2> QED BY <1>2, <1>3, <1>4, <2>1, <2>2, <2>3, <2>4, <2>5, FileFrame
<1> QED BY <1>5, <1>6

LEMMA UnlinkInv ==
    ASSUME PublicationInv, NEW p \in Procs, Unlink(p)
    PROVE  PublicationInv'
  BY UnnamedInv DEF Unlink, At

LEMMA LinkInv ==
    ASSUME PublicationInv, NEW p \in Procs, Link(p)
    PROVE  PublicationInv'
<1>1. At(p, "name") /\ run[p] # None /\ Owns(p) /\ UNCHANGED <<bytes, marker, chief, left>>
  BY DEF Link, At
<1>2. CASE entry[run[p].target] = None
  BY <1>1, <1>2, NameInv DEF Link
<1>3. CASE entry[run[p].target] # None /\ run[p].target = "lock"
  BY <1>1, <1>3, UnnamedInv DEF Link
<1>4. CASE entry[run[p].target] # None /\ run[p].target # "lock"
  <2>1. left' \in [runs : Nat, kills : Nat, faults : Nat]
    BY <1>1 DEF PublicationInv, FileTypes
  <2> QED BY <1>1, <1>4, <2>1, EndFrame DEF Link
<1> QED BY <1>2, <1>3, <1>4

LEMMA SyncInv ==
    ASSUME PublicationInv, NEW p \in Procs, Sync(p)
    PROVE  PublicationInv'
<1>1. /\ run[p] # None /\ run[p].at = "sync" /\ Carries(p) /\ Placed(p)
      /\ run[p].target \in Targets
      /\ UNCHANGED <<entry, temp, bytes, marker, chief, holder, left>>
  BY DEF Sync, At, PublicationInv, Carries, Publishing, files
<1>2. CASE run[p].target = "config"
  <2>1. Go(p, "layout") /\ run[p].cmd \in {"init", "plan"} /\ ~InSection(p)
    BY <1>1, <1>2 DEF Sync, AfterPublishing, Carries, Makes, Publishing, InSection, Locked
  <2> QED BY <1>1, <2>1, GoFrame
<1>3. CASE run[p].target = "lock"
  <2>1. Go(p, "bind") /\ marker = "whole" /\ ~InSection(p)
    BY <1>1, <1>3 DEF Sync, AfterPublishing, Placed, PastMarker, Makes, Publishing, InSection, Locked
  <2> QED BY <1>1, <2>1, GoFrame DEF Makers
<1>4. CASE run[p].target \in {"policy", "record"}
  <2>1. Go(p, "leave") /\ marker = "whole" /\ InSection(p)
    BY <1>1, <1>4 DEF Sync, AfterPublishing, Placed, PastMarker, Makes, Publishing, InSection
  <2> QED BY <1>1, <2>1, GoFrame DEF Makers
<1> QED BY <1>1, <1>2, <1>3, <1>4 DEF Targets

-----------------------------------------------------------------------------
(* The theorems *)

LEMMA StepInv == PublicationInv /\ [Next]_vars => PublicationInv'
<1> SUFFICES ASSUME PublicationInv, [Next]_vars PROVE PublicationInv'
  OBVIOUS
<1>1. CASE UNCHANGED vars
  <2>1. UNCHANGED <<entry, temp, bytes, marker, chief, holder, run, left>>
    BY <1>1 DEF vars
  <2>2. FileTypes' /\ OneLock' /\ RecordWhole' /\ MarkerFirst'
    BY <2>1 DEF PublicationInv, FileTypes, OneLock, RecordWhole, MarkerFirst, InSection, Makes
  <2>3. ASSUME NEW p \in Procs
        PROVE  Carries(p)' /\ Placed(p)' /\ Keeps(p)' /\ Whole(p)'
    <3>1. Carries(p) /\ Placed(p) /\ Keeps(p) /\ Whole(p)
      BY DEF PublicationInv
    <3>2. Carries(p)' /\ Placed(p)'
      BY ZenonT(40), <2>1, <3>1 DEF Carries, Placed, InSection, PastMarker, Makes, At
    <3>3. Keeps(p)'
      BY <2>1, <3>1 DEF Keeps, InSection, Makes, Owns, Live
    <3>4. Whole(p)'
      BY <2>1, <3>1 DEF Whole, At
    <3> QED BY <3>2, <3>3, <3>4
  <2>4. \A p \in Procs : \A q \in Procs \ {p} : Distinct(p, q)'
    BY <2>1 DEF PublicationInv, Distinct
  <2> QED BY <2>2, <2>3, <2>4 DEF PublicationInv
<1>2. ASSUME NEW p \in Procs, Start(p) \/ Fault(p) \/ Kill(p) PROVE PublicationInv'
  BY <1>2, StartInv, FaultInv, KillInv
<1>3. ASSUME NEW p \in Procs, Bootstrap(p) PROVE PublicationInv'
  BY <1>3, ConfigureInv, LayoutInv, MarkInv, LockFileInv, CheckLayoutInv, BindInv, EnterInv
     DEF Bootstrap
<1>4. ASSUME NEW p \in Procs, Body(p) PROVE PublicationInv'
  BY <1>4, InitTreeInv, DocumentInv, JudgeTreeInv, GrantInv, ScanInv, RemoveInv, LeaveInv DEF Body
<1>5. ASSUME NEW p \in Procs, Publication(p) PROVE PublicationInv'
  BY <1>5, OpenTemporaryInv, FillInv, ReplaceInv, LinkInv, UnlinkInv, LeaveInv, SyncInv
     DEF Publication
<1>6. ASSUME NEW p \in Procs, Reading(p) PROVE PublicationInv'
  BY <1>6, StatInv, OpenFileInv, LeaveInv DEF Reading
<1> QED BY <1>1, <1>2, <1>3, <1>4, <1>5, <1>6 DEF Next, Step

(* Every behaviour keeps the invariant.                                     *)
LEMMA Invariance == Spec => []PublicationInv
  BY InitInv, StepInv, PTL DEF Spec

LEMMA TypesKept == PublicationInv => TypeOK
<1> SUFFICES ASSUME PublicationInv PROVE TypeOK
  OBVIOUS
<1>1. FileTypes /\ OneLock /\ \A p \in Procs : Carries(p)
  BY DEF PublicationInv
<1>2. \A i \in Inodes : holder[i] # None => run[holder[i]] # None
  BY <1>1 DEF OneLock, InSection, Makes
<1> QED BY <1>1, <1>2 DEF TypeOK, FileTypes, Carries

(* TypeOK: files, the marker, flock and what every process carries keep     *)
(* their types through kills and failing calls.                             *)
THEOREM PublicationTypes == Spec => []TypeOK
  BY TypesKept, Invariance, PTL

(* OneHolder: state_lock excludes although the lock file is made under no   *)
(* lock, by a link that never replaces, and every holder checks the path    *)
(* again after flock.                                                       *)
THEOREM LockExcludes == Spec => []OneHolder
<1>1. PublicationInv => OneHolder
  BY DEF PublicationInv, OneLock, OneHolder
<1> QED BY <1>1, Invariance, PTL

(* MarkerFirst: ensure_layout writes the platform marker before anything is *)
(* locked or published in the tree.                                         *)
THEOREM MarkerComesFirst == Spec => []MarkerFirst
<1>1. PublicationInv => MarkerFirst
  BY DEF PublicationInv
<1> QED BY <1>1, Invariance, PTL

LEMMA WriterKept == PublicationInv => WriterKeepsTemporary
<1> SUFFICES ASSUME PublicationInv, NEW p \in Procs,
                    At(p, "fill") \/ At(p, "name") \/ At(p, "unlink"),
                    NEW i \in Inodes, holder[i] = p
             PROVE  Owns(p)
  BY DEF WriterKeepsTemporary
<1>1. InSection(p) /\ Keeps(p)
  BY PublicationAssumption DEF PublicationInv, OneLock
<1> QED BY <1>1 DEF Keeps, At

(* WriterKeepsTemporary: recover-temporaries never removes the temporary of *)
(* a writer that holds the lock.                                            *)
THEOREM WritersKeepTemporaries == Spec => []WriterKeepsTemporary
  BY WriterKept, Invariance, PTL

-----------------------------------------------------------------------------
(* What a step may change *)

Acts(p) == Start(p) \/ Step(p) \/ Fault(p) \/ Kill(p)

(* A name is given to the file a process has just filled, and only so; its  *)
(* temporary stays only beside a name that was created.                     *)
LEMMA NamesChange ==
    ASSUME NEW p \in Procs, Acts(p)
    PROVE  \/ entry' = entry
           \/ /\ At(p, "name") /\ entry' = [entry EXCEPT ![run[p].target] = run[p].ino]
              /\ bytes' = bytes /\ (Go(p, "sync") \/ Go(p, "unlink"))
              /\ Owns(p)
              /\ temp' = Unnamed(p) \/ (temp' = temp /\ run[p].op = "create")
<1>1. CASE Start(p) \/ Fault(p) \/ Kill(p)
  BY <1>1 DEF Start, Fault, Kill, files
<1>2. CASE Bootstrap(p)
  BY <1>2 DEF Bootstrap, Configure, Layout, Mark, FillMarker, Relayout, LockFile, CheckLayout,
              Bind, Enter, EndAsIs, files
<1>3. CASE Body(p)
  BY <1>3 DEF Body, InitTree, Plan, Document, JudgeTree, Grant, Scan, Remove, Removed, Leave,
              EndAsIs, files
<1>4. CASE Publication(p)
  BY <1>4 DEF Publication, OpenTemporary, Fill, Replace, Link, Unlink, Robbed, Sync, Renamed,
              EndAsIs, files
<1>5. CASE Reading(p)
  BY <1>5 DEF Reading, Stat, OpenFile, Return, EndAsIs, files
<1> QED BY <1>1, <1>2, <1>3, <1>4, <1>5 DEF Acts, Step

(* InitYieldsToChief: the policy is published only by an init that found no *)
(* Chief under the lock it still holds.                                     *)
THEOREM InitYields == Spec => InitYieldsToChief
<1>1. PublicationInv /\ [Next]_vars => [entry'["policy"] # entry["policy"] => ~chief]_vars
  <2> SUFFICES ASSUME PublicationInv, NEW p \in Procs, Acts(p), entry'["policy"] # entry["policy"]
               PROVE  ~chief
    BY DEF Next, Acts, vars
  <2>1. At(p, "name") /\ entry' = [entry EXCEPT ![run[p].target] = run[p].ino]
    BY NamesChange
  <2>2. run[p].target = "policy"
    BY <2>1 DEF PublicationInv, FileTypes, Targets
  <2>3. Makes(p, {"policy"}) /\ Placed(p)
    BY <2>1, <2>2 DEF Makes, At, Publishing, PublicationInv
  <2> QED BY <2>3 DEF Placed
<1> QED BY <1>1, Invariance, PTL DEF Spec, InitYieldsToChief

-----------------------------------------------------------------------------
(* The refinement of PublishedFile *)

(* A file with a name and a file that is being read keep their bytes.       *)
LEMMA BytesKept ==
    ASSUME PublicationInv, NEW p \in Procs, Acts(p)
    PROVE  /\ \A q \in Procs : At(q, "return") => bytes'[run[q].ino] = bytes[run[q].ino]
           /\ entry["record"] # None => bytes'[entry["record"]] = bytes[entry["record"]]
<1>1. FileTypes /\ "record" \in Targets /\ Whole(p) /\ \A q \in Procs : Whole(q)
  BY DEF PublicationInv, Targets
<1>2. CASE bytes' = bytes
  BY <1>2
<1>3. CASE Fill(p)
  <2>1. /\ At(p, "fill") /\ bytes' = [bytes EXCEPT ![run[p].ino] = run[p].val]
        /\ run[p].ino \in Inodes /\ entry["record"] # run[p].ino
        /\ \A q \in Procs \ {p} : run[q] # None => run[q].ino # run[p].ino
    BY <1>1, <1>3 DEF Fill, Whole
  <2>2. ASSUME NEW q \in Procs, At(q, "return")
        PROVE  run[q].ino \in Inodes /\ run[q].ino # run[p].ino
    BY <1>1, <2>1, <2>2 DEF At, Whole
  <2> QED BY <1>1, <2>1, <2>2 DEF FileTypes
<1>4. CASE OpenTemporary(p)
  <2>1. PICK i : i = Least(Inodes \ UsedInodes)
    OBVIOUS
  <2>2. /\ bytes' = [bytes EXCEPT ![i] = Empty] /\ i \in Inodes /\ entry["record"] # i
        /\ \A q \in Procs : run[q] # None => run[q].ino # i
    BY <1>1, <1>4, <2>1, Unused DEF OpenTemporary
  <2>3. ASSUME NEW q \in Procs, At(q, "return")
        PROVE  run[q].ino \in Inodes /\ run[q].ino # i
    BY <1>1, <2>2, <2>3 DEF At, Whole
  <2> QED BY <1>1, <2>2, <2>3 DEF FileTypes
<1>5. bytes' = bytes \/ Fill(p) \/ OpenTemporary(p)
  <2>1. CASE Start(p) \/ Fault(p) \/ Kill(p)
    BY <2>1 DEF Start, Fault, Kill, files
  <2>2. CASE Bootstrap(p)
    BY <2>2 DEF Bootstrap, Configure, Layout, Mark, FillMarker, Relayout, LockFile, CheckLayout,
                Bind, Enter, EndAsIs, files
  <2>3. CASE Body(p)
    BY <2>3 DEF Body, InitTree, Plan, Document, JudgeTree, Grant, Scan, Remove, Removed, Leave,
                EndAsIs, files
  <2>4. CASE Publication(p)
    BY <2>4 DEF Publication, Replace, Link, Unlink, Robbed, Sync, EndAsIs, files
  <2>5. CASE Reading(p)
    BY <2>5 DEF Reading, Stat, OpenFile, Return, EndAsIs, files
  <2> QED BY <2>1, <2>2, <2>3, <2>4, <2>5 DEF Acts, Step
<1> QED BY <1>2, <1>3, <1>4, <1>5

(* The steps of a writer that has a temporary.                              *)
Writing == {"fill", "name", "unlink"}

(* A command takes up an inode only where it has found it published.        *)
Calm(p) ==
    run'[p] # None =>
        /\ run'[p].at \notin Writing
        /\ \/ run'[p].ino = None
           \/ run[p] # None /\ run'[p].ino = run[p].ino
           \/ \E t \in Targets : entry[t] = run'[p].ino

GoesOn(p) ==
    /\ run[p] # None /\ run[p].at \in {"fill", "name"}
    /\ run'[p] # None /\ run'[p].at \in {"name", "unlink"}
    /\ run'[p].op = run[p].op /\ run'[p].target = run[p].target
    /\ run'[p].nonce = run[p].nonce /\ run'[p].ino = run[p].ino

LEMMA GoesElsewhere ==
    ASSUME PublicationInv, NEW p \in Procs, run[p] # None,
           NEW s \in Steps \ ({"return"} \cup Writing), Go(p, s)
    PROVE  Others(p) /\ ~At(p, "return")' /\ Calm(p)
<1>1. FileTypes /\ Carries(p)
  BY DEF PublicationInv
<1> QED BY <1>1, GoMoves DEF At, Calm

LEMMA WriterGoesOn ==
    ASSUME PublicationInv, NEW p \in Procs, run[p] # None, run[p].at \in {"fill", "name"},
           NEW s \in {"name", "unlink"}, Go(p, s)
    PROVE  Others(p) /\ ~At(p, "return")' /\ GoesOn(p)
<1>1. FileTypes /\ Carries(p) /\ s \in Steps
  BY DEF PublicationInv, Steps
<1> QED BY <1>1, GoMoves DEF At, GoesOn

LEMMA EndsOthers ==
    ASSUME PublicationInv, NEW p \in Procs, End(p)
    PROVE  Others(p) /\ ~At(p, "return")' /\ Calm(p)
  BY DEF PublicationInv, FileTypes, End, Others, At, Calm

LEMMA StartsOthers ==
    ASSUME PublicationInv, NEW p \in Procs, run[p] # None, NEW op, NEW t, NEW v,
           StartPublishing(p, op, t, v)
    PROVE  Others(p) /\ ~At(p, "return")' /\ Calm(p)
<1>1. FileTypes /\ run[p] \in Runs
  BY DEF PublicationInv, Carries
<1>2. /\ run'[p] = [run[p] EXCEPT !.at = "open", !.op = op, !.target = t, !.val = v]
      /\ Others(p)
  BY <1>1 DEF StartPublishing, FileTypes, Others
<1>3. run'[p].at = "open" /\ run'[p].ino = run[p].ino
  BY <1>1, <1>2 DEF Runs
<1> QED BY <1>2, <1>3 DEF At, Calm, Writing

(* Only the successful open of the record puts something in a reader's      *)
(* hands, and only a writer that opens a temporary takes up a new inode.    *)
LEMMA ProcessMoves ==
    ASSUME PublicationInv, NEW p \in Procs, Acts(p)
    PROVE  /\ Others(p)
           /\ ~At(p, "return")' \/ OpenFile(p)
           /\ Calm(p) \/ GoesOn(p) \/ OpenTemporary(p)
<1>1. FileTypes /\ (run[p] # None => run[p] \in Runs /\ Carries(p))
  BY DEF PublicationInv, Carries
<1>2. {"mark", "relayout", "fill marker", "lock file", "bind", "leave", "sync", "layout"}
          \subseteq Steps \ ({"return"} \cup Writing)
  BY DEF Steps, AllCommands, Writing
<1>3. CASE Start(p)
  BY <1>1, <1>3, StartMoves DEF At, Calm, Writing
<1>4. CASE Fault(p) \/ Kill(p)
  BY <1>4, EndsOthers DEF Fault, Kill
<1>5. CASE Configure(p) \/ LockFile(p) \/ InitTree(p) \/ Document(p)
  BY <1>2, <1>5, EndsOthers, StartsOthers, GoesElsewhere
     DEF Configure, LockFile, InitTree, Document, EndAsIs, At
<1>6. CASE Layout(p) \/ Mark(p) \/ FillMarker(p) \/ Relayout(p) \/ CheckLayout(p)
  BY <1>2, <1>6, EndsOthers, GoesElsewhere
     DEF Layout, Mark, FillMarker, Relayout, CheckLayout, EndAsIs, At
<1>7. CASE Bind(p)
  <2>1. CASE EndAsIs(p)
    BY <2>1, EndsOthers DEF EndAsIs
  <2>2. CASE ~EndAsIs(p)
    <3>1. Others(p) /\ run'[p] = [run[p] EXCEPT !.lock = entry["lock"], !.at = "wait",
                            !.op = None, !.target = None, !.nonce = None, !.ino = None]
      BY <1>1, <1>7, <2>2 DEF Bind, At, FileTypes, Others
    <3>2. run'[p].at = "wait" /\ run'[p].ino = None
      BY <1>1, <1>7, <3>1 DEF Bind, At, Runs
    <3> QED BY <3>1, <3>2 DEF At, Calm, Writing
  <2> QED BY <2>1, <2>2
<1>8. CASE Enter(p)
  <2>1. run[p] # None /\ run[p].cmd \in AllCommands \cup {"grant"}
    BY <1>1, <1>8 DEF Enter, At, Runs
  <2>2. run[p].cmd \in Steps \ ({"return"} \cup Writing)
    BY <2>1 DEF Steps, AllCommands, Writing
  <2> QED BY <1>8, <2>1, <2>2, EndsOthers, GoesElsewhere DEF Enter, EndAsIs
<1>9. CASE JudgeTree(p)
  <2>1. CASE EndAsIs(p)
    BY <2>1, EndsOthers DEF EndAsIs
  <2>2. CASE ~EndAsIs(p)
    <3>1. Others(p) /\ run'[p] = [run[p] EXCEPT !.cmd = "grant", !.at = "preflight", !.lock = None]
      BY <1>1, <1>9, <2>2 DEF JudgeTree, At, FileTypes, Others
    <3>2. run'[p].at = "preflight" /\ run'[p].ino = run[p].ino /\ run[p] # None
      BY <1>1, <1>9, <3>1 DEF JudgeTree, At, Runs
    <3> QED BY <3>1, <3>2 DEF At, Calm, Writing
  <2> QED BY <2>1, <2>2
<1>10. CASE Scan(p)
  <2>1. CASE EndAsIs(p)
    BY <2>1, EndsOthers DEF EndAsIs
  <2>2. CASE ~EndAsIs(p)
    <3>1. PICK S : S = {Snapshot(n) : n \in Residue}
      OBVIOUS
    <3>2. run' = [run EXCEPT ![p].at = "remove", ![p].todo = S] /\ run[p] # None
      BY <1>10, <2>2, <3>1 DEF Scan, At
    <3>3. Others(p) /\ run'[p] = [run[p] EXCEPT !.at = "remove", !.todo = S]
      BY <1>1, <3>2 DEF FileTypes, Others
    <3>4. run'[p].at = "remove" /\ run'[p].ino = run[p].ino
      BY ZenonT(40), <1>1, <3>2, <3>3 DEF Runs
    <3> QED BY <3>2, <3>3, <3>4 DEF At, Calm, Writing
  <2> QED BY <2>1, <2>2
<1>11. CASE Remove(p)
  <2>1. CASE EndAsIs(p)
    BY <2>1, EndsOthers DEF EndAsIs
  <2>2. CASE ~EndAsIs(p)
    <3>1. PICK x : run' = [run EXCEPT ![p].todo = @ \ {x}]
      BY <1>11, <2>2 DEF Remove
    <3>2. Others(p) /\ run'[p] = [run[p] EXCEPT !.todo = @ \ {x}] /\ run[p] # None
          /\ run[p].at = "remove"
      BY <1>1, <1>11, <3>1 DEF FileTypes, Others, Remove, At
    <3>3. run'[p].at = "remove" /\ run'[p].ino = run[p].ino
      BY <1>1, <3>2 DEF Runs
    <3> QED BY <3>2, <3>3 DEF At, Calm, Writing
  <2> QED BY <2>1, <2>2
<1>12. CASE Plan(p) \/ Grant(p) \/ Removed(p) \/ Leave(p) \/ Robbed(p) \/ Return(p)
  BY <1>12, EndsOthers DEF Plan, Grant, Removed, Leave, Robbed, Return, EndAsIs
<1>13. CASE OpenTemporary(p)
  <2>1. PICK n, i : run' = [run EXCEPT ![p].nonce = n, ![p].ino = i, ![p].at = "fill"]
    BY <1>13 DEF OpenTemporary
  <2>2. Others(p) /\ run'[p] = [run[p] EXCEPT !.nonce = n, !.ino = i, !.at = "fill"] /\ run[p] # None
    BY <1>1, <1>13, <2>1 DEF FileTypes, Others, OpenTemporary, At
  <2>3. run'[p].at = "fill"
    BY <1>1, <2>2 DEF Runs
  <2> QED BY <1>13, <2>2, <2>3 DEF At
<1>14. CASE Fill(p) \/ Replace(p) \/ Link(p) \/ Unlink(p)
  BY <1>2, <1>14, EndsOthers, GoesElsewhere, WriterGoesOn
     DEF Fill, Replace, Renamed, Link, Unlink, At
<1>15. CASE Sync(p)
  BY <1>2, <1>15, GoesElsewhere DEF Sync, AfterPublishing, At
<1>16. CASE Stat(p)
  <2>1. CASE EndAsIs(p)
    BY <2>1, EndsOthers DEF EndAsIs
  <2>2. CASE ~EndAsIs(p)
    <3>1. Others(p) /\ run'[p] = [run[p] EXCEPT !.ino = entry["record"], !.at = "open file"]
          /\ run[p] # None
      BY <1>1, <1>16, <2>2 DEF Stat, At, FileTypes, Others
    <3>2. run'[p].at = "open file" /\ run'[p].ino = entry["record"] /\ "record" \in Targets
      BY <1>1, <3>1 DEF Runs, Targets
    <3> QED BY <3>1, <3>2 DEF At, Calm, Writing
  <2> QED BY <2>1, <2>2
<1>17. CASE OpenFile(p)
  <2>1. "return" \in Steps /\ "return" \notin Writing
    BY DEF Steps, Writing
  <2> QED BY <1>1, <1>17, <2>1, EndsOthers, GoMoves DEF OpenFile, EndAsIs, At, Calm
<1> QED BY <1>3, <1>4, <1>5, <1>6, <1>7, <1>8, <1>9, <1>10, <1>11, <1>12, <1>13, <1>14, <1>15,
           <1>16, <1>17 DEF Acts, Step, Bootstrap, Body, Publication, Reading

(* A reader with the record in its hands does nothing but hand it on.       *)
LEMMA ReturningOnly ==
    ASSUME NEW p \in Procs, Acts(p), At(p, "return")
    PROVE  entry' = entry /\ bytes' = bytes /\ ~OpenFile(p)
<1>1. Return(p) \/ Kill(p)
  BY DEF Acts, Start, Step, Fault, Bootstrap, Configure, Layout, Mark, FillMarker, Relayout,
         LockFile, CheckLayout, Bind, Enter, Body, InitTree, Plan, Document, JudgeTree, Grant,
         Scan, Remove, Removed, Leave, Publication, OpenTemporary, Fill, Replace, Link, Unlink,
         Robbed, Sync, Reading, Stat, OpenFile, At
<1>2. ~OpenFile(p)
  BY DEF OpenFile, At
<1> QED BY <1>1, <1>2 DEF Return, Kill, EndAsIs, files

Value == IF entry["record"] = None THEN None ELSE bytes[entry["record"]]
Seen == [p \in Procs |-> IF At(p, "return") THEN bytes[run[p].ino] ELSE None]

(* What one step does to the published record and to the readers.           *)
LEMMA StepMaps ==
    ASSUME PublicationInv, PublicationInv', NEW p \in Procs, Acts(p)
    PROVE  \/ (Value' = Value \/ Value' \in Values) /\ Seen' = Seen
           \/ /\ Seen[p] = None /\ Value # None /\ Value' = Value
              /\ Seen' = [Seen EXCEPT ![p] = Value]
           \/ Seen[p] # None /\ Value' = Value /\ Seen' = [Seen EXCEPT ![p] = None]
<1>1. Others(p) /\ (~At(p, "return")' \/ OpenFile(p))
  BY ProcessMoves
<1>2. /\ \A q \in Procs : At(q, "return") => bytes'[run[q].ino] = bytes[run[q].ino]
      /\ entry["record"] # None => bytes'[entry["record"]] = bytes[entry["record"]]
  BY BytesKept
<1>3. \A q \in Procs \ {p} : Seen'[q] = Seen[q]
  BY <1>1, <1>2 DEF Others, Seen, At
<1>4. RecordWhole' /\ None \notin Values
  BY PublicationAssumption DEF PublicationInv
<1>5. Value' = Value \/ Value' \in Values
  <2>1. CASE entry'["record"] = entry["record"]
    BY <1>2, <2>1 DEF Value
  <2>2. CASE entry'["record"] # entry["record"]
    <3>1. At(p, "name") /\ entry' = [entry EXCEPT ![run[p].target] = run[p].ino]
      BY <2>2, NamesChange
    <3>2. entry'["record"] = run[p].ino /\ run[p].ino \in Inodes
      BY <2>2, <3>1 DEF PublicationInv, FileTypes, Targets, Whole
    <3>3. entry'["record"] # None
      BY <3>2, PublicationAssumption
    <3> QED BY <1>4, <3>3 DEF RecordWhole, Value
  <2> QED BY <2>1, <2>2
<1>6. CASE ~At(p, "return") /\ ~At(p, "return")'
  <2>1. Seen'[p] = Seen[p]
    BY <1>6 DEF Seen
  <2>2. Seen' = Seen
    BY <1>3, <2>1 DEF Seen
  <2> QED BY <1>5, <2>2
<1>7. CASE ~At(p, "return") /\ At(p, "return")'
  <2>1. OpenFile(p) /\ ~EndAsIs(p)
    BY <1>1, <1>7, EndsOthers DEF EndAsIs
  <2>2. /\ Private("record") /\ entry["record"] = run[p].ino /\ Go(p, "return")
        /\ entry' = entry /\ bytes' = bytes
    BY <2>1 DEF OpenFile, files
  <2>3. "return" \in Steps /\ FileTypes /\ Carries(p) /\ run[p] # None /\ RecordWhole
    BY <2>1 DEF Steps, PublicationInv, OpenFile, At
  <2>4. run'[p].ino = run[p].ino
    BY <2>2, <2>3, GoMoves
  <2>5. Value = bytes[run[p].ino] /\ Value \in Values /\ Value' = Value
    BY <2>2, <2>3 DEF Value, Private, RecordWhole
  <2>6. Seen[p] = None /\ Seen'[p] = Value
    BY <1>7, <2>2, <2>4, <2>5 DEF Seen
  <2>7. Seen' = [Seen EXCEPT ![p] = Value]
    BY <1>3, <2>6 DEF Seen
  <2> QED BY <1>4, <2>5, <2>6, <2>7
<1>8. CASE At(p, "return")
  <2>1. entry' = entry /\ bytes' = bytes /\ ~At(p, "return")'
    BY <1>1, <1>8, ReturningOnly
  <2>2. Value' = Value
    BY <2>1 DEF Value
  <2>3. Seen[p] \in Values /\ Seen'[p] = None
    BY <1>8, <2>1 DEF Seen, PublicationInv, Whole
  <2>4. Seen' = [Seen EXCEPT ![p] = None]
    BY <1>3, <2>3 DEF Seen
  <2> QED BY <1>4, <2>2, <2>3, <2>4
<1> QED BY <1>6, <1>7, <1>8

LEMMA FileStarts == Init => File!Init
  BY DEF Init, File!Init, At, Targets

LEMMA FileSteps ==
    PublicationInv /\ PublicationInv' /\ [Next]_vars => [File!Next]_File!vars
<1> SUFFICES ASSUME PublicationInv, PublicationInv', [Next]_vars
             PROVE  File!Next \/ UNCHANGED <<Value, Seen>>
  BY DEF File!vars, Value, Seen
<1>1. CASE UNCHANGED vars
  BY <1>1 DEF vars, Value, Seen, At
<1>2. ASSUME NEW p \in Procs, Acts(p)
      PROVE  File!Next \/ UNCHANGED <<Value, Seen>>
  <2>1. CASE Value' = Value /\ Seen' = Seen
    BY <2>1
  <2>2. CASE Value' \in Values /\ Seen' = Seen
    BY <2>2 DEF File!Next, File!Publish, Value, Seen
  <2>3. CASE /\ Seen[p] = None /\ Value # None /\ Value' = Value
             /\ Seen' = [Seen EXCEPT ![p] = Value]
    <3>1. File!Look(p)
      BY <2>3 DEF File!Look, Value, Seen
    <3> QED BY <3>1 DEF File!Next
  <2>4. CASE Seen[p] # None /\ Value' = Value /\ Seen' = [Seen EXCEPT ![p] = None]
    <3>1. File!Return(p)
      BY <2>4 DEF File!Return, Value, Seen
    <3> QED BY <3>1 DEF File!Next
  <2> QED BY <1>2, <2>1, <2>2, <2>3, <2>4, StepMaps
<1> QED BY <1>1, <1>2 DEF Next, Acts

(* ImplementsFile: readers that take no lock see nothing or the complete    *)
(* bytes of one publication, the ones current when they opened the file.    *)
THEOREM ReadersSeeWholeFiles == Spec => ImplementsFile
  BY FileStarts, FileSteps, Invariance, PTL DEF Spec, ImplementsFile, File!Spec

-----------------------------------------------------------------------------
(* What a killed or failing writer leaves behind *)

(* A file has one name and one temporary at most, and both only while the   *)
(* second name of a creation is being removed.                              *)
NamesApart ==
    /\ \A t, u \in Targets : entry[t] # None /\ entry[t] = entry[u] => t = u
    /\ \A m, n \in Nonces : Live(m) /\ Live(n) /\ temp[m].ino = temp[n].ino => m = n
    /\ \A n \in Nonces, t \in Targets :
           Live(n) /\ entry[t] = temp[n].ino => temp[n].op = "create" /\ temp[n].target = t

(* A writer's temporary, as long as it is there, is what the writer thinks. *)
Fits(p) ==
    run[p] # None /\ run[p].at \in Writing =>
        /\ run[p].nonce \in Nonces
        /\ Live(run[p].nonce) =>
               temp[run[p].nonce] = [op |-> run[p].op, target |-> run[p].target,
                                     ino |-> run[p].ino]

(* A file that has no name yet is known to its writer alone.                *)
Unborn(p) ==
    run[p] # None /\ run[p].at \in {"fill", "name"} =>
        /\ run[p].ino \in Inodes
        /\ \A t \in Targets : entry[t] # run[p].ino
        /\ \A q \in Procs \ {p} : run[q] # None => run[q].ino # run[p].ino

ResidueInv == NamesApart /\ \A p \in Procs : Fits(p) /\ Unborn(p)

LEMMA TemporaryLinks ==
    ASSUME FileTypes, NamesApart, NEW n \in Nonces, Live(n)
    PROVE  /\ entry[temp[n].target] = temp[n].ino => Links(temp[n].ino) = 2
           /\ entry[temp[n].target] # temp[n].ino => Links(temp[n].ino) = 1
<1> DEFINE i == temp[n].ino
           N == {t \in Targets : entry[t] = i}
           T == {m \in Nonces : Live(m) /\ temp[m].ino = i}
<1>1. temp[n].target \in Targets
  BY DEF FileTypes, Live, Temporaries
<1>2. T = {n}
  BY DEF NamesApart
<1>3. entry[temp[n].target] = i => N = {temp[n].target}
  BY <1>1 DEF NamesApart
<1>4. entry[temp[n].target] # i => N = {}
  BY DEF NamesApart
<1>5. Links(i) = Cardinality(N) + Cardinality(T)
  BY DEF Links
<1> HIDE DEF N, T
<1>6. /\ Cardinality(T) = 1
      /\ entry[temp[n].target] = i => Cardinality(N) = 1
      /\ entry[temp[n].target] # i => Cardinality(N) = 0
  BY <1>2, <1>3, <1>4, FS_Singleton, FS_EmptySet
<1> QED BY <1>5, <1>6

LEMMA LoneLinks ==
    ASSUME NamesApart, NEW t \in Targets, entry[t] # None,
           \A n \in Nonces : Live(n) => temp[n].ino # entry[t]
    PROVE  Links(entry[t]) = 1
<1> DEFINE N == {u \in Targets : entry[u] = entry[t]}
           T == {m \in Nonces : Live(m) /\ temp[m].ino = entry[t]}
<1>1. N = {t} /\ T = {}
  BY DEF NamesApart
<1>2. Links(entry[t]) = Cardinality(N) + Cardinality(T)
  BY DEF Links
<1> HIDE DEF N, T
<1>3. Cardinality(N) = 1 /\ Cardinality(T) = 0
  BY <1>1, FS_Singleton, FS_EmptySet
<1> QED BY <1>2, <1>3

(* A temporary appears only when a writer opens one.                        *)
LEMMA TemporariesVanish ==
    ASSUME FileTypes, NEW p \in Procs, Acts(p), ~OpenTemporary(p)
    PROVE  \A n \in Nonces : temp'[n] = temp[n] \/ temp'[n] = None
<1>1. CASE temp' = temp
  BY <1>1
<1>2. CASE temp' = Unnamed(p)
  BY <1>2 DEF Unnamed, FileTypes
<1>3. CASE Remove(p) /\ ~EndAsIs(p)
  <2>1. PICK x : temp' = [temp EXCEPT ![x.nonce] = None]
    BY <1>3 DEF Remove
  <2> QED BY <2>1 DEF FileTypes
<1>4. temp' = temp \/ temp' = Unnamed(p) \/ (Remove(p) /\ ~EndAsIs(p))
  <2>1. CASE Start(p) \/ Fault(p) \/ Kill(p)
    BY <2>1 DEF Start, Fault, Kill, files
  <2>2. CASE Bootstrap(p)
    BY <2>2 DEF Bootstrap, Configure, Layout, Mark, FillMarker, Relayout, LockFile, CheckLayout,
                Bind, Enter, EndAsIs, files
  <2>3. CASE Body(p)
    BY <2>3 DEF Body, InitTree, Plan, Document, JudgeTree, Grant, Scan, Removed, Leave,
                EndAsIs, files
  <2>4. CASE Publication(p)
    BY <2>4 DEF Publication, Fill, Replace, Renamed, Link, Unlink, Robbed, Sync, EndAsIs, files
  <2>5. CASE Reading(p)
    BY <2>5 DEF Reading, Stat, OpenFile, Return, EndAsIs, files
  <2> QED BY <2>1, <2>2, <2>3, <2>4, <2>5 DEF Acts, Step
<1> QED BY <1>1, <1>2, <1>3, <1>4

(* A writer opens a temporary: its inode is nobody's.                       *)
LEMMA OpenResidue ==
    ASSUME PublicationInv, ResidueInv, NEW p \in Procs, OpenTemporary(p)
    PROVE  ResidueInv'
<1>1. /\ run[p] # None /\ run[p] \in Runs /\ FileTypes /\ Others(p)
      /\ run[p].op \in {"create", "write"} /\ run[p].target \in Targets
      /\ None \notin Inodes /\ None \notin Nonces
  <2>1. Carries(p) /\ At(p, "open") /\ Acts(p)
    BY DEF PublicationInv, OpenTemporary, Acts, Step, Publication
  <2> QED BY <2>1, ProcessMoves, PublicationAssumption DEF PublicationInv, Carries, At, Publishing
<1>2. PICK n, i : n = Least(Nonces \ UsedNonces) /\ i = Least(Inodes \ UsedInodes)
  OBVIOUS
<1>3. PICK x : x = [op |-> run[p].op, target |-> run[p].target, ino |-> i]
  OBVIOUS
<1>4. /\ temp' = [temp EXCEPT ![n] = x]
      /\ run' = [run EXCEPT ![p].nonce = n, ![p].ino = i, ![p].at = "fill"]
      /\ UNCHANGED entry
  BY <1>2, <1>3 DEF OpenTemporary
<1>5. /\ i \in Inodes /\ n \in Nonces
      /\ \A t \in Targets : entry[t] # i
      /\ \A m \in Nonces : Live(m) => temp[m].ino # i
      /\ \A q \in Procs : run[q] # None => run[q].ino # i /\ run[q].nonce # n
  BY <1>1, <1>2, Unused DEF OpenTemporary
<1>6. x \in Temporaries /\ x # None /\ x.ino = i
  BY <1>1, <1>3, <1>5, NullAssumption DEF Temporaries
<1>7. temp'[n] = x /\ \A m \in Nonces \ {n} : temp'[m] = temp[m]
  BY <1>1, <1>4, <1>5 DEF FileTypes
<1>8. /\ run'[p].at = "fill" /\ run'[p].nonce = n /\ run'[p].ino = i
      /\ run'[p].op = run[p].op /\ run'[p].target = run[p].target
  <2>1. run'[p] = [run[p] EXCEPT !.nonce = n, !.ino = i, !.at = "fill"]
    BY <1>1, <1>4 DEF FileTypes
  <2> QED BY <1>1, <2>1 DEF Runs
<1>9. NamesApart'
  <2>1. NamesApart
    BY DEF ResidueInv
  <2>2. \A t \in Targets : entry'[t] # i
    BY <1>4, <1>5
  <2>3. ASSUME NEW m \in Nonces, NEW k \in Nonces, Live(m)', Live(k)',
               temp'[m].ino = temp'[k].ino
        PROVE  m = k
    BY <1>5, <1>6, <1>7, <2>1, <2>3 DEF NamesApart, Live
  <2>4. ASSUME NEW m \in Nonces, NEW t \in Targets, Live(m)', entry'[t] = temp'[m].ino
        PROVE  temp'[m].op = "create" /\ temp'[m].target = t
    BY <1>4, <1>6, <1>7, <2>1, <2>2, <2>4 DEF NamesApart, Live
  <2>5. \A t, u \in Targets : entry'[t] # None /\ entry'[t] = entry'[u] => t = u
    BY <1>4, <2>1 DEF NamesApart
  <2> QED BY <2>3, <2>4, <2>5 DEF NamesApart
<1>10. Fits(p)' /\ Unborn(p)'
  <2>1. \A q \in Procs \ {p} : run'[q] # None => run'[q].ino # i
    BY <1>1, <1>5 DEF Others
  <2>2. Fits(p)'
    BY <1>3, <1>5, <1>7, <1>8 DEF Fits
  <2> QED BY <1>4, <1>5, <1>8, <2>1, <2>2 DEF Unborn
<1>11. ASSUME NEW q \in Procs \ {p}
       PROVE  Fits(q)' /\ Unborn(q)'
  <2>1. run'[q] = run[q] /\ Fits(q) /\ Unborn(q)
    BY <1>1 DEF Others, ResidueInv
  <2>2. run[q] # None => run[q].nonce # n /\ run[q].ino # i
    BY <1>5
  <2>3. Fits(q)'
    BY <1>7, <2>1, <2>2 DEF Fits, Live
  <2>4. \A r \in Procs \ {p} : run'[r] = run[r]
    BY <1>1 DEF Others
  <2>5. Unborn(q)'
    BY <1>4, <1>8, <2>1, <2>2, <2>4 DEF Unborn
  <2> QED BY <2>3, <2>5
<1> QED BY <1>9, <1>10, <1>11 DEF ResidueInv

(* What every other step leaves of the temporaries and of the names.        *)
LEMMA NamesStayApart ==
    ASSUME PublicationInv, ResidueInv, NEW p \in Procs, Acts(p), ~OpenTemporary(p)
    PROVE  NamesApart'
<1>1. NamesApart /\ Fits(p) /\ Unborn(p) /\ FileTypes /\ None \notin Inodes
  BY PublicationAssumption DEF ResidueInv, PublicationInv
<1>2. \A n \in Nonces : Live(n)' => Live(n) /\ temp'[n] = temp[n]
  BY <1>1, TemporariesVanish DEF Live
<1>3. CASE entry' = entry
  BY <1>1, <1>2, <1>3 DEF NamesApart
<1>4. CASE entry' # entry
  <2>1. /\ run[p] # None /\ run[p].at = "name" /\ Owns(p)
        /\ entry' = [entry EXCEPT ![run[p].target] = run[p].ino]
        /\ temp' = Unnamed(p) \/ (temp' = temp /\ run[p].op = "create")
    BY <1>4, NamesChange DEF At
  <2>2. /\ run[p].nonce \in Nonces /\ Live(run[p].nonce)
        /\ temp[run[p].nonce].op = run[p].op /\ temp[run[p].nonce].target = run[p].target
        /\ temp[run[p].nonce].ino = run[p].ino
    BY <1>1, <2>1 DEF Fits, Writing, Owns
  <2>3. /\ run[p].ino \in Inodes
        /\ \A t \in Targets : entry[t] # run[p].ino
        /\ \A n \in Nonces : Live(n) /\ temp[n].ino = run[p].ino => n = run[p].nonce
    BY <1>1, <2>1, <2>2 DEF Unborn, NamesApart
  <2>4. run[p].target \in Targets
    BY <1>1, <2>2 DEF FileTypes, Live, Temporaries
  <2>5. /\ entry'[run[p].target] = run[p].ino
        /\ \A t \in Targets \ {run[p].target} : entry'[t] = entry[t]
    BY <1>1, <2>1, <2>4 DEF FileTypes
  <2>6. \A t, u \in Targets : entry'[t] # None /\ entry'[t] = entry'[u] => t = u
    BY <1>1, <2>3, <2>5 DEF NamesApart
  <2>7. \A m, n \in Nonces : Live(m)' /\ Live(n)' /\ temp'[m].ino = temp'[n].ino => m = n
    BY <1>1, <1>2 DEF NamesApart
  <2>8. ASSUME NEW n \in Nonces, NEW t \in Targets, Live(n)', entry'[t] = temp'[n].ino
        PROVE  temp'[n].op = "create" /\ temp'[n].target = t
    <3>1. Live(n) /\ temp'[n] = temp[n]
      BY <1>2, <2>8
    <3>2. CASE t # run[p].target
      BY <1>1, <2>5, <2>8, <3>1, <3>2 DEF NamesApart
    <3>3. CASE t = run[p].target
      <4>1. n = run[p].nonce
        BY <2>3, <2>5, <2>8, <3>1, <3>3
      <4>2. temp' # Unnamed(p)
        BY <1>1, <2>2, <2>8, <4>1 DEF Unnamed, FileTypes, Live
      <4> QED BY <2>1, <2>2, <3>1, <3>3, <4>1, <4>2
    <3> QED BY <3>2, <3>3
  <2> QED BY <2>6, <2>7, <2>8 DEF NamesApart
<1> QED BY <1>3, <1>4

LEMMA ResidueStep ==
    ASSUME PublicationInv, ResidueInv, NEW p \in Procs, Acts(p)
    PROVE  ResidueInv'
<1>1. CASE OpenTemporary(p)
  BY <1>1, OpenResidue
<1>2. CASE ~OpenTemporary(p)
  <2>1. NamesApart' /\ Others(p) /\ (Calm(p) \/ GoesOn(p)) /\ FileTypes /\ None \notin Inodes
    BY <1>2, NamesStayApart, ProcessMoves, PublicationAssumption DEF PublicationInv
  <2>2. \A n \in Nonces : Live(n)' => Live(n) /\ temp'[n] = temp[n]
    BY <1>2, <2>1, TemporariesVanish DEF Live
  <2>3. \A q \in Procs : Fits(q) /\ Unborn(q)
    BY DEF ResidueInv
  <2>4. Fits(p)'
    BY <2>1, <2>2, <2>3 DEF Fits, Calm, GoesOn, Writing
  <2>5. ASSUME NEW q \in Procs \ {p}
        PROVE  Fits(q)'
    BY <2>1, <2>2, <2>3 DEF Fits, Others
  (* The file that is named, if any, is the one p knows alone.              *)
  <2>6. /\ \A t \in Targets :
               entry'[t] = entry[t] \/ (run[p] # None /\ entry'[t] = run[p].ino)
        /\ entry' = entry \/ run'[p].at # "name"
    <3>1. CASE entry' = entry
      BY <3>1
    <3>2. CASE entry' # entry
      <4>1. /\ run[p] # None /\ entry' = [entry EXCEPT ![run[p].target] = run[p].ino]
            /\ Go(p, "sync") \/ Go(p, "unlink")
        BY <3>2, NamesChange DEF At
      <4>2. Carries(p) /\ "sync" \in Steps /\ "unlink" \in Steps
        BY DEF PublicationInv, Steps
      <4>3. run'[p].at # "name"
        BY <2>1, <4>1, <4>2, GoMoves
      <4> QED BY <2>1, <4>1, <4>3 DEF FileTypes
    <3> QED BY <3>1, <3>2
  <2>7. Unborn(p)'
    <3> SUFFICES ASSUME run'[p] # None, run'[p].at \in {"fill", "name"}
                 PROVE  Unborn(p)'
      BY DEF Unborn
    <3>1. GoesOn(p) /\ run'[p].at = "name"
      BY <2>1 DEF Calm, GoesOn, Writing
    <3>2. run[p] # None /\ run[p].at \in {"fill", "name"} /\ run'[p].ino = run[p].ino
      BY <3>1 DEF GoesOn
    <3>3. entry' = entry /\ \A q \in Procs \ {p} : run'[q] = run[q]
      BY <2>1, <2>6, <3>1 DEF Others
    <3> QED BY <2>3, <3>2, <3>3 DEF Unborn
  <2>8. ASSUME NEW q \in Procs \ {p}
        PROVE  Unborn(q)'
    <3>1. \A r \in Procs \ {p} : run'[r] = run[r]
      BY <2>1 DEF Others
    <3> SUFFICES ASSUME run[q] # None, run[q].at \in {"fill", "name"}
                 PROVE  Unborn(q)'
      BY <3>1 DEF Unborn
    <3>2. /\ run[q].ino \in Inodes
          /\ \A t \in Targets : entry[t] # run[q].ino
          /\ \A r \in Procs \ {q} : run[r] # None => run[r].ino # run[q].ino
      BY <2>3 DEF Unborn
    <3>3. \A t \in Targets : entry'[t] # run[q].ino
      BY <2>6, <3>2
    <3>4. run'[p] # None => run'[p].ino # run[q].ino
      BY <2>1, <3>2 DEF Calm, GoesOn
    <3> QED BY <3>1, <3>2, <3>3, <3>4 DEF Unborn
  <2> QED BY <2>1, <2>4, <2>5, <2>7, <2>8 DEF ResidueInv
<1> QED BY <1>1, <1>2

LEMMA ResidueKnown == PublicationInv /\ ResidueInv => ResidueRecoverable
<1> SUFFICES ASSUME PublicationInv, ResidueInv PROVE ResidueRecoverable
  OBVIOUS
<1>1. FileTypes /\ NamesApart /\ None \notin Inodes
  BY PublicationAssumption DEF PublicationInv, ResidueInv
<1>2. ASSUME NEW n \in Nonces, Live(n)
      PROVE  Recoverable(n)
  <2>1. temp[n] \in Temporaries
    BY <1>1, <1>2 DEF FileTypes, Live
  <2>2. CASE entry[temp[n].target] = temp[n].ino
    <3>1. Links(temp[n].ino) = 2
      BY <1>1, <1>2, <2>2, TemporaryLinks
    <3>2. temp[n].op = "create"
      BY <1>1, <1>2, <2>1, <2>2 DEF NamesApart, Temporaries
    <3> QED BY <2>2, <3>1, <3>2 DEF Recoverable, Alias
  <2>3. CASE entry[temp[n].target] # temp[n].ino
    BY <1>1, <1>2, <2>3, TemporaryLinks DEF Recoverable
  <2> QED BY <2>2, <2>3
<1>3. ASSUME NEW t \in Targets \ {"config"}, entry[t] # None, ~Private(t)
      PROVE  \E n \in Residue : Alias(n) /\ temp[n].target = t
  <2>1. PICK n \in Nonces : Live(n) /\ temp[n].ino = entry[t]
    BY <1>1, <1>3, LoneLinks DEF Private
  <2>2. temp[n].op = "create" /\ temp[n].target = t
    BY <1>1, <2>1 DEF NamesApart
  <2>3. Links(temp[n].ino) = 2
    BY <1>1, <2>1, <2>2, TemporaryLinks
  <2>4. n \in Residue
    BY <1>3, <2>1, <2>2 DEF Residue, Files
  <2> QED BY <2>1, <2>2, <2>3, <2>4 DEF Alias
<1> QED BY <1>2, <1>3 DEF ResidueRecoverable, Residue

LEMMA ResidueInvariance ==
    /\ Init => PublicationInv /\ ResidueInv
    /\ PublicationInv /\ ResidueInv /\ [Next]_vars => PublicationInv' /\ ResidueInv'
<1>1. Init => ResidueInv
  <2> SUFFICES ASSUME Init PROVE ResidueInv
    OBVIOUS
  <2>1. /\ \A n \in Nonces : ~Live(n)
        /\ \A p \in Procs : run[p] = None
    BY DEF Init, Live
  <2>2. \A t, u \in Targets : entry[t] # None /\ entry[t] = entry[u] => t = u
    BY DEF Init, Targets
  <2> QED BY <2>1, <2>2 DEF ResidueInv, NamesApart, Fits, Unborn
<1>2. ASSUME PublicationInv, ResidueInv, [Next]_vars
      PROVE  ResidueInv'
  <2>1. CASE UNCHANGED vars
    <3>1. temp' = temp /\ entry' = entry /\ run' = run
      BY <2>1 DEF vars
    <3> QED BY <1>2, <3>1 DEF ResidueInv, NamesApart, Fits, Unborn, Live
  <2>2. ASSUME NEW p \in Procs, Acts(p)
        PROVE  ResidueInv'
    BY <1>2, <2>2, ResidueStep
  <2> QED BY <1>2, <2>1, <2>2 DEF Next, Acts
<1> QED BY <1>1, <1>2, InitInv, StepInv

(* ResidueRecoverable: whatever kill or failing call interrupts a           *)
(* publication, recover-temporaries can tell what it left behind.           *)
THEOREM ResidueIsRecoverable == Spec => []ResidueRecoverable
  BY ResidueInvariance, ResidueKnown, PTL DEF Spec

-----------------------------------------------------------------------------
(* The two instances that share the variables *)

Recovering == part = "recovery" => PublicationInv /\ ResidueInv

LEMMA RecoveringInvariance == PublishSpec => []Recovering
<1>1. PublishInit => Recovering
  BY ResidueInvariance DEF PublishInit, Recovering
<1>2. Recovering /\ [PublishNext]_<<vars, part>> => Recovering'
  <2> SUFFICES ASSUME Recovering, [PublishNext]_<<vars, part>>, part' = "recovery"
               PROVE  (PublicationInv /\ ResidueInv)'
    BY DEF Recovering
  <2>1. part = "recovery" /\ [Next]_vars
    BY DEF PublishNext
  <2> QED BY <2>1, ResidueInvariance DEF Recovering
<1> QED BY <1>1, <1>2, PTL DEF PublishSpec

(* ResidueIsDead: wherever a writer is killed or fails, recovery can tell   *)
(* every temporary of the tree, and it takes none from a writer under the   *)
(* lock.                                                                    *)
THEOREM ResidueDies == PublishSpec => []ResidueIsDead
<1>1. Recovering => ResidueIsDead
  BY ResidueKnown, WriterKept, TypesKept DEF Recovering, ResidueIsDead
<1> QED BY <1>1, RecoveringInvariance, PTL

(* ReadersSeeFiles: the steps of the initialized tree are steps of          *)
(* PublishedFile, or leave what the readers see alone.                      *)
THEOREM ReadersSeeWholePublications == PublishSpec => ReadersSeeFiles
<1>1. PublishInit => (part = "recovery" => File!Init)
  BY FileStarts DEF PublishInit
<1>2. Recovering /\ Recovering' /\ [PublishNext]_<<vars, part>>
          => [part = "recovery" => [File!Next]_File!vars]_vars
  <2> SUFFICES ASSUME Recovering, Recovering', [PublishNext]_<<vars, part>>, part = "recovery"
               PROVE  [File!Next]_File!vars
    OBVIOUS
  <2>1. part' = part /\ [Next]_vars
    BY DEF PublishNext
  <2>2. PublicationInv /\ PublicationInv'
    BY <2>1 DEF Recovering
  <2> QED BY <2>1, <2>2, FileSteps
<1> QED BY <1>1, <1>2, RecoveringInvariance, PTL DEF PublishSpec, ReadersSeeFiles
=============================================================================
