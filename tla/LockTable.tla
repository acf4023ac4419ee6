------------------------------ MODULE LockTable ------------------------------
(***************************************************************************)
(* What the claim files promise, whatever files they are: a table of owned  *)
(* locks.  An entry is granted only when it overlaps no other entry, taken  *)
(* away only when the work of its task stays covered without it, and work   *)
(* starts only under locks its task holds.                                  *)
(***************************************************************************)
EXTENDS PathLocks

CONSTANTS Tasks, Keys, Jobs, LockSet, Vacant

VARIABLES
    table,      \* key -> the entry [task, locks] or Vacant
    running     \* job -> the entry [task, locks] it runs under or Vacant

Entries == [task : Tasks, locks : SUBSET LockSet]

HeldBy(t) == UNION {table[k].locks : k \in {x \in Keys :
                        table[x] # Vacant /\ table[x].task = t}}

Init == /\ table = [k \in Keys |-> Vacant]
        /\ running = [j \in Jobs |-> Vacant]

Grant(k) ==
    /\ table[k] = Vacant
    /\ table'[k] \in Entries
    /\ \A x \in Keys \ {k} :
          table[x] # Vacant => Disjoint(table'[k].locks, table[x].locks)
    /\ \A x \in Keys \ {k} : table'[x] = table[x]
    /\ UNCHANGED running

(* What is left covers every running job of the task that loses the entry.  *)
Revoke(k) ==
    /\ table[k] # Vacant
    /\ table' = [table EXCEPT ![k] = Vacant]
    /\ \A j \in Jobs :
          running[j] # Vacant /\ running[j].task = table[k].task
             => \A l \in running[j].locks : CoveredBy(l, HeldBy(running[j].task)')
    /\ UNCHANGED running

Start(j) ==
    /\ running[j] = Vacant
    /\ running'[j] \in Entries
    /\ \A l \in running'[j].locks : CoveredBy(l, HeldBy(running'[j].task))
    /\ \A x \in Jobs \ {j} : running'[x] = running[x]
    /\ UNCHANGED table

Stop(j) ==
    /\ running[j] # Vacant
    /\ running' = [running EXCEPT ![j] = Vacant]
    /\ UNCHANGED table

Next == \/ \E k \in Keys : Grant(k) \/ Revoke(k)
        \/ \E j \in Jobs : Start(j) \/ Stop(j)

Spec == Init /\ [][Next]_<<table, running>>
=============================================================================
