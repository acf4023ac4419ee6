------------------------------ MODULE PathLocks ------------------------------
(***************************************************************************)
(* The locks a claim, a packet or a job names: repo:file:..., repo:tree:..., *)
(* the same for host and external paths, contract:... and git:....  A lock  *)
(* is a record of its namespace, its kind and its path, a sequence of path  *)
(* components; the root ("." or "/") is the empty sequence.  Paths have     *)
(* been normalised by normalize_lock before they reach these operators.     *)
(***************************************************************************)
EXTENDS Naturals, Sequences

Lock == [ns : STRING, kind : STRING, path : Seq(STRING)]

Whole == {"contract", "git"}    \* namespaces whose locks have no hierarchy

(* _is_descendant_or_same *)
Below(child, parent) ==
    /\ Len(parent) <= Len(child)
    /\ \A i \in 1..Len(parent) : child[i] = parent[i]

(* locks_overlap: two locks that may not be held at once *)
Overlap(l, r) ==
    /\ l.ns = r.ns
    /\ IF l.ns \in Whole
         THEN l.kind = r.kind /\ l.path = r.path
         ELSE \/ l.kind = "file" /\ r.kind = "file" /\ l.path = r.path
              \/ r.kind # "file" /\ Below(l.path, r.path)
              \/ l.kind # "file" /\ Below(r.path, l.path)

(* lock_covers: owning outer fully owns inner *)
Covers(outer, inner) ==
    /\ outer.ns = inner.ns
    /\ IF outer.ns \in Whole
         THEN outer.kind = inner.kind /\ outer.path = inner.path
         ELSE IF outer.kind = "file"
                THEN inner.kind = "file" /\ outer.path = inner.path
                ELSE Below(inner.path, outer.path)

CoveredBy(lock, held) == \E h \in held : Covers(h, lock)

Disjoint(ls, ms) == \A l \in ls, m \in ms : ~Overlap(l, m)

-----------------------------------------------------------------------------
(* What a lock stands for: the set of things its holder alone may change.   *)
(* The two comparisons above are correct when overlapping means sharing a   *)
(* thing and covering means containing every thing.                         *)

Owns(l, x) ==
    /\ x.ns = l.ns
    /\ IF l.ns \in Whole
         THEN x.kind = l.kind /\ x.path = l.path
         ELSE IF l.kind = "file" THEN x.path = l.path ELSE Below(x.path, l.path)
=============================================================================
