--------------------------- MODULE MCTaskClaims ---------------------------
(* Small instances of TaskClaims: one file inside a tree, one tree beside   *)
(* it.  A legacy row holds the file; adopting it may take the whole tree.   *)
(* Of two parts one runs: in "work" two ordinary tasks work without legacy  *)
(* rows, in "legacy" an ordinary and a mini task meet two rows.             *)
EXTENDS TaskClaims

CONSTANTS t1, t2, m1, w2, Parts

VARIABLE part

Repo(kind, path) == [ns |-> "repo", kind |-> kind, path |-> path]
File == Repo("file", <<"src", "a">>)
Tree == Repo("tree", <<"src">>)
Side == Repo("tree", <<"docs">>)

Named  == {{File}, {Tree}, {Side}}
Owned  == [k \in Rows |-> {File}]

ClaimsInit == part \in Parts /\ Init

ClaimsNext ==
    /\ UNCHANGED part
    /\ Next
    /\ part = "work"   => task'[m1] = "none" /\ pending' = {}
    /\ part = "legacy" => task'[t2] = "none" /\ work'[w2] = None

ClaimsSpec == ClaimsInit /\ [][ClaimsNext]_<<vars, part>>
=============================================================================
