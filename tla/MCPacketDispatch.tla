-------------------------- MODULE MCPacketDispatch --------------------------
(* Small instances of PacketDispatch.  A set of starts is the root's agents *)
(* of two types, a second turn of one of them, and what an agent starts.    *)
EXTENDS PacketDispatch, TLC

CONSTANTS p1, p2, child, steward, a1, a2, root, x, y, north, south

Start(s, a, k, n) == [session |-> s, agent |-> a, kind |-> k, turn |-> n]

RootStarts == {Start(root, a1, x, 1), Start(root, a2, y, 1)}
ReuseStarts == {Start(root, a1, x, 1), Start(root, a1, x, 2),
                Start(a1, a2, x, 1), Start(a1, a2, x, 2)}
PairStarts == {Start(root, a1, x, 1), Start(a1, a2, x, 1)}
OneStart   == {Start(root, a1, x, 1)}

Alone    == [p \in Packets |-> None]
Nested   == [p \in Packets |-> IF p = child THEN p1 ELSE None]
Apart    == [p \in Packets |-> IF p = p2 THEN south ELSE north]
OneLane  == [p \in Packets |-> north]
NoBudget == [p \in Packets |-> 0]
OneEach  == [p \in Packets |-> IF Parent[p] = None THEN 1 ELSE 0]
ByFirst  == [j \in Jobs |-> p1]

AnyPlan == Permutations(Plans)
=============================================================================
