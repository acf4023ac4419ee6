----------------------------- MODULE ReceiptLog -----------------------------
(***************************************************************************)
(* What the hook receipt store promises, however often it is rotated: a     *)
(* receipt is recorded once, keeps its bytes for ever, and is acknowledged  *)
(* only when it is recorded.                                                *)
(***************************************************************************)
CONSTANTS Keys, Bytes

VARIABLES
    log,    \* the recorded receipts, pairs of a key and its bytes
    acked   \* those a hook was told of

Init == log = {} /\ acked = {}

Record(k, b) ==
    /\ \A r \in log : r[1] # k
    /\ log' = log \cup {<<k, b>>}
    /\ acked' \in {acked, acked \cup {<<k, b>>}}

Acknowledge(k, b) ==
    /\ <<k, b>> \in log
    /\ acked' = acked \cup {<<k, b>>}
    /\ UNCHANGED log

Next == \E k \in Keys, b \in Bytes : Record(k, b) \/ Acknowledge(k, b)

Spec == Init /\ [][Next]_<<log, acked>>
=============================================================================
