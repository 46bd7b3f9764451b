---------------------------- MODULE AtomicStore ----------------------------
(***************************************************************************)
(* What the registry's store promises a request handler: a request's       *)
(* writes reach the durable data all together or not at all, and a request *)
(* is answered "done" only after they have.  Crashes and failed writes may *)
(* lose the answer, never a part of the writes.                            *)
(***************************************************************************)
CONSTANTS
    Requests,        \* the requests that write
    Keys,            \* the rows of the store, over all its tables
    Touches(_),      \* the rows a request writes
    NoRequest, NoValue

VARIABLES
    data,      \* the durable rows: which request last wrote each
    settled,   \* the request whose writes are durable and whose answer is due
    acked      \* the requests answered "done" at least once

Effect(q, d) == [k \in Keys |-> IF k \in Touches(q) THEN q ELSE d[k]]

Init ==
    /\ data = [k \in Keys |-> NoValue]
    /\ settled = NoRequest
    /\ acked = {}

Apply(q) ==
    /\ settled = NoRequest
    /\ data' = Effect(q, data)
    /\ settled' = q
    /\ UNCHANGED acked

Answer ==
    /\ settled # NoRequest
    /\ acked' = acked \cup {settled}
    /\ settled' = NoRequest
    /\ UNCHANGED data

LoseAnswer ==
    /\ settled # NoRequest
    /\ settled' = NoRequest
    /\ UNCHANGED <<data, acked>>

Next == (\E q \in Requests : Apply(q)) \/ Answer \/ LoseAnswer

Spec == Init /\ [][Next]_<<data, settled, acked>>
=============================================================================
