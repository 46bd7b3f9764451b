------------------------------- MODULE Store -------------------------------
(***************************************************************************)
(* The registry's store (packages/server/src/store.js): memory first,      *)
(* written through to SQLite row by row, under a reentrant #tx.            *)
(*                                                                         *)
(* A request is its plan: whether it runs inside transaction(), and the    *)
(* mutators it calls.  A mutator first changes this.data, then writes its  *)
(* rows; the ones that write several rows do so in a #tx of their own,     *)
(* which joins an enclosing one.  A value is the request that wrote it, so *)
(* a half-applied request shows.  Node runs a handler without interleaving *)
(* until it returns, so one request is in progress at a time; any row      *)
(* write or COMMIT may fail, and the process may die between any two steps.*)
(***************************************************************************)
EXTENDS Integers

CONSTANTS
    Requests,      \* the requests that write
    Keys,          \* the rows of the store, over all its tables
    Plan,          \* request -> [wrapped, mutators]
    NoRequest, NoValue

Mutators == [keys : (SUBSET Keys) \ {{}}, own : BOOLEAN]

(* A mutator without a #tx of its own writes one row, and a request that   *)
(* is not inside transaction() calls one mutator.                          *)
ASSUME PlanAssumption ==
    /\ Plan \in [Requests -> [wrapped : BOOLEAN, mutators : (SUBSET Mutators) \ {{}}]]
    /\ \A q \in Requests :
          /\ \A m \in Plan[q].mutators : m.own \/ \E k \in Keys : m.keys = {k}
          /\ Plan[q].wrapped \/ \E m \in Mutators : Plan[q].mutators = {m}
ASSUME NoRequestAssumption == NoRequest \notin Requests

Values == Requests \cup {NoValue}
Touches(q) == UNION {m.keys : m \in Plan[q].mutators}

VARIABLES
    up,        \* the process runs
    mem,       \* this.data
    disk,      \* the rows SQLite has committed
    view,      \* the rows as the connection sees them (disk when depth = 0)
    depth,     \* #txDepth
    cur,       \* the request in progress
    todo,      \* the mutators it has still to call
    rows,      \* rows changed in memory whose write is still due
    own,       \* the current mutator is inside its own #tx
    suspect,   \* the last resync failed: memory is known to be inconsistent
    acked      \* history: requests answered "done" at least once

vars == <<up, mem, disk, view, depth, cur, todo, rows, own, suspect, acked>>

Nothing == [k \in Keys |-> NoValue]

Init ==
    /\ up = TRUE /\ mem = Nothing /\ disk = Nothing /\ view = Nothing
    /\ depth = 0 /\ cur = NoRequest /\ todo = {} /\ rows = {}
    /\ own = FALSE /\ suspect = FALSE /\ acked = {}

Idle == up /\ cur = NoRequest
Done == cur # NoRequest /\ todo = {} /\ rows = {} /\ depth = 0

(* The request whose rows are durable and whose answer is due. *)
Settled == IF Done THEN cur ELSE NoRequest

-----------------------------------------------------------------------------
(* A handler starts; transaction(fn) is #tx(fn): BEGIN, then fn. *)
Submit(q) ==
    /\ Idle
    /\ cur' = q
    /\ todo' = Plan[q].mutators
    /\ depth' = IF Plan[q].wrapped THEN 1 ELSE 0
    /\ UNCHANGED <<up, mem, disk, view, rows, own, suspect, acked>>

(* A mutator changes this.data, then enters its #tx if it has one: the     *)
(* outermost does BEGIN, an inner one only counts.                         *)
Mutate(m) ==
    /\ rows = {} /\ ~own
    /\ mem' = [k \in Keys |-> IF k \in m.keys THEN cur ELSE mem[k]]
    /\ rows' = m.keys
    /\ todo' = todo \ {m}
    /\ own' = m.own
    /\ depth' = IF m.own THEN depth + 1 ELSE depth
    /\ UNCHANGED <<up, disk, view, cur, suspect, acked>>

(* #upsert, #delete, #append, #trim: into the open transaction, or         *)
(* committed on its own.                                                   *)
WriteRow(k) ==
    /\ view' = [view EXCEPT ![k] = cur]
    /\ disk' = IF depth = 0 THEN view' ELSE disk
    /\ rows' = rows \ {k}
    /\ UNCHANGED <<up, mem, depth, cur, todo, own, suspect, acked>>

(* mutant of LeaveInner: an inner #tx commits what is written so far *)
LeaveInnerCommits ==
    /\ own /\ rows = {} /\ depth > 1
    /\ own' = FALSE
    /\ depth' = depth - 1
    /\ disk' = view
    /\ UNCHANGED <<up, mem, view, cur, todo, rows, suspect, acked>>

(* An inner #tx returns. *)
LeaveInner ==
    /\ own /\ rows = {} /\ depth > 1
    /\ own' = FALSE
    /\ depth' = depth - 1
    /\ UNCHANGED <<up, mem, disk, view, cur, todo, rows, suspect, acked>>

(* The outermost #tx returns: COMMIT. *)
Commit ==
    /\ cur # NoRequest /\ todo = {} /\ rows = {} /\ depth = 1
    /\ disk' = view
    /\ depth' = 0
    /\ own' = FALSE
    /\ UNCHANGED <<up, mem, view, cur, todo, rows, suspect, acked>>

(* The handler returns and the client is answered. *)
Return ==
    /\ Done
    /\ acked' = acked \cup {cur}
    /\ cur' = NoRequest
    /\ UNCHANGED <<up, mem, disk, view, depth, todo, rows, own, suspect>>

ReloadedTooEarly == view                     \* mutant of Reloaded: before ROLLBACK

(* The rows #load reads: what is committed, ROLLBACK having run first. *)
Reloaded == disk

(* #resync reloads memory; when loading fails too it stops part way and    *)
(* only says so.                                                           *)
Resync ==
    \/ mem' = Reloaded /\ suspect' = FALSE
    \/ \E read \in SUBSET Keys :
          mem' = [k \in Keys |-> IF k \in read THEN Reloaded[k] ELSE NoValue] /\ suspect' = TRUE

(* mutant of Unwind: #txDepth is not reset *)
UnwindKeepsDepth == depth' = depth /\ view' = disk

Unwind == depth' = 0 /\ view' = disk        \* ROLLBACK

(* A row write or the COMMIT throws, or the function inside the #tx does:  *)
(* the outermost handler rolls back, resyncs and rethrows.                 *)
Fail ==
    /\ cur # NoRequest /\ ~Done /\ (rows # {} \/ depth > 0)
    /\ Unwind
    /\ Resync
    /\ cur' = NoRequest /\ todo' = {} /\ rows' = {} /\ own' = FALSE
    /\ UNCHANGED <<up, disk, acked>>

(* The process dies: an open transaction is gone with it. *)
Crash ==
    /\ up
    /\ up' = FALSE
    /\ mem' = Nothing /\ view' = disk /\ depth' = 0
    /\ cur' = NoRequest /\ todo' = {} /\ rows' = {} /\ own' = FALSE /\ suspect' = FALSE
    /\ UNCHANGED <<disk, acked>>

(* The constructor loads the committed rows. *)
Boot ==
    /\ ~up
    /\ up' = TRUE /\ mem' = disk
    /\ UNCHANGED <<disk, view, depth, cur, todo, rows, own, suspect, acked>>

Next ==
    \/ \E q \in Requests : Submit(q)
    \/ \E m \in todo : Mutate(m)
    \/ \E k \in rows : WriteRow(k)
    \/ LeaveInner \/ Commit \/ Return \/ Fail \/ Crash \/ Boot

Spec == Init /\ [][Next]_vars

-----------------------------------------------------------------------------
TypeOK ==
    /\ up \in BOOLEAN /\ own \in BOOLEAN /\ suspect \in BOOLEAN
    /\ mem \in [Keys -> Values] /\ disk \in [Keys -> Values] /\ view \in [Keys -> Values]
    /\ depth \in 0..2 /\ (Idle => depth = 0)
    /\ cur \in Requests \cup {NoRequest}
    /\ todo \in SUBSET Mutators
    /\ rows \in SUBSET Keys
    /\ acked \in SUBSET Requests

(* The failure discipline of store.js: whenever a handler has returned,     *)
(* whether with an answer or with an error, memory === committed disk, so   *)
(* no reader sees state a restart would take away; the only exception is    *)
(* the logged one, a resync that failed as well.                            *)
MemoryIsDisk == (Idle /\ ~suspect) => mem = disk

(* store.transaction and the mutators, however their steps fail, implement  *)
(* the atomic store: each change of the committed rows is the whole effect  *)
(* of one request, and only such a request is ever answered "done".         *)
Atomic == INSTANCE AtomicStore WITH data <- disk, settled <- Settled

ImplementsAtomicStore == Atomic!Spec
=============================================================================
