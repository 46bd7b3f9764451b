---------------------------- MODULE StoreProofs ----------------------------
(***************************************************************************)
(* Theorems about Store, for every set of requests and every plan: memory  *)
(* is the committed disk whenever no handler runs, and the store           *)
(* implements the atomic one.                                              *)
(***************************************************************************)
EXTENDS Store, TLAPS

-----------------------------------------------------------------------------
(* The inductive invariant *)

Busy == cur # NoRequest

(* With no request in progress nothing is open or due. *)
Quiet ==
    /\ ~Busy => todo = {} /\ rows = {} /\ ~own /\ depth = 0
    /\ ~up => ~Busy

(* How #txDepth and the current mutator's #tx belong together. *)
Nesting == (depth = 2 => own) /\ (depth = 0 => ~own)

(* What is due belongs to the request. *)
Due == Busy => todo \subseteq Plan[cur].mutators /\ rows \subseteq Touches(cur)

(* Outside any transaction a request is its one single-row mutator, either  *)
(* still to be called or with its row still to be written.                  *)
Bare ==
    (Busy /\ ~Done /\ depth = 0) =>
        \/ rows = {} /\ todo = Plan[cur].mutators /\ ~Plan[cur].wrapped
        \/ todo = {} /\ \E k \in Keys : rows = {k} /\ Touches(cur) = {k}

(* The open transaction holds the request's rows as far as they are written. *)
Written ==
    (Busy /\ ~Done) =>
        \A k \in Keys :
            /\ k \notin Touches(cur) => view[k] = disk[k]
            /\ (k \in Touches(cur) /\ k \notin rows /\ \A m \in todo : k \notin m.keys)
                  => view[k] = cur

(* Memory is ahead of the connection by exactly the rows still due. *)
Ahead ==
    (up /\ ~suspect) => \A k \in Keys : mem[k] = IF k \in rows THEN cur ELSE view[k]

StoreInv ==
    /\ TypeOK /\ Quiet /\ Nesting /\ Due /\ Bare /\ Written /\ Ahead
    /\ depth = 0 => view = disk

-----------------------------------------------------------------------------
LEMMA MutatorFacts ==
    ASSUME NEW q \in Requests, NEW m \in Plan[q].mutators
    PROVE  /\ m \in Mutators /\ m.keys \subseteq Keys /\ m.keys # {} /\ m.own \in BOOLEAN
           /\ m.keys \subseteq Touches(q)
           /\ ~m.own => \E k \in Keys : m.keys = {k}
           /\ ~Plan[q].wrapped => Plan[q].mutators = {m} /\ Touches(q) = m.keys
  <1>1. m \in Mutators
    BY PlanAssumption
  <1>2. m.keys \subseteq Touches(q)
    BY DEF Touches
  <1>3. ~Plan[q].wrapped => Plan[q].mutators = {m}
    BY PlanAssumption
  <1>4. Plan[q].mutators = {m} => Touches(q) = m.keys
    BY DEF Touches
  <1> QED
    BY <1>1, <1>2, <1>3, <1>4, PlanAssumption DEF Mutators

LEMMA StoreInit == Init => StoreInv
  <1> SUFFICES ASSUME Init PROVE StoreInv
    OBVIOUS
  <1>1. TypeOK
    <2>1. /\ Nothing \in [Keys -> Values] /\ depth \in 0..2 /\ cur \in Requests \cup {NoRequest}
          /\ todo \in SUBSET Mutators /\ rows \in SUBSET Keys
      BY DEF Init, Nothing, Values
    <2> QED
      BY <2>1, Zenon DEF Init, TypeOK
  <1>2. Quiet /\ Nesting /\ Due /\ Bare /\ Written
    BY DEF Init, Quiet, Nesting, Due, Bare, Written, Busy
  <1>3. Ahead /\ view = disk
    BY DEF Init, Ahead, Nothing
  <1> QED
    BY <1>1, <1>2, <1>3 DEF StoreInv

(* A step that ends the request, its transaction rolled back. *)
LEMMA Ended ==
    ASSUME TypeOK, up' \in BOOLEAN, acked' \in SUBSET Requests, suspect' \in BOOLEAN,
           mem' \in [Keys -> Values], (up' /\ ~suspect') => mem' = disk,
           disk' = disk, view' = disk, depth' = 0, cur' = NoRequest,
           todo' = {}, rows' = {}, own' = FALSE
    PROVE  StoreInv'
  <1>1. TypeOK'
    <2>1. /\ depth' \in 0..2 /\ todo' \in SUBSET Mutators /\ rows' \in SUBSET Keys
          /\ disk' \in [Keys -> Values] /\ view' \in [Keys -> Values]
          /\ cur' \in Requests \cup {NoRequest}
      BY DEF TypeOK
    <2> QED
      BY <2>1, Zenon DEF TypeOK
  <1>2. Quiet' /\ Nesting' /\ Due' /\ Bare' /\ Written'
    BY DEF Quiet, Nesting, Due, Bare, Written, Busy
  <1>3. Ahead'
    BY DEF Ahead
  <1> QED
    BY <1>1, <1>2, <1>3 DEF StoreInv

LEMMA SubmitStep ==
    ASSUME StoreInv, NEW q \in Requests, Submit(q)
    PROVE  StoreInv'
  <1> USE DEF StoreInv
  <1>1. /\ q # NoRequest /\ Plan[q].mutators \subseteq Mutators /\ Plan[q].mutators # {}
        /\ Plan[q].wrapped \in BOOLEAN
    BY PlanAssumption, NoRequestAssumption
  <1>2. ~Busy /\ up /\ rows = {} /\ ~own /\ depth = 0 /\ view = disk
    BY DEF Submit, Idle, Quiet, Busy
  <1>3. TypeOK'
    BY <1>1, <1>2 DEF Submit, TypeOK, Idle
  <1>4. Quiet' /\ Nesting' /\ Due' /\ Bare'
    BY <1>1, <1>2 DEF Submit, Quiet, Nesting, Due, Bare, Busy, Done
  <1>5. Written'
    BY <1>2 DEF Submit, Written, Touches
  <1>6. Ahead'
    BY <1>2 DEF Submit, Ahead
  <1> QED
    BY <1>2, <1>3, <1>4, <1>5, <1>6 DEF Submit

LEMMA MutateStep ==
    ASSUME StoreInv, NEW m \in todo, Mutate(m)
    PROVE  StoreInv'
  <1> USE DEF StoreInv
  <1>1. Busy /\ cur \in Requests /\ m \in Plan[cur].mutators /\ ~Done /\ up
    BY DEF Quiet, Due, Busy, Done, TypeOK
  <1>2. /\ m \in Mutators /\ m.keys \subseteq Keys /\ m.keys # {} /\ m.own \in BOOLEAN
        /\ m.keys \subseteq Touches(cur)
        /\ ~m.own => \E k \in Keys : m.keys = {k}
        /\ ~Plan[cur].wrapped => Plan[cur].mutators = {m} /\ Touches(cur) = m.keys
    BY <1>1, MutatorFacts
  <1>3. depth \in 0..1 /\ rows = {} /\ ~own
    BY DEF Mutate, Nesting, TypeOK
  <1>4. TypeOK'
    BY <1>1, <1>2, <1>3 DEF Mutate, TypeOK, Idle, Busy, Values
  <1>5. Quiet' /\ Nesting' /\ Due'
    BY <1>1, <1>2, <1>3 DEF Mutate, Quiet, Nesting, Due, Busy, Touches
  <1>6. Bare'
    <2>1. CASE depth = 0 /\ ~m.own
      <3>1. todo = Plan[cur].mutators /\ ~Plan[cur].wrapped
        BY <1>1, <2>1 DEF Bare
      <3> QED
        <4>1. todo' = {} /\ rows' = m.keys /\ cur' = cur
          BY <1>2, <3>1 DEF Mutate
        <4>2. PICK k \in Keys : m.keys = {k}
          BY <1>2, <2>1
        <4>3. Touches(cur)' = {k}
          BY <1>2, <3>1, <4>1, <4>2 DEF Touches
        <4> QED
          BY <4>1, <4>2, <4>3 DEF Bare
    <2>2. CASE depth # 0 \/ m.own
      BY <1>3, <2>2 DEF Mutate, Bare
    <2> QED
      BY <2>1, <2>2
  <1>7. Written'
    BY <1>1, <1>3 DEF Mutate, Written, Busy, Done, Touches
  <1>8. Ahead'
    BY <1>2, <1>3 DEF Mutate, Ahead, TypeOK
  <1>9. depth' = 0 => view' = disk'
    BY <1>2, <1>3 DEF Mutate
  <1> QED
    BY <1>4, <1>5, <1>6, <1>7, <1>8, <1>9

LEMMA WriteStep ==
    ASSUME StoreInv, NEW k \in rows, WriteRow(k)
    PROVE  StoreInv'
  <1> USE DEF StoreInv
  <1>1. Busy /\ cur \in Requests /\ ~Done /\ up /\ k \in Keys /\ k \in Touches(cur)
    BY DEF Quiet, Due, Busy, Done, TypeOK
  <1>2. depth = 0 => todo = {} /\ rows = {k}
    BY <1>1 DEF Bare
  <1>3. view' = [view EXCEPT ![k] = cur] /\ view' \in [Keys -> Values] /\ rows' = rows \ {k}
    BY <1>1 DEF WriteRow, TypeOK, Values
  <1>4. TypeOK'
    BY <1>1, <1>3 DEF WriteRow, TypeOK, Idle, Busy
  <1>5. Quiet' /\ Nesting' /\ Due'
    BY <1>1, <1>3 DEF WriteRow, Quiet, Nesting, Due, Busy, Touches
  <1>6. Bare'
    BY <1>1, <1>2, <1>3 DEF WriteRow, Bare, Busy, Done
  <1>7. Written'
    <2>1. CASE depth = 0
      BY <1>1, <1>2, <1>3, <2>1 DEF WriteRow, Written, Done
    <2>2. CASE depth # 0
      BY <1>1, <1>3, <2>2 DEF WriteRow, Written, Busy, Done, TypeOK, Touches
    <2> QED
      BY <2>1, <2>2
  <1>8. Ahead'
    BY <1>1, <1>3 DEF WriteRow, Ahead, TypeOK
  <1>9. depth' = 0 => view' = disk'
    BY DEF WriteRow
  <1> QED
    BY <1>4, <1>5, <1>6, <1>7, <1>8, <1>9

LEMMA OtherSteps ==
    ASSUME StoreInv, LeaveInner \/ Commit \/ Return \/ Fail \/ Crash \/ Boot
    PROVE  StoreInv'
  <1> USE DEF StoreInv
  <1>1. CASE LeaveInner
    <2>1. depth = 2 /\ depth' = 1 /\ rows = {} /\ ~Done /\ Busy
      BY <1>1 DEF LeaveInner, TypeOK, Done, Quiet, Busy
    <2>2. /\ ~Idle' /\ depth' \in 0..2 /\ own' = FALSE
          /\ UNCHANGED <<up, mem, disk, view, cur, todo, rows, suspect, acked>>
      BY <1>1, <2>1 DEF LeaveInner, Idle, Busy
    <2>3. TypeOK'
      BY <2>2, Zenon DEF TypeOK
    <2>4. Quiet' /\ Nesting' /\ Due' /\ Bare' /\ Ahead'
      BY <1>1, <2>1 DEF LeaveInner, Quiet, Nesting, Due, Bare, Ahead, Busy, Touches
    <2>5. Written'
      BY <1>1, <2>1 DEF LeaveInner, Written, Busy, Done, Touches
    <2> QED
      BY <1>1, <2>1, <2>3, <2>4, <2>5
  <1>2. CASE Commit
    <2>0. /\ ~Idle' /\ depth' \in 0..2 /\ own' = FALSE /\ disk' = view
          /\ UNCHANGED <<up, mem, view, cur, todo, rows, suspect, acked>>
      BY <1>2 DEF Commit, Idle
    <2>1. TypeOK' /\ Done' /\ Busy'
      <3>1. TypeOK'
        BY <2>0, Zenon DEF TypeOK
      <3> QED
        BY <1>2, <3>1 DEF Commit, Busy, Done
    <2>2. Quiet' /\ Nesting' /\ Due' /\ Bare' /\ Written'
      BY <1>2, <2>1 DEF Commit, Quiet, Nesting, Due, Bare, Written, Busy, Touches
    <2>3. Ahead' /\ view' = disk'
      BY <1>2 DEF Commit, Ahead
    <2> QED
      BY <2>1, <2>2, <2>3
  <1>3. CASE Return
    <2>1. cur \in Requests /\ todo = {} /\ rows = {} /\ depth = 0 /\ ~own /\ view = disk
      BY <1>3 DEF Return, Done, TypeOK, Nesting
    <2>2. TypeOK'
      BY <1>3, <2>1 DEF Return, TypeOK, Idle
    <2>3. Quiet' /\ Nesting' /\ Due' /\ Bare' /\ Written' /\ Ahead' /\ view' = disk'
      BY <1>3, <2>1 DEF Return, TypeOK, Quiet, Nesting, Due, Bare, Written, Ahead, Busy
    <2> QED
      BY <2>2, <2>3
  <1>4. CASE Fail
    <2>1. /\ mem' \in [Keys -> Values] /\ suspect' \in BOOLEAN
          /\ ~suspect' => mem' = disk
      BY <1>4 DEF Fail, Resync, Reloaded, TypeOK, Values
    <2> QED
      BY <1>4, <2>1, Ended DEF Fail, Unwind, TypeOK
  <1>5. CASE Crash
    <2>1. mem' \in [Keys -> Values]
      BY <1>5 DEF Crash, Nothing, Values
    <2> QED
      BY <1>5, <2>1, Ended DEF Crash, TypeOK
  <1>6. CASE Boot
    <2>1. ~Busy /\ todo = {} /\ rows = {} /\ ~own /\ depth = 0 /\ view = disk
      BY <1>6 DEF Boot, Quiet
    <2> QED
      BY <1>6, <2>1, Ended DEF Boot, TypeOK, Busy
  <1> QED
    BY <1>1, <1>2, <1>3, <1>4, <1>5, <1>6

LEMMA StoreStep == StoreInv /\ [Next]_vars => StoreInv'
  <1>1. StoreInv /\ UNCHANGED vars => StoreInv'
    BY DEF vars, StoreInv, TypeOK, Quiet, Nesting, Due, Bare, Written, Ahead, Busy, Done, Idle, Touches
  <1> QED
    BY <1>1, SubmitStep, MutateStep, WriteStep, OtherSteps DEF Next

LEMMA StoreInvariant == Spec => []StoreInv
  BY StoreInit, StoreStep, PTL DEF Spec

(* Every reachable state of the store is typed. *)
THEOREM StoreTypeCorrect == Spec => []TypeOK
  <1>1. StoreInv => TypeOK
    BY DEF StoreInv
  <1> QED
    BY <1>1, StoreInvariant, PTL

(* memory === committed disk whenever a handler has returned, for every     *)
(* plan of every request, wherever its steps fail (the failure discipline   *)
(* stated in store.js).                                                     *)
THEOREM MemoryFollowsDisk == Spec => []MemoryIsDisk
  <1>1. StoreInv => MemoryIsDisk
    <2> SUFFICES ASSUME StoreInv, Idle, ~suspect PROVE mem = disk
      BY DEF MemoryIsDisk
    <2>1. up /\ rows = {} /\ view = disk
      BY DEF StoreInv, Idle, Quiet, Busy
    <2> QED
      BY <2>1 DEF StoreInv, Ahead, TypeOK
  <1> QED
    BY <1>1, StoreInvariant, PTL

-----------------------------------------------------------------------------
(* The refinement: the durable rows change once per request, by its whole   *)
(* effect, in the step that makes it Done; every other step is a stutter,   *)
(* an answer, or the loss of one.                                           *)

LEMMA NotSettled ==
    ASSUME ~Done, ~Done', UNCHANGED <<disk, acked>>
    PROVE  UNCHANGED <<disk, Settled, acked>>
  BY DEF Settled

(* The effect of the request that has just become durable. *)
LEMMA Settles ==
    ASSUME StoreInv, Busy, ~Done, Done', UNCHANGED <<cur, acked>>,
           disk' = Atomic!Effect(cur, disk)
    PROVE  Atomic!Apply(cur)
  BY DEF Atomic!Apply, Settled, Done, Busy

LEMMA CommitApplies ==
    ASSUME StoreInv, Commit
    PROVE  \E q \in Requests : Atomic!Apply(q)
  <1> USE DEF StoreInv
  <1>1. Busy /\ cur \in Requests /\ ~Done /\ Done' /\ UNCHANGED <<cur, acked>>
    BY DEF Commit, Busy, Done, TypeOK
  <1>2. \A k \in Keys : disk'[k] = IF k \in Touches(cur) THEN cur ELSE disk[k]
    BY <1>1 DEF Commit, Written
  <1>3. disk' \in [Keys -> Values]
    BY DEF Commit, TypeOK
  <1>4. disk' = Atomic!Effect(cur, disk)
    BY <1>2, <1>3 DEF Atomic!Effect
  <1> QED
    BY <1>1, <1>4, Settles

LEMMA WriteApplies ==
    ASSUME StoreInv, NEW k \in rows, WriteRow(k), depth = 0
    PROVE  \E q \in Requests : Atomic!Apply(q)
  <1> USE DEF StoreInv
  <1>1. Busy /\ cur \in Requests /\ ~Done /\ UNCHANGED <<cur, acked>>
    BY DEF WriteRow, Quiet, Busy, Done, TypeOK
  <1>2. todo = {} /\ rows = {k} /\ Touches(cur) = {k} /\ view = disk
    BY <1>1 DEF Bare
  <1>3. Done'
    BY <1>1, <1>2 DEF WriteRow, Done, Busy
  <1>4. disk' = [disk EXCEPT ![k] = cur] /\ disk \in [Keys -> Values]
    BY <1>2 DEF WriteRow, TypeOK
  <1>5. disk' = Atomic!Effect(cur, disk)
    BY <1>2, <1>4 DEF Atomic!Effect
  <1> QED
    BY <1>1, <1>3, <1>5, Settles

LEMMA RefinementStep ==
    StoreInv /\ [Next]_vars => [Atomic!Next]_<<disk, Settled, acked>>
  <1> SUFFICES ASSUME StoreInv, [Next]_vars
               PROVE  Atomic!Next \/ UNCHANGED <<disk, Settled, acked>>
    OBVIOUS
  <1> USE DEF StoreInv
  <1>1. ASSUME NEW q \in Requests, Submit(q) PROVE UNCHANGED <<disk, Settled, acked>>
    <2>1. Plan[q].mutators # {}
      BY PlanAssumption
    <2>2. ~Done /\ ~Done'
      BY <1>1, <2>1 DEF Submit, Idle, Done
    <2> QED
      BY <1>1, <2>2, NotSettled DEF Submit
  <1>2. ASSUME NEW m \in todo, Mutate(m) PROVE UNCHANGED <<disk, Settled, acked>>
    <2>1. ~Done /\ m.keys # {}
      BY DEF Done, TypeOK, Mutators
    <2>2. ~Done'
      BY <1>2, <2>1 DEF Mutate, Done
    <2> QED
      BY <1>2, <2>1, <2>2, NotSettled DEF Mutate
  <1>3. ASSUME NEW k \in rows, WriteRow(k)
        PROVE  Atomic!Next \/ UNCHANGED <<disk, Settled, acked>>
    <2>1. CASE depth = 0
      BY <1>3, <2>1, WriteApplies DEF Atomic!Next
    <2>2. CASE depth # 0
      <3>1. ~Done /\ ~Done' /\ UNCHANGED <<disk, acked>>
        BY <1>3, <2>2 DEF WriteRow, Done
      <3> QED
        BY <3>1, NotSettled
    <2> QED
      BY <2>1, <2>2
  <1>4. CASE LeaveInner
    <2>1. ~Done /\ ~Done' /\ UNCHANGED <<disk, acked>>
      BY <1>4 DEF LeaveInner, Done, TypeOK
    <2> QED
      BY <2>1, NotSettled
  <1>5. CASE Commit
    BY <1>5, CommitApplies DEF Atomic!Next
  <1>6. CASE Return
    <2>1. Settled = cur /\ cur # NoRequest /\ Settled' = NoRequest
      BY <1>6 DEF Return, Settled, Done
    <2>2. Atomic!Answer
      BY <1>6, <2>1 DEF Return, Atomic!Answer, Settled
    <2> QED
      BY <2>2 DEF Atomic!Next
  <1>7. CASE Fail
    <2>1. ~Done /\ ~Done' /\ UNCHANGED <<disk, acked>>
      BY <1>7 DEF Fail, Done
    <2> QED
      BY <2>1, NotSettled
  <1>8. CASE Crash
    <2>1. ~Done' /\ UNCHANGED <<disk, acked>>
      BY <1>8 DEF Crash, Done
    <2>2. CASE Done
      <3>1. Settled # NoRequest /\ Settled' = NoRequest
        BY <2>1, <2>2 DEF Settled, Done
      <3>2. Atomic!LoseAnswer
        BY <2>1, <3>1 DEF Atomic!LoseAnswer, Settled
      <3> QED
        BY <3>2 DEF Atomic!Next
    <2>3. CASE ~Done
      BY <2>1, <2>3, NotSettled
    <2> QED
      BY <2>2, <2>3
  <1>9. CASE Boot
    <2>1. ~Done /\ ~Done' /\ UNCHANGED <<disk, acked>>
      BY <1>9 DEF Boot, Done, Quiet, Busy
    <2> QED
      BY <2>1, NotSettled
  <1>10. CASE UNCHANGED vars
    BY <1>10 DEF vars, Settled, Done
  <1> QED
    BY <1>1, <1>2, <1>3, <1>4, <1>5, <1>6, <1>7, <1>8, <1>9, <1>10 DEF Next

(* The store implements the atomic store, for every set of requests and     *)
(* every plan: whatever fails or crashes, the committed rows only ever      *)
(* change by one request's whole effect.                                    *)
THEOREM StoreIsAtomic == Spec => ImplementsAtomicStore
  <1>1. Init => Atomic!Init
    BY DEF Init, Atomic!Init, Settled, Nothing, Done
  <1>2. StoreInv /\ [Next]_vars => [Atomic!Next]_<<disk, Settled, acked>>
    BY RefinementStep
  <1> QED
    BY <1>1, <1>2, StoreInvariant, PTL DEF Spec, ImplementsAtomicStore, Atomic!Spec
=============================================================================
