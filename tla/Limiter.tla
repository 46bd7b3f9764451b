------------------------------- MODULE Limiter -------------------------------
(***************************************************************************)
(* limiter.js: the table of hits behind the activation, checkout and       *)
(* telemetry routes. Expired hits are dropped lazily, by a sweep of the    *)
(* whole table at most once per window and by the filter of the key asked  *)
(* for; a full table evicts the key at the front of the Map.               *)
(***************************************************************************)
EXTENDS Naturals, FiniteSets

CONSTANTS Keys, NoKey, Window, Max, MaxKeys, MaxTime

ASSUME LimiterAssumption ==
  /\ IsFiniteSet(Keys) /\ NoKey \notin Keys
  /\ {Window, Max, MaxKeys} \subseteq Nat \ {0} /\ MaxTime \in Nat

VARIABLES now, hits,
          before,      \* the Map's order: <<j, k>> when j was inserted before k
          lastSweep,
          answer

vars == <<now, hits, before, lastSweep, answer>>

\* The abstract limiter sees the hits that have not expired.
Unexpired(f) == [k \in Keys |-> {s \in f[k] : now - s[1] < Window}]

Ideal == INSTANCE SlidingWindow WITH spent <- Unexpired(hits)

Tracked(f) == {k \in Keys : f[k] # {}}

Answers == [key : Keys \cup {NoKey}, served : BOOLEAN]

Init ==
  /\ now = 0
  /\ hits = [k \in Keys |-> {}]
  /\ before = {}
  /\ lastSweep = 0
  /\ answer = [key |-> NoKey, served |-> TRUE]

Tick ==
  /\ now < MaxTime
  /\ now' = now + 1
  /\ UNCHANGED <<hits, before, lastSweep, answer>>

\* Every request starts with the sweep, if one is due.
SweepDue == now - lastSweep > Window
Swept == IF SweepDue THEN Unexpired(hits) ELSE hits

Ordered(rel, f) == rel \cap (Tracked(f) \X Tracked(f))

Sweep ==
  /\ hits' = Swept
  /\ before' = Ordered(before, Swept)
  /\ lastSweep' = IF SweepDue THEN now ELSE lastSweep

\* The keyer has no key for the request.
Pass ==
  /\ Sweep
  /\ answer' = [key |-> NoKey, served |-> TRUE]
  /\ UNCHANGED now

\* A refused request is not stored, and its key keeps its place in the order.
Refuse(k) ==
  /\ Cardinality(Unexpired(hits)[k]) >= Max
  /\ Sweep
  /\ answer' = [key |-> k, served |-> FALSE]
  /\ UNCHANGED now

\* mutant of Stored: the expired hits are counted until the next sweep
StoredUnfiltered(k) == [Swept EXCEPT ![k] = @ \cup {<<now, Cardinality(@)>>}]
\* mutant of Moved: a key that is in the Map keeps its place
MovedOnce(k) == Ordered(before, Swept)
                \cup {p \in Keys \X {k} : k \notin Tracked(Swept) /\ p[1] \in Tracked(Swept)}

\* The hit is stored with the unexpired ones, the key is inserted anew, last.
Stored(k) == [Swept EXCEPT ![k] = Unexpired(hits)[k] \cup {<<now, Cardinality(Unexpired(hits)[k])>>}]
Moved(k) == {p \in Ordered(before, Swept) : k \notin {p[1], p[2]}}
             \cup {<<j, k>> : j \in Tracked(Swept) \ {k}}

Front(rel, f) == {o \in Tracked(f) : \A j \in Tracked(f) : <<j, o>> \notin rel}

\* mutant of Evict: off by one
EvictLate(f, rel) ==
  IF Cardinality(Tracked(f)) <= MaxKeys + 1
  THEN hits' = f /\ before' = rel
  ELSE \E o \in Front(rel, f) :
         /\ hits' = [f EXCEPT ![o] = {}]
         /\ before' = Ordered(rel, hits')

\* The table grows by one key at most, so that the loop evicts one at most.
Evict(f, rel) ==
  IF Cardinality(Tracked(f)) <= MaxKeys
  THEN hits' = f /\ before' = rel
  ELSE \E o \in Front(rel, f) :
         /\ hits' = [f EXCEPT ![o] = {}]
         /\ before' = Ordered(rel, hits')

Serve(k) ==
  /\ Cardinality(Unexpired(hits)[k]) < Max
  /\ Evict(Stored(k), Moved(k))
  /\ lastSweep' = IF SweepDue THEN now ELSE lastSweep
  /\ answer' = [key |-> k, served |-> TRUE]
  /\ UNCHANGED now

\* The table is in memory: a restart of the server starts with an empty one.
Restart ==
  /\ hits' = [k \in Keys |-> {}]
  /\ before' = {}
  /\ lastSweep' = now
  /\ UNCHANGED <<now, answer>>

Next == Tick \/ Pass \/ Restart \/ \E k \in Keys : Refuse(k) \/ Serve(k)

Spec == Init /\ [][Next]_vars
------------------------------------------------------------------------------
\* Types.
TypeOK ==
  /\ now \in 0 .. MaxTime
  /\ hits \in [Keys -> SUBSET Ideal!Stamps]
  /\ before \subseteq Keys \X Keys
  /\ lastSweep \in 0 .. now
  /\ answer \in Answers

(***************************************************************************)
(* The table never holds more than MaxKeys keys, expired ones included:    *)
(* the limiter must not be what exhausts the memory.                       *)
(***************************************************************************)
Bounded == Cardinality(Tracked(hits)) <= MaxKeys

(***************************************************************************)
(* Sweeping late and evicting by order of insertion does not show: every   *)
(* answer is that of the abstract limiter, keys are never refused for      *)
(* expired hits or for those of others, and a key with unexpired hits is   *)
(* forgotten only when more than MaxKeys keys have some, and then it is    *)
(* the one idle for longest.                                               *)
(***************************************************************************)
ImplementsSlidingWindow == Ideal!Spec
=============================================================================
