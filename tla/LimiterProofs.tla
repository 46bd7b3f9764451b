---------------------------- MODULE LimiterProofs ----------------------------
(***************************************************************************)
(* Theorems about Limiter, for any window, budget and table size: the      *)
(* table is bounded, and lazy sweeping with eviction by order of insertion *)
(* answers like the abstract sliding window.                               *)
(***************************************************************************)
EXTENDS Limiter, TLAPS, FiniteSetTheorems

\* No hit is later than the clock.
Past(f) == \A k \in Keys : \A s \in f[k] : s[1] <= now

\* Any two keys of the table are ordered, and only those.
Total(rel, f) ==
  /\ rel \subseteq Tracked(f) \X Tracked(f)
  /\ \A j, k \in Tracked(f) : j # k => <<j, k>> \in rel \/ <<k, j>> \in rel

\* Who was inserted earlier was served last earlier.
Recency(rel, f) == \A j, k \in Keys : <<j, k>> \in rel => Ideal!IdleLonger(f, j, k)

\* A table as it may be between two requests, and while one is handled.
Table(rel, f) ==
  /\ f \in [Keys -> SUBSET Ideal!Stamps]
  /\ Past(f) /\ Total(rel, f) /\ Recency(rel, f)

\* The inductive invariant.
LimiterInv == TypeOK /\ Table(before, hits) /\ Bounded

------------------------------------------------------------------------------
\* Sets of hits and of keys are finite.
LEMMA FiniteStamps == \A S \in SUBSET Ideal!Stamps : IsFiniteSet(S) /\ Cardinality(S) \in Nat
  <1>1. IsFiniteSet(0 .. MaxTime) /\ IsFiniteSet(0 .. Max)
    BY LimiterAssumption, FS_Interval
  <1>2. IsFiniteSet(Ideal!Stamps)
    BY <1>1, FS_Product DEF Ideal!Stamps
  <1> QED
    BY <1>2, FS_Subset, FS_CardinalityType

LEMMA FiniteKeys == \A S \in SUBSET Keys : IsFiniteSet(S) /\ Cardinality(S) \in Nat
  BY LimiterAssumption, FS_Subset, FS_CardinalityType

\* The fields of a hit.
LEMMA StampTyped == \A s \in Ideal!Stamps : s[1] \in Nat /\ s[1] <= MaxTime
  BY LimiterAssumption DEF Ideal!Stamps

\* Dropping the expired hits keeps the table's order meaningful: whoever was
\* served after a key with unexpired hits has some as well.
LEMMA SweptTable ==
  ASSUME LimiterInv
  PROVE  Table(Ordered(before, Unexpired(hits)), Unexpired(hits))
  <1> DEFINE u == Unexpired(hits)  rel == Ordered(before, u)
  <1>1. u \in [Keys -> SUBSET Ideal!Stamps] /\ \A k \in Keys : u[k] \subseteq hits[k]
    BY DEF LimiterInv, TypeOK, Unexpired
  <1>2. Past(u)
    BY <1>1 DEF LimiterInv, Table, Past
  <1>3. Total(rel, u)
    <2>1. Tracked(u) \subseteq Tracked(hits)
      BY <1>1 DEF Tracked
    <2> QED
      BY <2>1 DEF LimiterInv, Table, Total, Ordered
  <1>4. Recency(rel, u)
    <2> SUFFICES ASSUME NEW j \in Keys, NEW k \in Keys, <<j, k>> \in rel, NEW s \in u[j]
                 PROVE  \E r \in u[k] : s[1] <= r[1]
      BY DEF Recency, Ideal!IdleLonger
    <2>1. <<j, k>> \in before /\ s \in hits[j]
      BY <1>1 DEF Ordered
    <2>2. PICK r \in hits[k] : s[1] <= r[1]
      BY <2>1 DEF LimiterInv, Table, Recency, Ideal!IdleLonger
    <2>3. s[1] \in Nat /\ r[1] \in Nat /\ now \in Nat
      BY <2>1, StampTyped DEF LimiterInv, TypeOK
    <2>4. now - s[1] < Window
      BY DEF Unexpired
    <2>5. now - r[1] < Window
      BY <2>2, <2>3, <2>4, LimiterAssumption
    <2>6. r \in u[k]
      BY <2>5 DEF Unexpired
    <2> QED
      BY <2>2, <2>6
  <1> QED
    BY <1>1, <1>2, <1>3, <1>4 DEF Table

\* The table after the sweep, whether or not one was due.
LEMMA SweepKeepsTable ==
  ASSUME LimiterInv
  PROVE  /\ Table(Ordered(before, Swept), Swept)
         /\ Tracked(Swept) \subseteq Tracked(hits)
         /\ Unexpired(Swept) = Unexpired(hits)
  <1>1. CASE SweepDue
    <2>1. Swept = Unexpired(hits)
      BY <1>1 DEF Swept
    <2>2. Tracked(Unexpired(hits)) \subseteq Tracked(hits)
      BY DEF Tracked, Unexpired, LimiterInv, TypeOK
    <2>3. Unexpired(Unexpired(hits)) = Unexpired(hits)
      BY DEF Unexpired
    <2> QED
      BY <2>1, <2>2, <2>3, SweptTable
  <1>2. CASE ~SweepDue
    <2>1. Swept = hits
      BY <1>2 DEF Swept
    <2>2. Ordered(before, hits) = before
      BY DEF Ordered, LimiterInv, Table, Total
    <2> QED
      BY <2>1, <2>2 DEF LimiterInv
  <1> QED
    BY <1>1, <1>2

\* Storing a hit puts its key last.
LEMMA StoreKeepsTable ==
  ASSUME LimiterInv, NEW k \in Keys, Cardinality(Unexpired(hits)[k]) < Max
  PROVE  /\ Table(Moved(k), Stored(k))
         /\ Tracked(Stored(k)) = Tracked(Swept) \cup {k}
         /\ \A o \in Tracked(Swept) \ {k} : <<o, k>> \in Moved(k)
  <1> DEFINE f == Stored(k)  rel == Moved(k)  hit == <<now, Cardinality(Unexpired(hits)[k])>>
  <1>1. Table(Ordered(before, Swept), Swept) /\ Swept \in [Keys -> SUBSET Ideal!Stamps]
    BY SweepKeepsTable DEF Table
  <1>2. Unexpired(hits)[k] \subseteq hits[k] /\ hits[k] \subseteq Ideal!Stamps
    BY DEF Unexpired, LimiterInv, TypeOK
  <1>3. hit \in Ideal!Stamps /\ now \in Nat
    <2>1. Cardinality(Unexpired(hits)[k]) \in Nat
      BY <1>2, FiniteStamps
    <2> QED
      BY <2>1, LimiterAssumption DEF LimiterInv, TypeOK, Ideal!Stamps
  <1>4. /\ f \in [Keys -> SUBSET Ideal!Stamps]
        /\ f[k] = Unexpired(hits)[k] \cup {hit}
        /\ \A j \in Keys \ {k} : f[j] = Swept[j]
    BY <1>1, <1>2, <1>3 DEF Stored
  <1>5. Tracked(f) = Tracked(Swept) \cup {k}
    BY <1>4 DEF Tracked
  <1>6. Past(f)
    <2>1. \A s \in f[k] : s[1] <= now
      BY <1>2, <1>3, <1>4 DEF LimiterInv, Table, Past
    <2> QED
      BY <1>1, <1>4, <2>1 DEF Table, Past
  <1>7. Total(rel, f)
    BY <1>1, <1>5 DEF Table, Total, Moved
  <1>8. Recency(rel, f)
    <2> SUFFICES ASSUME NEW i \in Keys, NEW j \in Keys, <<i, j>> \in rel
                 PROVE  Ideal!IdleLonger(f, i, j)
      BY DEF Recency
    <2>1. CASE j = k
      <3>1. \A s \in f[i] : s[1] <= hit[1]
        BY <1>6 DEF Past
      <3> QED
        BY <1>4, <2>1, <3>1 DEF Ideal!IdleLonger
    <2>2. CASE j # k
      <3>1. i # k /\ <<i, j>> \in Ordered(before, Swept)
        BY <2>2 DEF Moved
      <3> QED
        BY <1>1, <1>4, <2>2, <3>1 DEF Table, Recency, Ideal!IdleLonger
    <2> QED
      BY <2>1, <2>2
  <1> QED
    BY <1>4, <1>5, <1>6, <1>7, <1>8 DEF Table, Moved

\* The table grows by one key at most.
LEMMA GrowsByOne ==
  ASSUME LimiterInv, NEW k \in Keys, Tracked(Stored(k)) = Tracked(Swept) \cup {k}
  PROVE  Cardinality(Tracked(Stored(k))) \in 0 .. MaxKeys + 1
  <1>1. Tracked(Swept) \subseteq Tracked(hits) /\ Tracked(hits) \subseteq Keys
    BY SweepKeepsTable DEF Tracked
  <1>2. IsFiniteSet(Tracked(Swept)) /\ IsFiniteSet(Tracked(hits))
    BY <1>1, FiniteKeys
  <1>3. Cardinality(Tracked(Swept)) <= Cardinality(Tracked(hits))
    BY <1>1, <1>2, FS_Subset
  <1>4. /\ Cardinality(Tracked(Swept)) \in Nat /\ Cardinality(Tracked(hits)) \in Nat
        /\ Cardinality(Tracked(hits)) <= MaxKeys
    BY <1>2, FS_CardinalityType DEF LimiterInv, Bounded
  <1>5. Cardinality(Tracked(Swept) \cup {k}) \in {Cardinality(Tracked(Swept)), Cardinality(Tracked(Swept)) + 1}
    BY <1>2, FS_AddElement
  <1> QED
    BY <1>3, <1>4, <1>5, LimiterAssumption

------------------------------------------------------------------------------
LEMMA InitHolds == Init => LimiterInv
  <1> SUFFICES ASSUME Init PROVE LimiterInv
    OBVIOUS
  <1>1. TypeOK
    BY LimiterAssumption DEF Init, TypeOK, Answers
  <1>2. Tracked(hits) = {}
    BY DEF Init, Tracked
  <1>3. Table(before, hits)
    BY <1>2 DEF Init, Table, Past, Total, Recency
  <1>4. Bounded
    BY <1>2, FS_EmptySet, LimiterAssumption DEF Bounded
  <1> QED
    BY <1>1, <1>3, <1>4 DEF LimiterInv

\* A table remains one while the clock rises.
LEMMA TickKeeps == LimiterInv /\ Tick => LimiterInv'
  <1> SUFFICES ASSUME LimiterInv, Tick PROVE LimiterInv'
    OBVIOUS
  <1> USE DEF LimiterInv, Tick
  <1>1. TypeOK'
    BY LimiterAssumption DEF TypeOK
  <1>2. Past(hits)'
    <2> SUFFICES ASSUME NEW k \in Keys, NEW s \in hits[k] PROVE s[1] <= now + 1
      BY DEF Past
    <2>1. s[1] <= now /\ s[1] \in Nat /\ now \in Nat
      BY StampTyped DEF Table, Past, TypeOK
    <2> QED
      BY <2>1
  <1>3. Total(before, hits)' /\ Recency(before, hits)'
    BY DEF Table, Total, Tracked, Recency, Ideal!IdleLonger
  <1>4. Bounded'
    BY DEF Bounded, Tracked
  <1> QED
    BY <1>1, <1>2, <1>3, <1>4 DEF Table, TypeOK

\* The requests that store nothing.
LEMMA SweepKeeps ==
  ASSUME LimiterInv, Sweep, now' = now, answer' \in Answers
  PROVE  LimiterInv'
  <1>1. Table(before, hits)'
    BY SweepKeepsTable DEF Sweep, Table, Past, Total, Tracked, Recency, Ideal!IdleLonger
  <1>2. TypeOK'
    BY <1>1 DEF TypeOK, Sweep, LimiterInv, Table, Total, Tracked
  <1>3. Bounded'
    <2>1. Tracked(Swept) \subseteq Tracked(hits) /\ Tracked(hits) \subseteq Keys
      BY SweepKeepsTable DEF Tracked
    <2>2. Cardinality(Tracked(Swept)) <= Cardinality(Tracked(hits))
      BY <2>1, FiniteKeys, FS_Subset
    <2>3. Cardinality(Tracked(Swept)) <= MaxKeys
      BY <2>1, <2>2, FiniteKeys, LimiterAssumption DEF LimiterInv, Bounded
    <2> QED
      BY <2>3 DEF Bounded, Sweep, Tracked
  <1> QED
    BY <1>1, <1>2, <1>3 DEF LimiterInv

\* Taking a key out leaves a table.
LEMMA EvictionKeepsTable ==
  ASSUME NEW f, NEW rel, Table(rel, f), NEW o \in Keys
  PROVE  Table(Ordered(rel, [f EXCEPT ![o] = {}]), [f EXCEPT ![o] = {}])
  <1> DEFINE g == [f EXCEPT ![o] = {}]
  <1>1. g \in [Keys -> SUBSET Ideal!Stamps] /\ g[o] = {} /\ \A j \in Keys \ {o} : g[j] = f[j]
    BY DEF Table
  <1>2. Past(g) /\ Total(Ordered(rel, g), g)
    BY <1>1 DEF Table, Past, Total, Ordered, Tracked
  <1>3. Recency(Ordered(rel, g), g)
    BY <1>1 DEF Table, Recency, Ordered, Tracked, Ideal!IdleLonger
  <1> QED
    BY <1>1, <1>2, <1>3 DEF Table

LEMMA ServeKeeps ==
  ASSUME LimiterInv, NEW k \in Keys, Serve(k)
  PROVE  LimiterInv'
  <1> DEFINE f == Stored(k)  rel == Moved(k)
  <1>1. Table(rel, f) /\ Cardinality(Tracked(f)) \in 0 .. MaxKeys + 1
    BY StoreKeepsTable, GrowsByOne DEF Serve
  <1>2. Tracked(f) \subseteq Keys
    BY DEF Tracked
  <1>3. Table(before', hits') /\ Cardinality(Tracked(hits')) <= MaxKeys
    <2>1. CASE Cardinality(Tracked(f)) <= MaxKeys
      BY <1>1, <2>1 DEF Serve, Evict
    <2>2. CASE ~(Cardinality(Tracked(f)) <= MaxKeys)
      <3>1. PICK o \in Front(rel, f) : /\ hits' = [f EXCEPT ![o] = {}]
                                       /\ before' = Ordered(rel, hits')
        BY <2>2 DEF Serve, Evict
      <3>2. o \in Tracked(f) /\ o \in Keys
        BY <3>1 DEF Front, Tracked
      <3>3. Table(before', hits')
        BY <1>1, <3>1, <3>2, EvictionKeepsTable
      <3>4. Tracked(hits') = Tracked(f) \ {o}
        BY <1>1, <3>1, <3>2 DEF Tracked, Table
      <3>5. Cardinality(Tracked(f) \ {o}) = Cardinality(Tracked(f)) - 1
        BY <1>2, <3>2, FiniteKeys, FS_RemoveElement
      <3> QED
        BY <1>1, <3>3, <3>4, <3>5, LimiterAssumption
    <2> QED
      BY <2>1, <2>2
  <1>4. now' = now /\ lastSweep' \in {lastSweep, now} /\ answer' \in Answers
    BY DEF Serve, Answers
  <1>5. Table(before, hits)'
    BY <1>3, <1>4 DEF Table, Past, Total, Tracked, Recency, Ideal!IdleLonger
  <1>6. TypeOK'
    BY <1>4, <1>5 DEF TypeOK, LimiterInv, Table, Total, Tracked
  <1>7. Bounded'
    BY <1>3 DEF Bounded, Tracked
  <1> QED
    BY <1>5, <1>6, <1>7 DEF LimiterInv

LEMMA RestartKeeps == LimiterInv /\ Restart => LimiterInv'
  <1> SUFFICES ASSUME LimiterInv, Restart PROVE LimiterInv'
    OBVIOUS
  <1>1. TypeOK'
    BY DEF LimiterInv, Restart, TypeOK
  <1>2. Tracked(hits)' = {}
    BY DEF Restart, Tracked
  <1>3. Table(before, hits)'
    BY <1>2, <1>1 DEF Restart, TypeOK, Table, Past, Total, Recency
  <1>4. Bounded'
    BY <1>2, FS_EmptySet, LimiterAssumption DEF Bounded
  <1> QED
    BY <1>1, <1>3, <1>4 DEF LimiterInv

LEMMA StepKeeps == LimiterInv /\ [Next]_vars => LimiterInv'
  <1> SUFFICES ASSUME LimiterInv, [Next]_vars PROVE LimiterInv'
    OBVIOUS
  <1>1. CASE Tick
    BY <1>1, TickKeeps
  <1>2. CASE Pass
    BY <1>2, SweepKeeps DEF Pass, Answers
  <1>3. ASSUME NEW k \in Keys, Refuse(k) PROVE LimiterInv'
    BY <1>3, SweepKeeps DEF Refuse, Answers
  <1>4. ASSUME NEW k \in Keys, Serve(k) PROVE LimiterInv'
    BY <1>4, ServeKeeps
  <1>5. CASE Restart
    BY <1>5, RestartKeeps
  <1>6. CASE UNCHANGED vars
    BY <1>6 DEF vars, LimiterInv, TypeOK, Bounded, Table, Past, Total, Tracked, Recency, Ideal!IdleLonger
  <1> QED
    BY <1>1, <1>2, <1>3, <1>4, <1>5, <1>6 DEF Next

LEMMA Invariance == Spec => []LimiterInv
  <1> QED
    BY InitHolds, StepKeeps, PTL DEF Spec

\* Every reachable state of the limiter is typed: no key ever has more hits
\* than its budget within a window.
THEOREM LimiterTypeCorrect == Spec => []TypeOK
  <1>1. LimiterInv => TypeOK
    BY DEF LimiterInv
  <1> QED
    BY <1>1, Invariance, PTL

\* The limiter's memory is bounded by MaxKeys keys, whatever the requests.
THEOREM LimiterIsBounded == Spec => []Bounded
  <1>1. LimiterInv => Bounded
    BY DEF LimiterInv
  <1> QED
    BY <1>1, Invariance, PTL

------------------------------------------------------------------------------
\* Unexpired hits in the table of a key that was served before another one
\* make that one's unexpired as well.
LEMMA LaterIsLive ==
  ASSUME NEW f, NEW rel, Table(rel, f), now \in Nat,
         NEW o \in Keys, NEW j \in Keys, <<o, j>> \in rel
  PROVE  Ideal!IdleLonger(Unexpired(f), o, j)
  <1> SUFFICES ASSUME NEW s \in f[o], now - s[1] < Window
               PROVE  \E r \in f[j] : now - r[1] < Window /\ s[1] <= r[1]
    BY DEF Unexpired, Ideal!IdleLonger
  <1>1. PICK r \in f[j] : s[1] <= r[1]
    BY DEF Table, Recency, Ideal!IdleLonger
  <1>2. s[1] \in Nat /\ r[1] \in Nat
    BY StampTyped DEF Table
  <1> QED
    BY <1>1, <1>2, LimiterAssumption

\* Both modules count alike.
LEMMA SameCount == \A S : Ideal!Cardinality(S) = Cardinality(S)
  BY Zenon DEF Ideal!Cardinality, Cardinality

\* What is stored, as the abstract limiter sees it.
LEMMA StoredIsWith ==
  ASSUME LimiterInv, NEW k \in Keys
  PROVE  Unexpired(Stored(k)) = Ideal!With(Unexpired(hits), k, now)
  <1> DEFINE u == Unexpired(hits)  hit == <<now, Cardinality(u[k])>>
  <1>1. Unexpired(Swept) = u /\ Swept \in [Keys -> SUBSET Ideal!Stamps]
    BY SweepKeepsTable DEF Table
  <1>2. /\ Stored(k)[k] = u[k] \cup {hit}
        /\ \A j \in Keys \ {k} : Stored(k)[j] = Swept[j]
    BY <1>1 DEF Stored
  <1>3. now - hit[1] < Window
    BY LimiterAssumption DEF LimiterInv, TypeOK
  <1>4. \A s \in u[k] : now - s[1] < Window
    BY DEF Unexpired
  <1>5. {s \in Stored(k)[k] : now - s[1] < Window} = u[k] \cup {hit}
    BY <1>2, <1>3, <1>4
  <1>6. \A j \in Keys \ {k} : {s \in Stored(k)[j] : now - s[1] < Window} = u[j]
    BY <1>1, <1>2 DEF Unexpired
  <1>7. Unexpired(Stored(k)) = [j \in Keys |-> IF j = k THEN u[k] \cup {hit} ELSE u[j]]
    BY <1>5, <1>6 DEF Unexpired
  <1> QED
    BY <1>7, SameCount DEF Ideal!With

LEMMA ServeImplements ==
  ASSUME LimiterInv, NEW k \in Keys, Serve(k)
  PROVE  Ideal!Serve(k)
  <1> DEFINE f == Stored(k)  rel == Moved(k)  grown == Ideal!With(Unexpired(hits), k, now)
             live == Ideal!Live(grown)
  <1>1. /\ Table(rel, f) /\ Cardinality(Tracked(f)) \in 0 .. MaxKeys + 1
        /\ \A o \in Tracked(Swept) \ {k} : <<o, k>> \in rel
        /\ Tracked(f) = Tracked(Swept) \cup {k}
    BY StoreKeepsTable, GrowsByOne DEF Serve
  <1>2. grown = Unexpired(f)
    BY StoredIsWith
  <1>3. now' = now /\ now \in Nat
    BY DEF Serve, LimiterInv, TypeOK
  <1>4. /\ live \subseteq Tracked(f) /\ Tracked(f) \subseteq Keys
        /\ \A o \in Keys : o \in live <=> grown[o] # {}
    BY <1>1, <1>2 DEF Ideal!Live, Tracked, Unexpired, Table
  <1>5. /\ IsFiniteSet(Tracked(f)) /\ Cardinality(live) \in Nat
        /\ Cardinality(live) <= Cardinality(Tracked(f))
        /\ Cardinality(live) = Cardinality(Tracked(f)) => live = Tracked(f)
    BY <1>4, FiniteKeys, FS_Subset
  <1>6. CASE Cardinality(Tracked(f)) <= MaxKeys
    <2>1. Unexpired(hits)' = grown
      BY <1>2, <1>3, <1>6 DEF Serve, Evict, Unexpired
    <2>2. Cardinality(live) <= MaxKeys
      BY <1>1, <1>5, <1>6, LimiterAssumption
    <2> QED
      BY <2>1, <2>2, SameCount DEF Serve, Ideal!Serve
  <1>7. CASE ~(Cardinality(Tracked(f)) <= MaxKeys)
    <2>1. PICK o \in Front(rel, f) : hits' = [f EXCEPT ![o] = {}]
      BY <1>7 DEF Serve, Evict
    <2>2. o \in Keys /\ o \in Tracked(f) /\ \A j \in Tracked(f) \ {o} : <<o, j>> \in rel
      BY <1>1, <2>1 DEF Front, Table, Total, Tracked
    <2>3. \A j \in Tracked(f) : Ideal!IdleLonger(grown, o, j)
      <3>1. \A j \in Tracked(f) \ {o} : Ideal!IdleLonger(grown, o, j)
        BY <1>1, <1>2, <1>3, <1>4, <2>2, LaterIsLive
      <3>2. Ideal!IdleLonger(grown, o, o)
        <4>1. \A s \in grown[o] : s[1] \in Nat
          BY <1>1, <1>2, <2>2, StampTyped DEF Table, Unexpired
        <4> QED
          BY <4>1 DEF Ideal!IdleLonger
      <3> QED
        BY <3>1, <3>2
    <2>4. Unexpired(hits)' = [j \in Keys |-> IF j = o THEN {} ELSE grown[j]]
      BY <1>1, <1>2, <1>3, <2>1, <2>2 DEF Unexpired, Table
    <2>5. CASE Cardinality(live) <= MaxKeys
      <3>1. o \notin live
        <4> SUFFICES ASSUME o \in live PROVE FALSE
          OBVIOUS
        <4>1. \A j \in Tracked(f) : j \in live
          BY <1>4, <2>3 DEF Ideal!IdleLonger
        <4>2. live = Tracked(f)
          BY <1>4, <4>1
        <4> QED
          BY <1>7, <2>5, <4>2
      <3>2. Unexpired(hits)' = grown
        <4>1. grown[o] = {}
          BY <1>4, <2>2, <3>1
        <4>2. grown = [j \in Keys |-> grown[j]]
          BY DEF Ideal!With
        <4> QED
          BY <2>4, <4>1, <4>2
      <3> QED
        BY <2>5, <3>2, SameCount DEF Serve, Ideal!Serve
    <2>6. CASE ~(Cardinality(live) <= MaxKeys)
      <3>1. live = Tracked(f)
        BY <1>1, <1>5, <2>6, LimiterAssumption
      <3>2. o # k
        <4> SUFFICES ASSUME o = k PROVE FALSE
          OBVIOUS
        <4>1. Tracked(Swept) \ {k} = {}
          BY <1>1, <2>1 DEF Front
        <4>2. Tracked(f) = {k}
          BY <1>1, <4>1
        <4>3. Cardinality(Tracked(f)) = 1
          BY <4>2, FS_Singleton
        <4> QED
          BY <1>7, <4>3, LimiterAssumption
      <3>3. o \in live \ {k} /\ \A j \in live : Ideal!IdleLonger(grown, o, j)
        BY <2>2, <2>3, <3>1, <3>2
      <3> QED
        BY <2>4, <2>6, <3>3, SameCount DEF Serve, Ideal!Serve
    <2> QED
      BY <2>5, <2>6
  <1> QED
    BY <1>6, <1>7

\* Sweeping late and evicting by order of insertion implement the abstract
\* sliding window: nothing of them shows in any answer.
THEOREM LimiterImplements == Spec => ImplementsSlidingWindow
  <1>1. Init => Ideal!Init
    BY DEF Init, Ideal!Init, Unexpired
  <1>2. LimiterInv /\ [Next]_vars => [Ideal!Next]_(Ideal!vars)
    <2> SUFFICES ASSUME LimiterInv, [Next]_vars PROVE [Ideal!Next]_(Ideal!vars)
      OBVIOUS
    <2>1. ASSUME Sweep, now' = now PROVE Unexpired(hits)' = Unexpired(hits)
      BY <2>1, SweepKeepsTable DEF Sweep, Unexpired
    <2>2. CASE Tick
      <3>1. now' = now + 1 /\ hits' = hits /\ now \in Nat
        BY <2>2 DEF Tick, LimiterInv, TypeOK
      <3>2. ASSUME NEW k \in Keys
            PROVE  {s \in hits[k] : now' - s[1] < Window} = Ideal!Within(Unexpired(hits)[k], now')
        <4> DEFINE old == {s \in hits[k] : now - s[1] < Window}
                   new == {s \in hits[k] : now' - s[1] < Window}
        <4>1. ASSUME NEW s \in hits[k], now' - s[1] < Window PROVE now - s[1] < Window
          <5>1. s[1] \in Nat
            BY StampTyped DEF LimiterInv, TypeOK
          <5> QED
            BY <3>1, <4>1, <5>1, LimiterAssumption
        <4>2. Unexpired(hits)[k] = old
          BY DEF Unexpired
        <4>3. Ideal!Within(old, now') = {s \in old : now' - s[1] < Window}
          BY DEF Ideal!Within
        <4>4. new \subseteq {s \in old : now' - s[1] < Window}
          BY <4>1
        <4>5. {s \in old : now' - s[1] < Window} \subseteq new
          OBVIOUS
        <4> QED
          BY <4>2, <4>3, <4>4, <4>5
      <3>3. Unexpired(hits)' = [k \in Keys |-> {s \in hits[k] : now' - s[1] < Window}]
        BY <3>1 DEF Unexpired
      <3>4. Unexpired(hits)' = [k \in Keys |-> Ideal!Within(Unexpired(hits)[k], now')]
        BY <3>2, <3>3
      <3> QED
        BY <2>2, <3>1, <3>4 DEF Tick, Ideal!Tick, Ideal!Next
    <2>3. CASE Pass
      BY <2>1, <2>3 DEF Pass, Ideal!Pass, Ideal!Next
    <2>4. ASSUME NEW k \in Keys, Refuse(k) PROVE Ideal!Next
      BY <2>1, <2>4, SameCount DEF Refuse, Ideal!Refuse, Ideal!Next
    <2>5. ASSUME NEW k \in Keys, Serve(k) PROVE Ideal!Next
      BY <2>5, ServeImplements DEF Ideal!Next
    <2>6. CASE Restart
      BY <2>6 DEF Restart, Unexpired, Ideal!Restart, Ideal!Next
    <2>7. CASE UNCHANGED vars
      BY <2>7 DEF vars, Ideal!vars, Unexpired
    <2> QED
      BY <2>2, <2>3, <2>4, <2>5, <2>6, <2>7 DEF Next
  <1> QED
    BY <1>1, <1>2, Invariance, PTL DEF Spec, ImplementsSlidingWindow, Ideal!Spec
=============================================================================
