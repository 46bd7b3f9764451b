---------------------------- MODULE SlidingWindow ----------------------------
(***************************************************************************)
(* What a rate limiter of limiter.js promises: of every key the requests   *)
(* served within the last Window ticks, and nothing older, at all times.   *)
(* A key with Max of them is refused. Only if more than MaxKeys keys have  *)
(* such requests is one forgotten, namely the one idle for longest.        *)
(* There is no table here, no sweep and no order of insertion.             *)
(***************************************************************************)
EXTENDS Naturals, FiniteSets

CONSTANTS Keys,      \* the identities requests are counted by
          NoKey,     \* the keyer's null: a request that is not counted
          Window,    \* windowMs, in ticks
          Max,       \* requests a key may have within Window
          MaxKeys,   \* keys that are remembered at a time
          MaxTime    \* bound on the clock

VARIABLES now,       \* Date.now()
          spent,     \* per key, the requests served within Window
          answer     \* the last answer: to which key, and whether it was served

vars == <<now, spent, answer>>

\* A served request: when, and how many the key had in its window by then.
Stamps == (0 .. MaxTime) \X (0 .. Max)

Within(stamps, t) == {s \in stamps : t - s[1] < Window}

With(f, k, t) ==
  [j \in Keys |-> IF j = k THEN f[k] \cup {<<t, Cardinality(f[k])>>} ELSE f[j]]

Live(f) == {k \in Keys : f[k] # {}}

\* No request of o is later than the last one of k.
IdleLonger(f, o, k) == \A s \in f[o] : \E r \in f[k] : s[1] <= r[1]

Init ==
  /\ now = 0
  /\ spent = [k \in Keys |-> {}]
  /\ answer = [key |-> NoKey, served |-> TRUE]

Tick ==
  /\ now < MaxTime
  /\ now' = now + 1
  /\ spent' = [k \in Keys |-> Within(spent[k], now + 1)]
  /\ UNCHANGED answer

Refuse(k) ==
  /\ Cardinality(spent[k]) >= Max
  /\ answer' = [key |-> k, served |-> FALSE]
  /\ UNCHANGED <<now, spent>>

Serve(k) ==
  LET grown == With(spent, k, now) IN
  /\ Cardinality(spent[k]) < Max
  /\ IF Cardinality(Live(grown)) <= MaxKeys
     THEN spent' = grown
     ELSE \E o \in Live(grown) \ {k} :
            /\ \A j \in Live(grown) : IdleLonger(grown, o, j)
            /\ spent' = [j \in Keys |-> IF j = o THEN {} ELSE grown[j]]
  /\ answer' = [key |-> k, served |-> TRUE]
  /\ UNCHANGED now

Pass ==
  /\ answer' = [key |-> NoKey, served |-> TRUE]
  /\ UNCHANGED <<now, spent>>

Restart ==
  /\ spent' = [k \in Keys |-> {}]
  /\ UNCHANGED <<now, answer>>

Next == Tick \/ Pass \/ Restart \/ \E k \in Keys : Refuse(k) \/ Serve(k)

Spec == Init /\ [][Next]_vars
=============================================================================
