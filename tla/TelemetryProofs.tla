-------------------------- MODULE TelemetryProofs --------------------------
(***************************************************************************)
(* Proofs about TelemetryClient, for any number of invocations, any queue  *)
(* limit and any batch size: its type invariant, that no event reaches the *)
(* wire before the notice, that the lock loses no event, and that an       *)
(* opt-out with nothing else running stays complete.                       *)
(*                                                                         *)
(* The queue is rewritten by recursion over its length; what that yields   *)
(* is proved by induction over a SET of numbers (NatSetInduction), because *)
(* the library's induction theorems take an operator as their parameter.   *)
(***************************************************************************)
EXTENDS TelemetryClient, WellFoundedInduction, TLAPS

-----------------------------------------------------------------------------
(* Induction over the natural numbers, stated with sets. *)

LEMMA LeastNatural ==
    ASSUME NEW T \in SUBSET Nat, T # {}
    PROVE  \E m \in T : \A k \in T : m <= k
<1> DEFINE R == {ss \in Nat \X Nat : ss[1] < ss[2]}
<1>1. R = OpToRel(<, Nat)
    BY DEF OpToRel
<1>2. IsWellFoundedOn(R, Nat)
    BY <1>1, NatLessThanWellFounded
<1>3. PICK m \in T : \A k \in T : ~ (<<k, m>> \in R)
  <2> HIDE DEF R
  <2> QED BY <1>2, WFMin
<1>4. \A k \in T : ~ (k < m)
    BY <1>3
<1> QED BY <1>4

LEMMA NatSetInduction ==
    ASSUME NEW T, 0 \in T, \A n \in Nat : n \in T => n + 1 \in T
    PROVE  Nat \subseteq T
<1> DEFINE B == {n \in Nat : n \notin T}
<1> SUFFICES ASSUME B # {} PROVE FALSE
    OBVIOUS
<1>1. PICK m \in B : \A k \in B : m <= k
    BY LeastNatural
<1>2. m # 0
    BY <1>1
<1>3. m - 1 \in Nat /\ m - 1 \notin B
    BY <1>1, <1>2
<1> QED BY <1>1, <1>3

Kept(s, done, f, n) ==
    f = [i \in 0..n |-> IF i = 0 THEN <<>>
                        ELSE IF s[i] \in done THEN f[i - 1] ELSE Append(f[i - 1], s[i])]

LEMMA KeptExists ==
    ASSUME NEW S, NEW s \in Seq(S), NEW done
    PROVE  \E f : Kept(s, done, f, Len(s))
<1> DEFINE T == {n \in Nat : n <= Len(s) => \E f : Kept(s, done, f, n)}
<1>1. 0 \in T
  <2> DEFINE f == [i \in 0..0 |-> <<>>]
  <2>1. Kept(s, done, f, 0) BY DEF Kept
  <2> QED BY <2>1
<1>2. ASSUME NEW n \in Nat, n \in T PROVE n + 1 \in T
  <2> SUFFICES ASSUME n + 1 <= Len(s) PROVE \E f : Kept(s, done, f, n + 1)
      OBVIOUS
  <2>1. PICK f : Kept(s, done, f, n)
      BY <1>2
  <2> DEFINE g == [i \in 0..(n + 1) |-> IF i <= n THEN f[i]
                       ELSE IF s[i] \in done THEN f[i - 1] ELSE Append(f[i - 1], s[i])]
  <2>2. \A i \in 0..n : f[i] = IF i = 0 THEN <<>>
                        ELSE IF s[i] \in done THEN f[i - 1] ELSE Append(f[i - 1], s[i])
      BY <2>1 DEF Kept
  <2>3. \A i \in 0..(n + 1) : i # 0 => g[i - 1] = f[i - 1]
      OBVIOUS
  <2>4. \A i \in 0..(n + 1) : g[i] = IF i = 0 THEN <<>>
                        ELSE IF s[i] \in done THEN g[i - 1] ELSE Append(g[i - 1], s[i])
      BY <2>2, <2>3
  <2>5. Kept(s, done, g, n + 1)
    <3> DEFINE h == [i \in 0..(n + 1) |-> IF i = 0 THEN <<>>
                        ELSE IF s[i] \in done THEN g[i - 1] ELSE Append(g[i - 1], s[i])]
    <3>1. \A i \in 0..(n + 1) : g[i] = h[i] BY <2>4
    <3>2. g = h BY <3>1
    <3> QED BY <3>2 DEF Kept
  <2> QED BY <2>5
<1> HIDE DEF T
<1>3. Nat \subseteq T
    BY <1>1, <1>2, NatSetInduction
<1>4. Len(s) \in T
    BY <1>3
<1> QED BY <1>4 DEF T

LEMMA WithoutKept ==
    ASSUME NEW S, NEW s \in Seq(S), NEW done
    PROVE  \E f : Kept(s, done, f, Len(s)) /\ Without(s, done) = f[Len(s)]
<1> DEFINE f == CHOOSE f : Kept(s, done, f, Len(s))
<1>1. Kept(s, done, f, Len(s))
    BY KeptExists, Zenon
<1>2. Without(s, done) = f[Len(s)]
    BY Zenon DEF Without, Kept
<1> HIDE DEF f
<1> QED BY <1>1, <1>2

LEMMA RangeOfAppend ==
    ASSUME NEW S, NEW t \in Seq(S), NEW e \in S
    PROVE  Range(Append(t, e)) = Range(t) \cup {e}
<1>1. DOMAIN t = 1..Len(t) /\ DOMAIN Append(t, e) = 1..(Len(t) + 1)
    OBVIOUS
<1>2. \A i \in 1..Len(t) : Append(t, e)[i] = t[i]
    OBVIOUS
<1>3. Append(t, e)[Len(t) + 1] = e
    OBVIOUS
<1>4. Range(t) = {t[i] : i \in 1..Len(t)}
    BY <1>1 DEF Range
<1>5. Range(Append(t, e)) = {Append(t, e)[i] : i \in 1..(Len(t) + 1)}
    BY <1>1, Zenon DEF Range
<1> HIDE DEF Range
<1> QED BY <1>2, <1>3, <1>4, <1>5

LEMMA WithoutFacts ==
    ASSUME NEW S, NEW s \in Seq(S), NEW done
    PROVE  /\ Without(s, done) \in Seq(S)
           /\ Len(Without(s, done)) <= Len(s)
           /\ Range(Without(s, done)) = Range(s) \ done
<1>1. PICK f : Kept(s, done, f, Len(s)) /\ Without(s, done) = f[Len(s)]
    BY WithoutKept
<1> DEFINE Good(n) == /\ f[n] \in Seq(S)
                      /\ Len(f[n]) <= n
                      /\ Range(f[n]) = {s[i] : i \in 1..n} \ done
           T == {n \in Nat : n <= Len(s) => Good(n)}
<1>2. \A i \in 0..Len(s) : f[i] = IF i = 0 THEN <<>>
                        ELSE IF s[i] \in done THEN f[i - 1] ELSE Append(f[i - 1], s[i])
    BY <1>1 DEF Kept
<1>3. 0 \in T
  <2>1. f[0] = <<>>
      BY <1>2
  <2>2. Range(<<>>) = {}
      BY DEF Range
  <2>3. {s[i] : i \in 1..0} = {}
      OBVIOUS
  <2>4. Good(0)
      BY <2>1, <2>2, <2>3
  <2> QED BY <2>4
<1>4. ASSUME NEW n \in Nat, n \in T PROVE n + 1 \in T
  <2> SUFFICES ASSUME n + 1 <= Len(s) PROVE Good(n + 1)
      OBVIOUS
  <2>1. Good(n) /\ s[n + 1] \in S
      BY <1>4
  <2>2. f[n + 1] = IF s[n + 1] \in done THEN f[n] ELSE Append(f[n], s[n + 1])
      BY <1>2
  <2>3. {s[i] : i \in 1..(n + 1)} = {s[i] : i \in 1..n} \cup {s[n + 1]}
      OBVIOUS
  <2>4. \A t \in Seq(S), e \in S : Range(Append(t, e)) = Range(t) \cup {e}
      BY RangeOfAppend
  <2> HIDE DEF T
  <2> QED BY <2>1, <2>2, <2>3, <2>4
<1> HIDE DEF T
<1>5. Nat \subseteq T
    BY <1>3, <1>4, NatSetInduction
<1>6. Len(s) \in T
    BY <1>5
<1>7. Good(Len(s))
    BY <1>6 DEF T
<1>8. Range(s) = {s[i] : i \in 1..Len(s)}
    BY DEF Range
<1> QED BY <1>1, <1>7, <1>8
-----------------------------------------------------------------------------
(* Types. *)

LEMMA NewestFacts ==
    ASSUME NEW S, NEW s \in Seq(S)
    PROVE  /\ Newest(s) \in Seq(S)
           /\ Len(Newest(s)) <= MaxQueue
           /\ Range(Newest(s)) \subseteq Range(s)
BY BoundsAssumption DEF Newest, Range

LEMMA PrefixFacts ==
    ASSUME NEW S, NEW s \in Seq(S), NEW n \in 0..Len(s)
    PROVE  Range(SubSeq(s, 1, n)) \subseteq Range(s) /\ Range(s) \subseteq S
BY DEF Range

LEMMA StateFacts ==
    /\ NewState \in States /\ NewState.enabled = TRUE /\ NewState.notice = FALSE
    /\ \A s \in States : \A b \in BOOLEAN :
          /\ [s EXCEPT !.notice = b] \in States
          /\ [s EXCEPT !.notice = b].notice = b
          /\ [s EXCEPT !.notice = b].enabled = s.enabled
          /\ [s EXCEPT !.enabled = b] \in States
          /\ [s EXCEPT !.enabled = b].enabled = b
          /\ [s EXCEPT !.enabled = b].notice = s.notice
BY DEF NewState, States

(* A process about to write the preference holds one. *)
Holding == {"create", "show", "count", "set"}
HoldsState == \A p \in Procs : pc[p] \in Holding => st[p] \in States
ReadFits   == \A p \in Procs : Len(q[p]) <= MaxQueue
TypeInv == TypeOK /\ HoldsState /\ ReadFits

LEMMA EmptyQueue == <<>> \in Seq(Procs) /\ Len(<<>>) = 0 /\ Range(<<>>) = {}
BY DEF Range

LEMMA InitTypes == Init => TypeInv
<1> SUFFICES ASSUME Init PROVE TypeInv
    OBVIOUS
<1>1. state \in States \cup {NoState} /\ queue \in Seq(Procs) /\ Len(queue) <= MaxQueue /\ lock \in Procs \cup {Free, Dead}
    BY BoundsAssumption, EmptyQueue DEF Init
<1>2. pc \in [Procs -> Labels] /\ cmd \in [Procs -> Commands] /\ env \in [Procs -> {"unset", "on", "off"}] /\ HoldsState
    BY DEF Init, Labels, Commands, HoldsState, Holding
<1>3. st \in [Procs -> States \cup {NoState}] /\ q \in [Procs -> Seq(Procs)] /\ ok \in [Procs -> SUBSET Procs]
        /\ ReadFits
    BY BoundsAssumption, EmptyQueue DEF Init, ReadFits
<1>4. held \in [Procs -> BOOLEAN] /\ owed \in SUBSET Procs /\ informed \in BOOLEAN /\ alone \in BOOLEAN /\ gaveUp \in BOOLEAN
    BY DEF Init
<1> QED BY <1>1, <1>2, <1>3, <1>4 DEF TypeInv, TypeOK

LEMMA StepTypes ==
    ASSUME TypeInv, NEW p \in Procs, Step(p)
    PROVE  TypeInv'
<1> USE DEF TypeInv, TypeOK, HoldsState, Holding, ReadFits, Labels, Goto, files, local, past
<1>1. CASE Notice(p)
  <2> DEFINE seen == IF state = NoState THEN NewState ELSE state
             next == IF state = NoState THEN "create" ELSE IF state.notice THEN "work" ELSE "show"
  <2>1. seen \in States /\ next \in {"create", "work", "show"}
      BY StateFacts
  <2>2. \/ st' = st /\ pc' = [pc EXCEPT ![p] = "work"]
        \/ st' = [st EXCEPT ![p] = seen] /\ pc' = [pc EXCEPT ![p] = next]
      BY <1>1 DEF Notice, Disclose, Skip
  <2>3. UNCHANGED <<files, cmd, env, q, ok, held, past>>
      BY <1>1 DEF Notice
  <2> HIDE DEF seen, next
  <2>4. CASE st' = st /\ pc' = [pc EXCEPT ![p] = "work"]
      BY <2>3, <2>4
  <2>5. CASE st' = [st EXCEPT ![p] = seen] /\ pc' = [pc EXCEPT ![p] = next]
      BY <2>1, <2>3, <2>5
  <2> QED BY <2>2, <2>4, <2>5
<1>2. CASE Create(p)
    BY <1>2 DEF Create
<1>3. CASE Show(p)
  <2>1. st[p] \in States
      BY <1>3 DEF Show
  <2>2. state' \in States
      BY <1>3, <2>1, StateFacts DEF Show
  <2>3. \E l \in Labels \ Holding : pc' = [pc EXCEPT ![p] = l]
      BY <1>3 DEF Show
  <2>4. informed' = TRUE /\ UNCHANGED <<queue, lock, local, owed, alone, gaveUp>>
      BY <1>3 DEF Show
  <2> QED BY <2>2, <2>3, <2>4
<1>4. CASE Work(p)
  <2> DEFINE seen == IF state = NoState THEN NewState ELSE state
  <2>1. seen \in States
      BY StateFacts
  <2>2. \/ st' = st /\ pc' = [pc EXCEPT ![p] = "record"]
        \/ st' = [st EXCEPT ![p] = seen] /\ pc' = [pc EXCEPT ![p] = "count"]
      BY <1>4 DEF Work
  <2>3. UNCHANGED <<files, cmd, env, q, ok, held, past>>
      BY <1>4 DEF Work
  <2> HIDE DEF seen
  <2>4. CASE st' = st /\ pc' = [pc EXCEPT ![p] = "record"]
      BY <2>3, <2>4
  <2>5. CASE st' = [st EXCEPT ![p] = seen] /\ pc' = [pc EXCEPT ![p] = "count"]
      BY <2>1, <2>3, <2>5
  <2> QED BY <2>2, <2>4, <2>5
<1>5. CASE Count(p)
    BY <1>5 DEF Count
<1>6. CASE Record(p)
    BY <1>6, ZenonT(60) DEF Record
<1>7. CASE TakeLock(p)
    BY <1>7 DEF TakeLock, Wanting, LockFree, Reading
<1>8. CASE Contend(p)
    BY <1>8 DEF Contend, Wanting, Reading
<1>9. CASE Steal(p)
    BY <1>9 DEF Steal
<1>10. CASE ReadQueue(p)
    BY <1>10 DEF ReadQueue
<1>11. CASE WriteAppended(p)
  <2>1. Append(q[p], p) \in Seq(Procs)
      OBVIOUS
  <2>2. Newest(Append(q[p], p)) \in Seq(Procs) /\ Len(Newest(Append(q[p], p))) <= MaxQueue
      BY <2>1, NewestFacts
  <2> QED BY <1>11, <2>2 DEF WriteAppended
<1>12. CASE WriteRemaining(p)
  <2>1. Without(q[p], ok[p]) \in Seq(Procs) /\ Len(Without(q[p], ok[p])) <= MaxQueue
    <3>1. q[p] \in Seq(Procs) /\ Len(q[p]) <= MaxQueue
        OBVIOUS
    <3>2. Without(q[p], ok[p]) \in Seq(Procs) /\ Len(Without(q[p], ok[p])) <= Len(q[p])
        BY <3>1, WithoutFacts
    <3> QED BY <3>1, <3>2, BoundsAssumption
  <2> QED BY <1>12, <2>1 DEF WriteRemaining
<1>13. CASE Unlock(p)
    BY <1>13 DEF Unlock
<1>14. CASE Flush(p)
  <2>1. \/ q' = q /\ pc' = [pc EXCEPT ![p] = "end"]
        \/ q' = [q EXCEPT ![p] = queue] /\ pc' = [pc EXCEPT ![p] = "send"]
      BY <1>14 DEF Flush
  <2>2. UNCHANGED <<files, cmd, env, st, ok, held, past>>
      BY <1>14 DEF Flush
  <2>3. CASE q' = q /\ pc' = [pc EXCEPT ![p] = "end"]
      BY <2>2, <2>3
  <2>4. CASE q' = [q EXCEPT ![p] = queue] /\ pc' = [pc EXCEPT ![p] = "send"]
      BY <2>2, <2>4
  <2> QED BY <2>1, <2>3, <2>4
<1>15. CASE Send(p)
  <2> DEFINE n == IF Len(q[p]) < MaxBatch THEN Len(q[p]) ELSE MaxBatch
  <2>1. q[p] \in Seq(Procs) /\ n \in 0..Len(q[p])
      BY BoundsAssumption
  <2>2. Range(SubSeq(q[p], 1, n)) \subseteq Procs
    <3> HIDE DEF n
    <3> QED BY <2>1, PrefixFacts
  <2> QED BY <1>15, <2>2 DEF Send
<1>16. CASE Toggle(p)
    BY <1>16, StateFacts DEF Toggle
<1>17. CASE Set(p)
  <2>1. st[p] \in States
      BY <1>17 DEF Set
  <2>2. state' \in States
      BY <1>17, <2>1, StateFacts DEF Set
  <2>3. pc' = [pc EXCEPT ![p] = "clear"] \/ pc' = [pc EXCEPT ![p] = "end"]
      BY <1>17 DEF Set
  <2>4. informed' = TRUE /\ UNCHANGED <<queue, lock, local, owed, alone, gaveUp>>
      BY <1>17 DEF Set
  <2> QED BY <2>2, <2>3, <2>4
<1>18. CASE Clear(p)
  <2>1. owed' \in SUBSET Procs
      BY <1>18 DEF Clear
  <2>2. /\ queue' = <<>> /\ pc' = [pc EXCEPT ![p] = "end"]
        /\ UNCHANGED <<state, lock, local, informed, alone, gaveUp>>
      BY <1>18 DEF Clear
  <2> QED BY <2>1, <2>2, EmptyQueue, BoundsAssumption
<1>19. CASE End(p)
  <2>1. pc' \in [Procs -> Labels] /\ cmd' \in [Procs -> Commands] /\ env' \in [Procs -> {"unset", "on", "off"}]
      BY <1>19 DEF End, Gone, Commands
  <2>2. /\ st' \in [Procs -> States \cup {NoState}] /\ q' \in [Procs -> Seq(Procs)]
        /\ ok' \in [Procs -> SUBSET Procs] /\ held' \in [Procs -> BOOLEAN]
      BY <1>19, EmptyQueue DEF End, Gone
  <2>3. HoldsState' /\ ReadFits'
      BY <1>19, EmptyQueue, BoundsAssumption DEF End, Gone
  <2> QED BY <1>19, <2>1, <2>2, <2>3 DEF End
<1> QED BY <1>1, <1>2, <1>3, <1>4, <1>5, <1>6, <1>7, <1>8, <1>9, <1>10, <1>11, <1>12, <1>13, <1>14, <1>15, <1>16, <1>17, <1>18, <1>19 DEF Step

LEMMA NextTypes == TypeInv /\ [Next]_vars => TypeInv'
<1> SUFFICES ASSUME TypeInv, [Next]_vars PROVE TypeInv'
    OBVIOUS
<1> USE DEF TypeInv, TypeOK, HoldsState, Holding, ReadFits, Labels, Goto, files, local, past
<1>1. ASSUME NEW p \in Procs, NEW c \in Commands, NEW e \in Envs, Start(p, c, e)
      PROVE  TypeInv'
  <2>1. /\ cmd' = [cmd EXCEPT ![p] = c] /\ env' = [env EXCEPT ![p] = e]
        /\ UNCHANGED <<files, st, q, ok, held, informed, owed, gaveUp>>
      BY <1>1 DEF Start
  <2>2. pc' = [pc EXCEPT ![p] = "toggle"] \/ pc' = [pc EXCEPT ![p] = "notice"]
      BY <1>1 DEF Start
  <2>3. alone' \in BOOLEAN
    <3>1. CASE c = "disable"
        BY <1>1, <3>1 DEF Start
    <3>2. CASE c # "disable"
        BY <1>1, <3>2, Zenon DEF Start
    <3> QED BY <3>1, <3>2
  <2> QED BY <2>1, <2>2, <2>3, EnvsAssumption
<1>2. ASSUME NEW p \in Procs, Step(p)
      PROVE  TypeInv'
    BY <1>2, StepTypes
<1>3. ASSUME NEW p \in Procs, Kill(p)
      PROVE  TypeInv'
  <2>1. pc' \in [Procs -> Labels] /\ cmd' \in [Procs -> Commands] /\ env' \in [Procs -> {"unset", "on", "off"}]
      BY <1>3 DEF Kill, Gone, Commands
  <2>2. /\ st' \in [Procs -> States \cup {NoState}] /\ q' \in [Procs -> Seq(Procs)]
        /\ ok' \in [Procs -> SUBSET Procs] /\ held' \in [Procs -> BOOLEAN]
      BY <1>3, EmptyQueue DEF Kill, Gone
  <2>3. HoldsState' /\ ReadFits'
      BY <1>3, EmptyQueue, BoundsAssumption DEF Kill, Gone
  <2>4. lock' \in Procs \cup {Free, Dead} /\ UNCHANGED <<state, queue, informed, owed, gaveUp>>
      BY <1>3 DEF Kill
  <2>5. alone' \in BOOLEAN
      BY <1>3, Zenon DEF Kill
  <2> QED BY <2>1, <2>2, <2>3, <2>4, <2>5
<1>4. CASE UNCHANGED vars
    BY <1>4 DEF vars
<1> QED BY <1>1, <1>2, <1>3, <1>4 DEF Next

(* The files, the processes and the histories always hold values of their   *)
(* types, and the queue never grows past MaxQueue.                          *)
THEOREM TypeCorrect == Spec => []TypeOK
<1>1. TypeInv => TypeOK
    BY DEF TypeInv
<1> QED BY InitTypes, NextTypes, <1>1, PTL DEF Spec

THEOREM TypeInvariant == Spec => []TypeInv
BY InitTypes, NextTypes, PTL DEF Spec

-----------------------------------------------------------------------------
(* The notice comes first. *)

(* Until someone has been informed the preference is the fresh one wherever *)
(* it is held, the queue is empty wherever it is held, and nobody is on the *)
(* way to queue or to transmit: an invocation that got past the notice has  *)
(* reporting switched off by its environment.                               *)
Telling == {"lock", "steal", "append", "appendWrite"}
Working == {"work", "count", "record"}
Fresh   == {NoState, NewState}

Untold ==
    /\ state \in Fresh /\ queue = <<>>
    /\ \A p \in Procs :
          /\ st[p] \in Fresh /\ q[p] = <<>>
          /\ pc[p] \notin Telling \cup {"send"}
          /\ pc[p] \in Working => env[p] = "off"

NoticeInv == ~informed => Untold

LEMMA EnabledWhenUntold ==
    ASSUME TypeInv, Untold, NEW p \in Procs
    PROVE  Enabled(p) <=> env[p] # "off"
BY StateFacts DEF TypeInv, TypeOK, Untold, Fresh, Enabled

LEMMA WithoutEmpty ==
    ASSUME NEW done
    PROVE  Without(<<>>, done) = <<>>
<1>1. /\ Without(<<>>, done) \in Seq(Procs)
      /\ Len(Without(<<>>, done)) <= Len(<<>>)
    BY EmptyQueue, WithoutFacts
<1> QED BY <1>1

LEMMA NoticeSteps ==
    ASSUME TypeInv, Untold, ~informed', NEW p \in Procs, Step(p)
    PROVE  Untold'
<1> DEFINE disabled == ~Enabled(p)
<1>0. disabled <=> env[p] = "off"
    BY EnabledWhenUntold
<1> HIDE DEF disabled
<1> USE DEF TypeInv, TypeOK, Untold, Fresh, Telling, Working, Labels, Goto, files, local, past
<1>1. CASE Notice(p)
  <2>1. CASE env[p] = "off"
      BY <1>0, <1>1, <2>1 DEF Notice, Disclose, Skip, disabled
  <2>2. CASE env[p] # "off"
    <3> DEFINE seen == IF state = NoState THEN NewState ELSE state
               next == IF state = NoState THEN "create" ELSE IF state.notice THEN "work" ELSE "show"
    <3>1. st' = [st EXCEPT ![p] = seen] /\ pc' = [pc EXCEPT ![p] = next]
        BY <1>0, <1>1, <2>2 DEF Notice, Disclose, disabled
    <3>2. seen = NewState /\ next \in {"create", "show"}
        BY StateFacts
    <3>3. UNCHANGED <<files, cmd, env, q, ok, held, past>>
        BY <1>1 DEF Notice
    <3> HIDE DEF seen, next
    <3> QED BY <3>1, <3>2, <3>3
  <2> QED BY <2>1, <2>2
<1>2. CASE Create(p)
    BY <1>2 DEF Create
<1>3. CASE Show(p)
    BY <1>3 DEF Show
<1>4. CASE Work(p)
    BY <1>0, <1>4 DEF Work, disabled
<1>5. CASE Count(p)
    BY <1>5 DEF Count
<1>6. CASE Record(p)
    BY <1>0, <1>6 DEF Record, disabled
<1>7. CASE TakeLock(p)
    BY <1>7 DEF TakeLock, Wanting, Reading
<1>8. CASE Contend(p)
    BY <1>8 DEF Contend, Wanting, Reading
<1>9. CASE Steal(p)
    BY <1>9 DEF Steal
<1>10. CASE ReadQueue(p)
    BY <1>10 DEF ReadQueue
<1>11. CASE WriteAppended(p)
    BY <1>11 DEF WriteAppended
<1>12. CASE WriteRemaining(p)
    BY WithoutEmpty, <1>12 DEF WriteRemaining
<1>13. CASE Unlock(p)
    BY <1>13 DEF Unlock
<1>14. CASE Flush(p)
    BY <1>0, <1>14 DEF Flush, disabled
<1>15. CASE Send(p)
    BY <1>15 DEF Send
<1>16. CASE Toggle(p)
    BY <1>16 DEF Toggle
<1>17. CASE Set(p)
    BY <1>17 DEF Set
<1>18. CASE Clear(p)
    BY <1>18 DEF Clear
<1>19. CASE End(p)
    BY <1>19 DEF End, Gone
<1> QED BY <1>1, <1>2, <1>3, <1>4, <1>5, <1>6, <1>7, <1>8, <1>9, <1>10, <1>11, <1>12, <1>13, <1>14, <1>15, <1>16, <1>17, <1>18, <1>19 DEF Step

LEMMA InformedStays == informed /\ [Next]_vars => informed'
<1> SUFFICES ASSUME informed, [Next]_vars PROVE informed'
    OBVIOUS
<1> USE DEF past
<1>1. ASSUME NEW p \in Procs, NEW c \in Commands, NEW e \in Envs, Start(p, c, e)
      PROVE  informed'
    BY <1>1 DEF Start
<1>2. ASSUME NEW p \in Procs, Step(p)
      PROVE  informed'
    BY <1>2 DEF Step, Notice, Create, Show, Work, Count, Record, TakeLock, Contend, Steal, ReadQueue,
         WriteAppended, WriteRemaining, Unlock, Flush, Send, Toggle, Set, Clear, End
<1>3. ASSUME NEW p \in Procs, Kill(p)
      PROVE  informed'
    BY <1>3 DEF Kill
<1>4. CASE UNCHANGED vars
    BY <1>4 DEF vars
<1> QED BY <1>1, <1>2, <1>3, <1>4 DEF Next

LEMMA NoticeNext == TypeInv /\ NoticeInv /\ [Next]_vars => NoticeInv'
<1> SUFFICES ASSUME TypeInv, Untold, ~informed', [Next]_vars PROVE Untold'
    BY InformedStays DEF NoticeInv
<1> USE DEF TypeInv, TypeOK, Untold, Fresh, Telling, Working, Labels, Goto, files, local, past
<1>1. ASSUME NEW p \in Procs, NEW c \in Commands, NEW e \in Envs, Start(p, c, e)
      PROVE  Untold'
    BY <1>1 DEF Start
<1>2. ASSUME NEW p \in Procs, Step(p)
      PROVE  Untold'
    BY <1>2, NoticeSteps
<1>3. ASSUME NEW p \in Procs, Kill(p)
      PROVE  Untold'
    BY <1>3 DEF Kill, Gone
<1>4. CASE UNCHANGED vars
    BY <1>4 DEF vars
<1> QED BY <1>1, <1>2, <1>3, <1>4 DEF Next

LEMMA NoticeInit == Init => NoticeInv
BY DEF Init, NoticeInv, Untold, Fresh, Telling, Working

(* Nothing is transmitted before someone was told, whichever invocation     *)
(* queued it and whichever was killed in between (maybeShowFirstUseNotice). *)
THEOREM NoticeComesFirst == Spec => []NoticeFirst
<1>1. NoticeInv => NoticeFirst
    BY DEF NoticeInv, Untold, NoticeFirst
<1> QED BY TypeInvariant, NoticeInit, NoticeNext, <1>1, PTL DEF Spec

-----------------------------------------------------------------------------
(* The lock loses nothing. *)

Unrecorded == {"new", "toggle", "notice", "create", "show"} \cup Working \cup Telling
Writing    == {"appendWrite", "removeWrite"}
Inside     == {"append", "remove", "unlock"} \cup Writing

(* An event is nowhere before its own process has written it. *)
Unseen(p) ==
    /\ p \notin owed /\ p \notin Range(queue)
    /\ \A r \in Procs : p \notin Range(q[r]) /\ p \notin ok[r]
NotYet == \A p \in Procs : pc[p] \in Unrecorded => Unseen(p)

(* What a process was answered 2xx for is owed no more. *)
Answered == \A p \in Procs : ok[p] \cap owed = {}

(* While nobody has gone round the lock, a process in the critical section  *)
(* holds it, what it read covers the file, and the file covers what is owed. *)
Guarded ==
    ~gaveUp =>
      /\ owed \subseteq Range(queue)
      /\ \A p \in Procs :
            /\ pc[p] \in Inside => lock = p /\ held[p]
            /\ pc[p] \in Writing => Range(queue) \subseteq Range(q[p])

LockInv == NotYet /\ Answered /\ Guarded

LEMMA NotYetSteps ==
    ASSUME TypeInv, LockInv, NEW p \in Procs, Step(p)
    PROVE  NotYet'
<1> USE EmptyQueue DEF TypeInv, TypeOK, LockInv, NotYet, Unseen, Unrecorded, Writing, Inside, Working, Telling,
        Labels, Goto, files, local, past
<1>1. CASE Notice(p)
    BY <1>1 DEF Notice, Disclose, Skip
<1>2. CASE Create(p)
    BY <1>2 DEF Create
<1>3. CASE Show(p)
    BY <1>3 DEF Show
<1>4. CASE Work(p)
    BY <1>4 DEF Work
<1>5. CASE Count(p)
    BY <1>5 DEF Count
<1>6. CASE Record(p)
    BY <1>6 DEF Record
<1>7. CASE TakeLock(p)
    BY <1>7 DEF TakeLock, Wanting, LockFree, Reading
<1>8. CASE Contend(p)
    BY <1>8, ZenonT(60) DEF Contend, Wanting, Reading
<1>9. CASE Steal(p)
    BY <1>9 DEF Steal
<1>10. CASE ReadQueue(p)
    BY <1>10 DEF ReadQueue
<1>11. CASE WriteAppended(p)
  <2>1. /\ Append(q[p], p) \in Seq(Procs)
        /\ Range(Append(q[p], p)) = Range(q[p]) \cup {p}
      BY RangeOfAppend
  <2>2. Range(queue') \subseteq Range(q[p]) \cup {p}
      BY <1>11, <2>1, NewestFacts DEF WriteAppended
  <2>3. owed' \subseteq owed \cup {p}
      BY <1>11 DEF WriteAppended
  <2>4. pc' = [pc EXCEPT ![p] = "unlock"] /\ q' = q /\ ok' = ok
      BY <1>11 DEF WriteAppended
  <2> QED BY <2>2, <2>3, <2>4
<1>12. CASE WriteRemaining(p)
  <2>1. Range(queue') \subseteq Range(q[p])
      BY <1>12, WithoutFacts DEF WriteRemaining
  <2>2. pc' = [pc EXCEPT ![p] = "unlock"] /\ q' = q /\ ok' = ok /\ owed' = owed
      BY <1>12 DEF WriteRemaining
  <2> QED BY <1>12, <2>1, <2>2 DEF WriteRemaining
<1>13. CASE Unlock(p)
    BY <1>13 DEF Unlock
<1>14. CASE Flush(p)
  <2>1. \/ q' = q /\ pc' = [pc EXCEPT ![p] = "end"]
        \/ q' = [q EXCEPT ![p] = queue] /\ pc' = [pc EXCEPT ![p] = "send"]
      BY <1>14 DEF Flush
  <2>2. UNCHANGED <<queue, ok, owed>>
      BY <1>14 DEF Flush
  <2>3. CASE q' = q /\ pc' = [pc EXCEPT ![p] = "end"]
      BY <2>2, <2>3
  <2>4. CASE q' = [q EXCEPT ![p] = queue] /\ pc' = [pc EXCEPT ![p] = "send"]
      BY <2>2, <2>4
  <2> QED BY <2>1, <2>3, <2>4
<1>15. CASE Send(p)
  <2> DEFINE n == IF Len(q[p]) < MaxBatch THEN Len(q[p]) ELSE MaxBatch
  <2>1. q[p] \in Seq(Procs) /\ n \in 0..Len(q[p])
      BY BoundsAssumption
  <2>2. PICK delivered \in SUBSET Range(SubSeq(q[p], 1, n)) :
           /\ ok' = [ok EXCEPT ![p] = delivered]
           /\ owed' = owed \ delivered
           /\ pc' = [pc EXCEPT ![p] = IF delivered = {} THEN "end" ELSE "relock"]
      BY <1>15 DEF Send
  <2>3. delivered \subseteq Range(q[p])
    <3> HIDE DEF n
    <3> QED BY <2>1, PrefixFacts
  <2>4. pc[p] = "send" /\ UNCHANGED <<queue, q>>
      BY <1>15 DEF Send
  <2> QED BY <2>2, <2>3, <2>4
<1>16. CASE Toggle(p)
    BY <1>16 DEF Toggle
<1>17. CASE Set(p)
    BY <1>17 DEF Set
<1>18. CASE Clear(p)
    BY <1>18 DEF Clear
<1>19. CASE End(p)
    BY <1>19 DEF End, Gone
<1> QED BY <1>1, <1>2, <1>3, <1>4, <1>5, <1>6, <1>7, <1>8, <1>9, <1>10, <1>11, <1>12, <1>13, <1>14, <1>15, <1>16, <1>17, <1>18, <1>19 DEF Step

LEMMA AnsweredSteps ==
    ASSUME TypeInv, LockInv, NEW p \in Procs, Step(p)
    PROVE  Answered'
<1> USE EmptyQueue DEF TypeInv, TypeOK, LockInv, Answered, NotYet, Unseen, Unrecorded, Writing, Inside, Working, Telling,
        Labels, Goto, files, local, past
<1>1. CASE Notice(p)
    BY <1>1 DEF Notice, Disclose, Skip
<1>2. CASE Create(p)
    BY <1>2 DEF Create
<1>3. CASE Show(p)
    BY <1>3 DEF Show
<1>4. CASE Work(p)
    BY <1>4 DEF Work
<1>5. CASE Count(p)
    BY <1>5 DEF Count
<1>6. CASE Record(p)
    BY <1>6 DEF Record
<1>7. CASE TakeLock(p)
    BY <1>7 DEF TakeLock, Wanting, LockFree, Reading
<1>8. CASE Contend(p)
    BY <1>8 DEF Contend, Wanting, Reading
<1>9. CASE Steal(p)
    BY <1>9 DEF Steal
<1>10. CASE ReadQueue(p)
    BY <1>10 DEF ReadQueue
<1>11. CASE WriteAppended(p)
    BY <1>11 DEF WriteAppended
<1>12. CASE WriteRemaining(p)
    BY <1>12 DEF WriteRemaining
<1>13. CASE Unlock(p)
    BY <1>13 DEF Unlock
<1>14. CASE Flush(p)
    BY <1>14 DEF Flush
<1>15. CASE Send(p)
    BY <1>15 DEF Send
<1>16. CASE Toggle(p)
    BY <1>16 DEF Toggle
<1>17. CASE Set(p)
    BY <1>17 DEF Set
<1>18. CASE Clear(p)
    BY <1>18 DEF Clear
<1>19. CASE End(p)
    BY <1>19 DEF End, Gone
<1> QED BY <1>1, <1>2, <1>3, <1>4, <1>5, <1>6, <1>7, <1>8, <1>9, <1>10, <1>11, <1>12, <1>13, <1>14, <1>15, <1>16, <1>17, <1>18, <1>19 DEF Step

LEMMA GuardedSteps ==
    ASSUME TypeInv, LockInv, NEW p \in Procs, Step(p)
    PROVE  Guarded'
<1> USE EmptyQueue DEF TypeInv, TypeOK, LockInv, Guarded, Answered, Unrecorded, Writing, Inside, Working, Telling,
        Labels, Goto, files, local, past
<1>1. CASE Notice(p)
    BY <1>1 DEF Notice, Disclose, Skip
<1>2. CASE Create(p)
    BY <1>2 DEF Create
<1>3. CASE Show(p)
    BY <1>3 DEF Show
<1>4. CASE Work(p)
    BY <1>4 DEF Work
<1>5. CASE Count(p)
    BY <1>5 DEF Count
<1>6. CASE Record(p)
    BY <1>6 DEF Record
<1>7. CASE TakeLock(p)
    BY <1>7, LockAssumption DEF TakeLock, Wanting, LockFree, Reading
<1>8. CASE Contend(p)
    BY <1>8 DEF Contend, Wanting, Reading
<1>9. CASE Steal(p)
    BY <1>9 DEF Steal
<1>10. CASE ReadQueue(p)
    BY <1>10 DEF ReadQueue
<1>11. CASE WriteAppended(p)
  <2>1. /\ Append(q[p], p) \in Seq(Procs)
        /\ Range(Append(q[p], p)) = Range(q[p]) \cup {p}
      BY RangeOfAppend
  <2> DEFINE longer == Append(q[p], p)
  <2>2. /\ pc[p] = "appendWrite"
        /\ queue' = Newest(longer)
        /\ owed' = (owed \cup {p}) \ (Range(longer) \ Range(Newest(longer)))
        /\ pc' = [pc EXCEPT ![p] = "unlock"]
        /\ UNCHANGED <<lock, held, q, ok, gaveUp>>
      BY <1>11 DEF WriteAppended
  <2>3. SUFFICES ASSUME ~gaveUp PROVE Guarded'
      BY <2>2
  <2>4. owed \cup {p} \subseteq Range(longer)
      BY <2>1, <2>2, <2>3
  <2>5. owed' \subseteq Range(queue)'
      BY <2>2, <2>4
  <2>6. \A r \in Procs : pc'[r] \in Writing => r = p
      BY <2>2, <2>3
  <2>7. pc'[p] \notin Writing
      BY <2>2
  <2>8. \A r \in Procs : pc'[r] \in Inside => lock' = r /\ held'[r]
      BY <2>2, <2>3
  <2> QED BY <2>5, <2>6, <2>7, <2>8
<1>12. CASE WriteRemaining(p)
  <2>1. Range(Without(q[p], ok[p])) = Range(q[p]) \ ok[p]
      BY WithoutFacts
  <2>2. /\ pc[p] = "removeWrite"
        /\ queue' = Without(q[p], ok[p])
        /\ pc' = [pc EXCEPT ![p] = "unlock"]
        /\ UNCHANGED <<lock, held, q, ok, owed, gaveUp>>
      BY <1>12 DEF WriteRemaining
  <2>3. SUFFICES ASSUME ~gaveUp PROVE Guarded'
      BY <2>2
  <2>4. owed' \subseteq Range(queue)'
      BY <2>1, <2>2, <2>3
  <2>5. \A r \in Procs : pc'[r] \notin Writing
      BY <2>2, <2>3
  <2>6. \A r \in Procs : pc'[r] \in Inside => lock' = r /\ held'[r]
      BY <2>2, <2>3
  <2> QED BY <2>4, <2>5, <2>6
<1>13. CASE Unlock(p)
    BY <1>13 DEF Unlock
<1>14. CASE Flush(p)
    BY <1>14 DEF Flush
<1>15. CASE Send(p)
    BY <1>15 DEF Send
<1>16. CASE Toggle(p)
    BY <1>16 DEF Toggle
<1>17. CASE Set(p)
    BY <1>17 DEF Set
<1>18. CASE Clear(p)
    BY <1>18 DEF Clear, InQueue
<1>19. CASE End(p)
    BY <1>19 DEF End, Gone
<1> QED BY <1>1, <1>2, <1>3, <1>4, <1>5, <1>6, <1>7, <1>8, <1>9, <1>10, <1>11, <1>12, <1>13, <1>14, <1>15, <1>16, <1>17, <1>18, <1>19 DEF Step

LEMMA LockNext == TypeInv /\ LockInv /\ [Next]_vars => LockInv'
<1> SUFFICES ASSUME TypeInv, LockInv, [Next]_vars PROVE LockInv'
    OBVIOUS
<1> USE EmptyQueue DEF TypeInv, TypeOK, LockInv, NotYet, Unseen, Answered, Guarded,
        Unrecorded, Writing, Inside, Working, Telling, Labels, Goto, files, local, past
<1>1. ASSUME NEW p \in Procs, NEW c \in Commands, NEW e \in Envs, Start(p, c, e)
      PROVE  LockInv'
    BY <1>1 DEF Start
<1>2. ASSUME NEW p \in Procs, Step(p)
      PROVE  LockInv'
  <2> USE DEF LockInv
  <2>1. NotYet' /\ Answered' /\ Guarded'
    <3> HIDE DEF NotYet, Answered, Guarded
    <3> QED BY <1>2, NotYetSteps, AnsweredSteps, GuardedSteps
  <2> QED BY <2>1
<1>3. ASSUME NEW p \in Procs, Kill(p)
      PROVE  LockInv'
  <2>1. NotYet'
      BY <1>3 DEF Kill, Gone
  <2>2. Answered'
      BY <1>3 DEF Kill, Gone
  <2>3. Guarded'
      BY <1>3 DEF Kill, Gone
  <2> QED BY <2>1, <2>2, <2>3
<1>4. CASE UNCHANGED vars
    BY <1>4 DEF vars
<1> QED BY <1>1, <1>2, <1>3, <1>4 DEF Next

LEMMA LockInit == Init => LockInv
BY EmptyQueue DEF Init, LockInv, NotYet, Unseen, Answered, Guarded, Unrecorded, Writing, Inside, Working, Telling

THEOREM LockInvariant == Spec => []LockInv
BY TypeInvariant, LockInit, LockNext, PTL DEF Spec

(* Unless a process went on without the lock or took a live one for stale,  *)
(* concurrent invocations of any number lose no event, wherever one is      *)
(* killed (withQueueLock, recordEvent, the removal in flushTelemetry).      *)
THEOREM NothingLost == Spec => []NoEventLost
<1>1. LockInv => NoEventLost
    BY DEF LockInv, Guarded, NoEventLost, InQueue
<1> QED BY LockInvariant, <1>1, PTL

-----------------------------------------------------------------------------
(* A lone opt-out is complete. *)

Off(s) == s \in States /\ ~s.enabled

(* While it runs, the lone opt-out is the only process, and what it has     *)
(* done so far is done.                                                     *)
OnlyOptOut(p) ==
    /\ \A r \in Procs \ {p} : pc[r] \in {"new", "gone"}
    /\ cmd[p] = "disable"
    /\ pc[p] \in {"toggle", "create", "set", "clear", "end"}
    /\ pc[p] \in {"clear", "end"} => Off(state)
    /\ pc[p] = "end" => queue = <<>>

(* Afterwards every process finds reporting off and gets past each of the   *)
(* decisions without queueing, transmitting or writing the preference.      *)
StaysOff ==
    /\ Off(state) /\ queue = <<>>
    /\ \A p \in Procs :
          /\ pc[p] \in {"new", "notice", "work", "record", "flush", "end", "gone"}
          /\ pc[p] \notin {"new", "gone"} => env[p] # "on" /\ cmd[p] \notin Toggles

LoneInv == alone => StaysOff \/ \E p \in Procs : OnlyOptOut(p)

LEMMA DisabledWhenOff ==
    ASSUME TypeInv, StaysOff, NEW p \in Running
    PROVE  ~Enabled(p)
BY StateAssumption DEF TypeInv, TypeOK, StaysOff, Off, Running, Enabled

LEMMA OffSteps ==
    ASSUME TypeInv, StaysOff, NEW p \in Procs, Step(p)
    PROVE  StaysOff'
<1> DEFINE disabled == ~Enabled(p)
<1>0. disabled \/ pc[p] \in {"new", "gone"}
    BY DisabledWhenOff DEF Running
<1> HIDE DEF disabled
<1> USE DEF TypeInv, TypeOK, StaysOff, Off, Goto, files, local, past
<1>1. CASE Notice(p)
    BY <1>0, <1>1 DEF Notice, Disclose, Skip, disabled
<1>2. CASE Create(p)
    BY <1>2 DEF Create
<1>3. CASE Show(p)
    BY <1>3 DEF Show
<1>4. CASE Work(p)
    BY <1>0, <1>4 DEF Work, disabled
<1>5. CASE Count(p)
    BY <1>5 DEF Count
<1>6. CASE Record(p)
    BY <1>0, <1>6 DEF Record, disabled
<1>7. CASE TakeLock(p)
    BY <1>7 DEF TakeLock, Wanting, Reading
<1>8. CASE Contend(p)
    BY <1>8 DEF Contend, Wanting, Reading
<1>9. CASE Steal(p)
    BY <1>9 DEF Steal
<1>10. CASE ReadQueue(p)
    BY <1>10 DEF ReadQueue
<1>11. CASE WriteAppended(p)
    BY <1>11 DEF WriteAppended
<1>12. CASE WriteRemaining(p)
    BY <1>12 DEF WriteRemaining
<1>13. CASE Unlock(p)
    BY <1>13 DEF Unlock
<1>14. CASE Flush(p)
    BY <1>0, <1>14 DEF Flush, disabled
<1>15. CASE Send(p)
    BY <1>15 DEF Send
<1>16. CASE Toggle(p)
    BY <1>16 DEF Toggle
<1>17. CASE Set(p)
    BY <1>17 DEF Set
<1>18. CASE Clear(p)
    BY <1>18 DEF Clear
<1>19. CASE End(p)
    BY <1>19 DEF End, Gone
<1> QED BY <1>1, <1>2, <1>3, <1>4, <1>5, <1>6, <1>7, <1>8, <1>9, <1>10, <1>11, <1>12, <1>13, <1>14, <1>15, <1>16, <1>17, <1>18, <1>19 DEF Step

LEMMA OptOutSteps ==
    ASSUME TypeInv, NEW o \in Procs, OnlyOptOut(o), NEW p \in Procs, Step(p)
    PROVE  StaysOff' \/ OnlyOptOut(o)'
<1> USE DEF TypeInv, TypeOK, StaysOff, OnlyOptOut, Off, Toggles, Goto, files, local, past
<1>1. CASE Notice(p)
    BY <1>1 DEF Notice, Disclose, Skip
<1>2. CASE Create(p)
    BY <1>2 DEF Create
<1>3. CASE Show(p)
    BY <1>3 DEF Show
<1>4. CASE Work(p)
    BY <1>4 DEF Work
<1>5. CASE Count(p)
    BY <1>5 DEF Count
<1>6. CASE Record(p)
    BY <1>6 DEF Record
<1>7. CASE TakeLock(p)
    BY <1>7 DEF TakeLock, Wanting, Reading
<1>8. CASE Contend(p)
    BY <1>8 DEF Contend, Wanting, Reading
<1>9. CASE Steal(p)
    BY <1>9 DEF Steal
<1>10. CASE ReadQueue(p)
    BY <1>10 DEF ReadQueue
<1>11. CASE WriteAppended(p)
    BY <1>11 DEF WriteAppended
<1>12. CASE WriteRemaining(p)
    BY <1>12 DEF WriteRemaining
<1>13. CASE Unlock(p)
    BY <1>13 DEF Unlock
<1>14. CASE Flush(p)
    BY <1>14 DEF Flush
<1>15. CASE Send(p)
    BY <1>15 DEF Send
<1>16. CASE Toggle(p)
    BY <1>16 DEF Toggle
<1>17. CASE Set(p)
  <2>1. p = o /\ st[p] \in States
      BY <1>17 DEF Set, HoldsState, Holding
  <2>2. state' = [st[p] EXCEPT !.enabled = FALSE]
      BY <1>17, <2>1 DEF Set
  <2>3. Off(state')
      BY <2>1, <2>2, StateFacts
  <2>4. pc' = [pc EXCEPT ![p] = "clear"] /\ UNCHANGED <<queue, cmd>>
      BY <1>17, <2>1 DEF Set
  <2> QED BY <2>1, <2>3, <2>4
<1>18. CASE Clear(p)
    BY <1>18 DEF Clear
<1>19. CASE End(p)
    BY <1>19 DEF End, Gone
<1> QED BY <1>1, <1>2, <1>3, <1>4, <1>5, <1>6, <1>7, <1>8, <1>9, <1>10, <1>11, <1>12, <1>13, <1>14, <1>15, <1>16, <1>17, <1>18, <1>19 DEF Step

LEMMA AloneSteps ==
    ASSUME NEW p \in Procs, Step(p)
    PROVE  alone' = alone
BY DEF past, Step, Notice, Create, Show, Work, Count, Record, TakeLock, Contend, Steal, ReadQueue,
       WriteAppended, WriteRemaining, Unlock, Flush, Send, Toggle, Set, Clear, End

LEMMA LoneNext == TypeInv /\ LoneInv /\ [Next]_vars => LoneInv'
<1> SUFFICES ASSUME TypeInv, LoneInv, alone', [Next]_vars
             PROVE  StaysOff' \/ \E p \in Procs : OnlyOptOut(p)'
    BY DEF LoneInv
<1>1. ASSUME NEW p \in Procs, NEW c \in Commands, NEW e \in Envs, Start(p, c, e)
      PROVE  StaysOff' \/ \E r \in Procs : OnlyOptOut(r)'
  <2> USE DEF TypeInv, TypeOK, files
  <2>1. /\ pc[p] = "new"
        /\ cmd' = [cmd EXCEPT ![p] = c] /\ env' = [env EXCEPT ![p] = e]
        /\ pc' = [pc EXCEPT ![p] = IF c \in Toggles THEN "toggle" ELSE "notice"]
        /\ UNCHANGED <<state, queue>>
      BY <1>1 DEF Start, Goto
  <2>2. CASE c = "disable"
    <3>1. Running = {}
        BY <1>1, <2>2 DEF Start
    <3>2. \A r \in Procs : pc[r] \in {"new", "gone"}
        BY <3>1 DEF Running
    <3> QED BY <2>1, <2>2, <3>2 DEF OnlyOptOut, Toggles
  <2>3. CASE c # "disable"
    <3>1. alone /\ c # "enable" /\ e # "on" /\ ~OptingOut
        BY <1>1, <2>3, Zenon DEF Start
    <3>2. \A r \in Procs : ~OnlyOptOut(r)
        BY <3>1 DEF OnlyOptOut, OptingOut, Running
    <3>3. StaysOff
        BY <3>1, <3>2 DEF LoneInv
    <3> QED BY <2>1, <2>3, <3>1, <3>3 DEF StaysOff, Off, Toggles
  <2> QED BY <2>2, <2>3
<1>2. ASSUME NEW p \in Procs, Step(p)
      PROVE  StaysOff' \/ \E r \in Procs : OnlyOptOut(r)'
  <2>1. alone
      BY <1>2, AloneSteps
  <2> QED BY <1>2, <2>1, OffSteps, OptOutSteps DEF LoneInv
<1>3. ASSUME NEW p \in Procs, Kill(p)
      PROVE  StaysOff' \/ \E r \in Procs : OnlyOptOut(r)'
  <2>1. alone /\ cmd[p] # "disable" /\ p \in Running
      BY <1>3, Zenon DEF Kill
  <2>2. \A r \in Procs : ~OnlyOptOut(r)
      BY <2>1 DEF OnlyOptOut, Running
  <2>3. StaysOff
      BY <2>1, <2>2 DEF LoneInv
  <2> QED BY <1>3, <2>3 DEF Kill, Gone, StaysOff, Off, Goto, TypeInv, TypeOK
<1>4. CASE UNCHANGED vars
  <2> QED BY <1>4 DEF vars, files, local, past, LoneInv, StaysOff, OnlyOptOut
<1> QED BY <1>1, <1>2, <1>3, <1>4 DEF Next

LEMMA LoneInit == Init => LoneInv
BY DEF Init, LoneInv

(* An opt-out that ran with nothing else running is complete until the user *)
(* enables reporting again: the preference stays off, the queue empty, and  *)
(* no invocation is about to transmit (allodic telemetry disable).          *)
THEOREM OptOutIsComplete == Spec => []LoneOptOutHolds
<1>1. TypeInv /\ LoneInv => LoneOptOutHolds
  <2> SUFFICES ASSUME TypeInv, LoneInv, alone, ~OptingOut
               PROVE  /\ state # NoState /\ ~state.enabled
                      /\ queue = <<>>
                      /\ \A p \in Procs : pc[p] # "send"
      BY DEF LoneOptOutHolds
  <2>1. \A r \in Procs : ~OnlyOptOut(r)
      BY DEF OnlyOptOut, OptingOut, Running
  <2>2. StaysOff
      BY <2>1 DEF LoneInv
  <2> QED BY <2>2, StateAssumption DEF StaysOff, Off
<1> QED BY TypeInvariant, LoneInit, LoneNext, <1>1, PTL DEF Spec
=============================================================================
