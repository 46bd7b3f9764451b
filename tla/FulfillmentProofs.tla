------------------------- MODULE FulfillmentProofs -------------------------
(* Theorems about Fulfillment, for every value of its constants. *)
EXTENDS Fulfillment, FiniteSetTheorems, WellFoundedInduction, TLAPS

-----------------------------------------------------------------------------
(* Induction on natural numbers and on the subsets of a finite set, each    *)
(* for the elements of a set: what holds from one to the next holds of all. *)

LEMMA LeastNatural ==
    ASSUME NEW T \in SUBSET Nat, T # {}
    PROVE  \E m \in T : \A k \in T : m <= k
<1> DEFINE R == {ss \in Nat \X Nat : ss[1] < ss[2]}
<1>1. R = OpToRel(<, Nat)
    BY DEF OpToRel
<1>2. IsWellFoundedOn(R, Nat)
    BY <1>1, NatLessThanWellFounded
<1>3. PICK m \in T : \A k \in T : ~ (<<k, m>> \in R)
  <2> HIDE DEF R
  <2> QED BY <1>2, WFMin
<1>4. \A k \in T : ~ (k < m)
    BY <1>3
<1> QED BY <1>4

LEMMA NatSetInduction ==
    ASSUME NEW T, 0 \in T, \A n \in Nat : n \in T => n + 1 \in T
    PROVE  Nat \subseteq T
<1> DEFINE B == {n \in Nat : n \notin T}
<1> SUFFICES ASSUME B # {} PROVE FALSE
    OBVIOUS
<1>1. PICK m \in B : \A k \in B : m <= k
    BY LeastNatural
<1>2. m # 0
    BY <1>1
<1>3. m - 1 \in Nat /\ m - 1 \notin B
    BY <1>1, <1>2
<1> QED BY <1>1, <1>3

(* Induction on the subsets of a finite set, by their size. *)
LEMMA SubsetInduction ==
    ASSUME NEW S, IsFiniteSet(S), NEW T,
           {} \in T,
           \A A \in SUBSET S : A # {} /\ (\A x \in A : A \ {x} \in T) => A \in T
    PROVE  SUBSET S \subseteq T
<1> DEFINE N == {n \in Nat : \A A \in SUBSET S : Cardinality(A) = n => A \in T}
<1>1. \A A \in SUBSET S : IsFiniteSet(A) /\ Cardinality(A) \in Nat
    BY FS_Subset, FS_CardinalityType
<1>2. 0 \in N
    BY <1>1, FS_EmptySet
<1>3. ASSUME NEW n \in Nat, n \in N PROVE n + 1 \in N
  <2> SUFFICES ASSUME NEW A \in SUBSET S, Cardinality(A) = n + 1 PROVE A \in T
      OBVIOUS
  <2>1. A # {}
      BY FS_EmptySet
  <2>2. ASSUME NEW x \in A PROVE A \ {x} \in T
    <3>1. Cardinality(A \ {x}) = n
        BY <1>1, FS_RemoveElement
    <3> QED BY <1>3, <3>1
  <2> QED BY <2>1, <2>2
<1> HIDE DEF N
<1>4. Nat \subseteq N
    BY <1>2, <1>3, NatSetInduction
<1> QED BY <1>1, <1>4 DEF N

-----------------------------------------------------------------------------
(* Sums over finite sets, SumFunctionOnSet of the community modules.  It    *)
(* adds one chosen element after another; Adds says that g holds the sums   *)
(* that are met on the way, of every subset of S.                           *)

Choice(s) == CHOOSE x \in s : TRUE
Adds(f, S, g) == g = [s \in SUBSET S |-> IF s = {} THEN 0 ELSE f[Choice(s)] + g[s \ {Choice(s)}]]

LEMMA SumIsFold ==
    ASSUME NEW f, NEW S
    PROVE  SumFunctionOnSet(f, S) = (CHOOSE g : Adds(f, S, g))[S]
BY Zenon DEF SumFunctionOnSet, FoldFunctionOnSet, MapThenFoldSet, Adds, Choice

LEMMA ChoiceIn == ASSUME NEW s, s # {} PROVE Choice(s) \in s
BY DEF Choice

LEMMA AddsExists ==
    ASSUME NEW f, NEW S, IsFiniteSet(S)
    PROVE  \E g : Adds(f, S, g)
<1> DEFINE Small(n) == {s \in SUBSET S : Cardinality(s) <= n}
           Sum(g, s) == IF s = {} THEN 0 ELSE f[Choice(s)] + g[s \ {Choice(s)}]
           N == {n \in Nat : \E g : \A s \in Small(n) : g[s] = Sum(g, s)}
<1>1. \A A \in SUBSET S : IsFiniteSet(A) /\ Cardinality(A) \in Nat
    BY FS_Subset, FS_CardinalityType
<1>2. \A s \in SUBSET S : s # {} => /\ Choice(s) \in s /\ s \ {Choice(s)} \in SUBSET S
                                    /\ Cardinality(s \ {Choice(s)}) = Cardinality(s) - 1
    BY <1>1, ChoiceIn, FS_RemoveElement
<1>3. 0 \in N
  <2> DEFINE g == [s \in SUBSET S |-> 0]
  <2>1. \A s \in Small(0) : s = {}
      BY <1>1, FS_EmptySet
  <2>2. \A s \in Small(0) : g[s] = Sum(g, s)
      BY <2>1
  <2> QED BY <2>2
<1>4. ASSUME NEW n \in Nat, n \in N PROVE n + 1 \in N
  <2>1. PICK g : \A s \in Small(n) : g[s] = Sum(g, s)
      BY <1>4
  <2> DEFINE h == [s \in SUBSET S |-> IF s \in Small(n) THEN g[s] ELSE Sum(g, s)]
  <2>2. \A s \in Small(n) : h[s] = g[s]
      OBVIOUS
  <2>3. ASSUME NEW s \in Small(n + 1) PROVE h[s] = Sum(h, s)
    <3>1. CASE s = {}
      <4>1. h[s] = Sum(g, s)
          BY <2>1
      <4> QED BY <3>1, <4>1
    <3>2. CASE s # {}
      <4>1. s \ {Choice(s)} \in Small(n)
          BY <1>1, <1>2, <3>2
      <4>2. h[s \ {Choice(s)}] = g[s \ {Choice(s)}]
          BY <2>2, <4>1
      <4>3. h[s] = Sum(g, s)
          BY <2>1
      <4> QED BY <3>2, <4>2, <4>3
    <3> QED BY <3>1, <3>2
  <2>4. \E k : \A s \in Small(n + 1) : k[s] = Sum(k, s)
    <3> HIDE DEF h, Small
    <3> QED BY <2>3
  <2> DEFINE Reaches(m) == \E k : \A s \in Small(m) : k[s] = Sum(k, s)
  <2>5. \A m \in Nat : Reaches(m) => m \in N
      BY Zenon
  <2>6. Reaches(n + 1)
    <3> HIDE DEF h, Small, Sum
    <3> QED BY <2>4, Zenon
  <2>7. n + 1 \in Nat
      OBVIOUS
  <2> QED
    <3> HIDE DEF Reaches, N
    <3> QED BY <2>5, <2>6, <2>7
<1> HIDE DEF N
<1>5. Nat \subseteq N
    BY <1>3, <1>4, NatSetInduction
<1>6. PICK g : \A s \in Small(Cardinality(S)) : g[s] = Sum(g, s)
    BY <1>1, <1>5 DEF N
<1>7. \A s \in SUBSET S : s \in Small(Cardinality(S))
    BY FS_Subset
<1> DEFINE h == [s \in SUBSET S |-> g[s]]
<1>8. \A s \in SUBSET S : h[s] = Sum(h, s)
    BY <1>2, <1>6, <1>7
<1>9. h = [s \in SUBSET S |-> Sum(h, s)]
    BY <1>8
<1> HIDE DEF h
<1> QED BY <1>9 DEF Adds

LEMMA AddsFacts ==
    ASSUME NEW f, NEW S, NEW g, Adds(f, S, g)
    PROVE  /\ g[{}] = 0
           /\ \A s \in SUBSET S : s # {} => g[s] = f[Choice(s)] + g[s \ {Choice(s)}]
BY DEF Adds

LEMMA AddsType ==
    ASSUME NEW S, IsFiniteSet(S), NEW f, \A x \in S : f[x] \in Int, NEW g, Adds(f, S, g)
    PROVE  \A s \in SUBSET S : g[s] \in Int
<1> DEFINE T == {s \in SUBSET S : g[s] \in Int}
<1>1. {} \in T
    BY AddsFacts
<1>2. ASSUME NEW A \in SUBSET S, A # {}, \A x \in A : A \ {x} \in T PROVE A \in T
  <2> DEFINE c == Choice(A)
  <2>1. c \in A /\ g[A] = f[c] + g[A \ {c}]
      BY <1>2, ChoiceIn, AddsFacts
  <2> HIDE DEF c
  <2>2. f[c] \in Int /\ g[A \ {c}] \in Int
      BY <1>2, <2>1
  <2> QED BY <2>1, <2>2
<1> HIDE DEF T
<1>3. SUBSET S \subseteq T
    BY <1>1, <1>2, SubsetInduction
<1> QED BY <1>3 DEF T

(* The order of the summands does not matter. *)
LEMMA AddsAny ==
    ASSUME NEW S, IsFiniteSet(S), NEW f, \A x \in S : f[x] \in Int, NEW g, Adds(f, S, g)
    PROVE  \A s \in SUBSET S : \A x \in s : g[s] = f[x] + g[s \ {x}]
<1> DEFINE T == {s \in SUBSET S : \A x \in s : g[s] = f[x] + g[s \ {x}]}
<1>1. {} \in T
    OBVIOUS
<1>2. ASSUME NEW A \in SUBSET S, A # {}, \A x \in A : A \ {x} \in T PROVE A \in T
  <2> SUFFICES ASSUME NEW x \in A PROVE g[A] = f[x] + g[A \ {x}]
      OBVIOUS
  <2> DEFINE c == Choice(A)
  <2>1. c \in A /\ g[A] = f[c] + g[A \ {c}]
      BY <1>2, ChoiceIn, AddsFacts
  <2> HIDE DEF c
  <2>2. CASE x = c
      BY <2>1, <2>2
  <2>3. CASE x # c
    <3>1. g[A \ {c}] = f[x] + g[(A \ {c}) \ {x}]
        BY <1>2, <2>1, <2>3
    <3>2. g[A \ {x}] = f[c] + g[(A \ {x}) \ {c}]
        BY <1>2, <2>1, <2>3
    <3>3. (A \ {c}) \ {x} = (A \ {x}) \ {c}
        OBVIOUS
    <3>4. f[x] \in Int /\ f[c] \in Int
        BY <2>1
    <3>5. (A \ {x}) \ {c} \in SUBSET S
        OBVIOUS
    <3>6. g[(A \ {x}) \ {c}] \in Int
        BY <3>5, AddsType
    <3> DEFINE r == g[(A \ {x}) \ {c}]
    <3>7. g[A] = f[c] + (f[x] + r) /\ g[A \ {x}] = f[c] + r
        BY <2>1, <3>1, <3>2, <3>3
    <3>8. r \in Int
        BY <3>6
    <3> HIDE DEF r
    <3> QED BY <3>4, <3>7, <3>8
  <2> QED BY <2>2, <2>3
<1> HIDE DEF T
<1>3. SUBSET S \subseteq T
    BY <1>1, <1>2, SubsetInduction
<1> QED BY <1>3 DEF T

(* Sums of functions that agree. *)
LEMMA AddsAgree ==
    ASSUME NEW S, IsFiniteSet(S), NEW R \in SUBSET S,
           NEW f, NEW h, \A x \in R : f[x] = h[x],
           NEW g, Adds(f, S, g), NEW k, Adds(h, R, k)
    PROVE  g[R] = k[R]
<1> DEFINE T == {s \in SUBSET R : g[s] = k[s]}
<1>0. IsFiniteSet(R)
    BY FS_Subset
<1>1. {} \in T
    BY AddsFacts
<1>2. ASSUME NEW A \in SUBSET R, A # {}, \A x \in A : A \ {x} \in T PROVE A \in T
  <2> DEFINE c == Choice(A)
  <2>1. c \in A /\ g[A] = f[c] + g[A \ {c}] /\ k[A] = h[c] + k[A \ {c}]
      BY <1>2, ChoiceIn, AddsFacts
  <2> QED BY <1>2, <2>1
<1> HIDE DEF T
<1>3. SUBSET R \subseteq T
    BY <1>0, <1>1, <1>2, SubsetInduction
<1> QED BY <1>3 DEF T

LEMMA SumOf ==
    ASSUME NEW f, NEW S, IsFiniteSet(S)
    PROVE  \E g : Adds(f, S, g) /\ SumFunctionOnSet(f, S) = g[S]
<1> DEFINE g == CHOOSE g : Adds(f, S, g)
<1>1. Adds(f, S, g)
    BY AddsExists, Zenon
<1>2. SumFunctionOnSet(f, S) = g[S]
    BY SumIsFold, Zenon
<1> HIDE DEF g
<1> QED BY <1>1, <1>2

LEMMA SumEmpty == ASSUME NEW f PROVE SumFunctionOnSet(f, {}) = 0
<1>1. PICK g : Adds(f, {}, g) /\ SumFunctionOnSet(f, {}) = g[{}]
    BY SumOf, FS_EmptySet
<1> QED BY <1>1, AddsFacts

LEMMA SumInt ==
    ASSUME NEW S, IsFiniteSet(S), NEW f, \A x \in S : f[x] \in Int
    PROVE  SumFunctionOnSet(f, S) \in Int
<1>1. PICK g : Adds(f, S, g) /\ SumFunctionOnSet(f, S) = g[S]
    BY SumOf
<1> QED BY <1>1, AddsType

LEMMA SumAgree ==
    ASSUME NEW S, IsFiniteSet(S), NEW f, NEW h, \A x \in S : f[x] = h[x]
    PROVE  SumFunctionOnSet(f, S) = SumFunctionOnSet(h, S)
<1>1. PICK g : Adds(f, S, g) /\ SumFunctionOnSet(f, S) = g[S]
    BY SumOf
<1>2. PICK k : Adds(h, S, k) /\ SumFunctionOnSet(h, S) = k[S]
    BY SumOf
<1>3. S \in SUBSET S
    OBVIOUS
<1> QED BY <1>1, <1>2, <1>3, AddsAgree

LEMMA SumRemove ==
    ASSUME NEW S, IsFiniteSet(S), NEW f, \A x \in S : f[x] \in Int, NEW x \in S
    PROVE  SumFunctionOnSet(f, S) = f[x] + SumFunctionOnSet(f, S \ {x})
<1>1. PICK g : Adds(f, S, g) /\ SumFunctionOnSet(f, S) = g[S]
    BY SumOf
<1>2. IsFiniteSet(S \ {x}) /\ S \ {x} \in SUBSET S
    BY FS_RemoveElement
<1>3. PICK k : Adds(f, S \ {x}, k) /\ SumFunctionOnSet(f, S \ {x}) = k[S \ {x}]
    BY <1>2, SumOf
<1>4. g[S \ {x}] = k[S \ {x}]
    BY <1>1, <1>2, <1>3, AddsAgree
<1>5. g[S] = f[x] + g[S \ {x}]
    BY <1>1, AddsAny
<1> QED BY <1>1, <1>3, <1>4, <1>5

(* A sum of naturals is a natural, and at least that of any part.           *)
LEMMA AddsGrow ==
    ASSUME NEW S, IsFiniteSet(S), NEW f, \A x \in S : f[x] \in Nat, NEW g, Adds(f, S, g)
    PROVE  \A s \in SUBSET S : g[s] \in Nat /\ \A t \in SUBSET s : g[t] <= g[s]
<1> DEFINE T == {s \in SUBSET S : g[s] \in Nat /\ \A t \in SUBSET s : g[t] <= g[s]}
<1>1. {} \in T
    BY AddsFacts
<1>2. ASSUME NEW A \in SUBSET S, A # {}, \A x \in A : A \ {x} \in T PROVE A \in T
  <2>1. ASSUME NEW x \in A PROVE /\ g[A] \in Nat /\ g[A \ {x}] <= g[A]
                                 /\ \A t \in SUBSET (A \ {x}) : g[t] <= g[A]
    <3>1. g[A] = f[x] + g[A \ {x}]
        BY AddsAny
    <3>2. g[A \ {x}] \in Nat /\ f[x] \in Nat /\ \A t \in SUBSET (A \ {x}) : g[t] <= g[A \ {x}] /\ g[t] \in Int
        BY <1>2, AddsType
    <3> DEFINE r == g[A \ {x}]
               a == f[x]
               b == g[A]
    <3>3. r \in Nat /\ a \in Nat /\ b = a + r /\ \A t \in SUBSET (A \ {x}) : g[t] <= r /\ g[t] \in Int
        BY <3>1, <3>2
    <3> HIDE DEF r, a, b
    <3>4. b \in Nat /\ r <= b /\ \A t \in SUBSET (A \ {x}) : g[t] <= b
        BY <3>3
    <3> QED BY <3>4 DEF b, r
  <2>2. g[A] \in Nat
      BY <1>2, <2>1
  <2>3. ASSUME NEW t \in SUBSET A PROVE g[t] <= g[A]
    <3>1. CASE t = A
        BY <2>2, <3>1
    <3>2. CASE t # A
      <4>1. PICK x \in A : x \notin t
          BY <3>2
      <4>2. t \in SUBSET (A \ {x})
          BY <4>1
      <4> QED BY <2>1, <4>1, <4>2
    <3> QED BY <3>1, <3>2
  <2> QED BY <2>2, <2>3
<1> HIDE DEF T
<1>3. SUBSET S \subseteq T
    BY <1>1, <1>2, SubsetInduction
<1> QED BY <1>3 DEF T

LEMMA SumGrows ==
    ASSUME NEW S, IsFiniteSet(S), NEW f, \A x \in S : f[x] \in Nat, NEW R \in SUBSET S
    PROVE  /\ SumFunctionOnSet(f, S) \in Nat
           /\ SumFunctionOnSet(f, R) <= SumFunctionOnSet(f, S)
<1>1. PICK g : Adds(f, S, g) /\ SumFunctionOnSet(f, S) = g[S]
    BY SumOf
<1>2. IsFiniteSet(R)
    BY FS_Subset
<1>3. PICK k : Adds(f, R, k) /\ SumFunctionOnSet(f, R) = k[R]
    BY <1>2, SumOf
<1>4. g[R] = k[R]
    BY <1>1, <1>3, AddsAgree
<1>5. g[S] \in Nat /\ g[R] <= g[S]
    BY <1>1, AddsGrow
<1> QED BY <1>1, <1>3, <1>4, <1>5

-----------------------------------------------------------------------------
(* What the operators on orders and refunds return *)

USE DEF Prices, Versions

(* Whatever is booked, the amount kept on the order is within its price. *)
LEMMA ClampType ==
    ASSUME NEW amount \in Prices, NEW booked
    PROVE  ClampTo(amount, booked) \in 0..amount
  BY MaxPriceAssumption DEF ClampTo

LEMMA NoTermsType == NoTerms \in Terms
  BY MaxPriceAssumption, MaxVersionAssumption DEF NoTerms, Terms

LEMMA NewOrderType ==
    ASSUME NEW ref \in Sessions \cup {NoSession}, NEW terms \in Terms
    PROVE  /\ NewOrder(ref, terms) \in Orders
           /\ NewOrder(ref, terms).ref = ref
           /\ NewOrder(ref, terms).amount = terms.price
           /\ NewOrder(ref, terms).version = 0
  BY MaxPriceAssumption, MaxVersionAssumption DEF NewOrder, Terms, Orders, Reasons

(* Booking a refund keeps the terms of the sale. *)
LEMMA ApplyRefundType ==
    ASSUME NEW order \in Orders, NEW info
    PROVE  /\ ApplyRefund(order, info) \in Orders
           /\ ApplyRefund(order, info).ref = order.ref
           /\ ApplyRefund(order, info).amount = order.amount
           /\ ApplyRefund(order, info).version = order.version
  <1>1. order.amount \in Prices
    BY DEF Orders
  <1>2. ClampTo(order.amount, Raised(order, info)) \in Prices
    BY <1>1, ClampType, MaxPriceAssumption
  <1>3. Uncounted(order, info) \subseteq RefundIds
    BY DEF Uncounted
  <1> QED
    BY <1>2, <1>3 DEF ApplyRefund, Orders, Reasons

LEMMA PurchasedType ==
    ASSUME NEW order \in Orders, NEW terms \in Terms
    PROVE  /\ Purchased(order, terms) \in Orders
           /\ Purchased(order, terms).ref = order.ref
           /\ Purchased(order, terms).amount = order.amount
           /\ Purchased(order, terms).version =
                 IF order.version = 0 THEN terms.version ELSE order.version
  BY DEF Purchased, Orders, Terms

LEMMA MergeType ==
    ASSUME NEW p \in RefundInfo, NEW info \in RefundInfo
    PROVE  MergeRefund(p, info) \in RefundInfo
  BY DEF MergeRefund, RefundInfo, Larger

LEMMA NothingType == NothingToRefund \in RefundInfo
  BY MaxPriceAssumption DEF NothingToRefund, RefundInfo

LEMMA InfoType ==
    ASSUME NEW e \in Events
    PROVE  RefundInfoOf(e) \in RefundInfo
  <1>0. e.amount \in Prices /\ e.full \in BOOLEAN /\ 0 \in Prices
    BY MaxPriceAssumption DEF Events
  <1>1. CASE e.kind = Created
    BY <1>0, <1>1 DEF RefundInfoOf, RefundInfo
  <1>2. CASE e.kind # Created
    <2>1. RefundInfoOf(e) = [byId |-> [r \in RefundIds |-> 0],
                             cumulative |-> e.amount, full |-> e.full]
      BY <1>2 DEF RefundInfoOf, NothingToRefund
    <2> QED
      BY <1>0, <2>1 DEF RefundInfo
  <1> QED
    BY <1>1, <1>2

(* The order a paid event leaves behind, new or old. *)
LEMMA MintedType ==
    ASSUME TypeOK, NEW e \in Events, NEW id \in OrderIds
    PROVE  /\ Minted(e, id) \in Orders
           /\ IsOrder(id) =>
                /\ Minted(e, id).ref = orders[id].ref
                /\ Minted(e, id).amount = orders[id].amount
                /\ Minted(e, id).version = IF orders[id].version = 0
                                           THEN SettledTerms(e.session).version
                                           ELSE orders[id].version
           /\ ~IsOrder(id) =>
                /\ Minted(e, id).ref = e.session
                /\ Minted(e, id).amount = SettledTerms(e.session).price
                /\ Minted(e, id).version = SettledTerms(e.session).version
  <1> DEFINE terms == SettledTerms(e.session)
             order == IF IsOrder(id) THEN orders[id] ELSE NewOrder(e.session, terms)
             bought == Purchased(order, terms)
  <1>0. e.session \in Sessions
    BY DEF Events
  <1>1. terms \in Terms
    BY <1>0 DEF SettledTerms, TypeOK
  <1>2. order \in Orders
    BY <1>0, <1>1, NewOrderType DEF TypeOK, IsOrder
  <1>3. /\ bought \in Orders
        /\ bought.ref = order.ref
        /\ bought.amount = order.amount
        /\ bought.version = IF order.version = 0 THEN terms.version ELSE order.version
    BY <1>1, <1>2, PurchasedType
  <1>4. Minted(e, id) = ApplyRefund(bought, pending[e.session])
    BY DEF Minted
  <1>5. /\ Minted(e, id) \in Orders
        /\ Minted(e, id).ref = order.ref
        /\ Minted(e, id).amount = order.amount
        /\ Minted(e, id).version = IF order.version = 0 THEN terms.version ELSE order.version
    BY <1>3, <1>4, ApplyRefundType
  <1>6. CASE IsOrder(id)
    <2>1. order = orders[id]
      BY <1>6
    <2> QED
      BY <1>5, <1>6, <2>1
  <1>7. CASE ~IsOrder(id)
    <2>1. order = NewOrder(e.session, terms)
      BY <1>7
    <2>2. order.ref = e.session /\ order.amount = terms.price /\ order.version = 0
      BY <1>0, <1>1, <2>1, NewOrderType
    <2> QED
      BY <1>5, <1>7, <2>2
  <1> QED
    BY <1>6, <1>7

-----------------------------------------------------------------------------
(* Type correctness *)

LEMMA InitType == Init => TypeOK
  <1> SUFFICES ASSUME Init PROVE TypeOK
    OBVIOUS
  <1>1. NoTerms \in Terms /\ NothingToRefund \in RefundInfo /\ 0 \in Prices
    BY NoTermsType, NothingType, MaxPriceAssumption
  <1> QED
    BY <1>1 DEF Init, TypeOK, RefundKinds

(* A delivered event is one that Stripe has sent and leaves the records typed. *)
LEMMA ReceivedType ==
    ASSUME TypeOK, NEW e, Receives(e), MarkProcessed(e)
    PROVE  /\ e \in Events /\ e.session \in Sessions
           /\ told' \in SUBSET sent'
           /\ recorded' \in SUBSET Events /\ recorded' \in SUBSET told'
           /\ UNCHANGED <<listing, calling, stripe, orphaned>>
  <1>1. e \in sent /\ e \in Events /\ e.session \in Sessions
    BY DEF TypeOK, Receives, Events
  <1> QED
    BY <1>1 DEF TypeOK, Receives, MarkProcessed, stripe

(* Events Stripe emits about a session or a refund. *)
LEMMA SessionEventType ==
    ASSUME NEW kind \in {Completed, AsyncPaid}, NEW s \in Sessions,
           NEW amount \in Prices, NEW settled \in BOOLEAN
    PROVE  SessionEvent(kind, s, amount, settled) \in Events
  BY DEF SessionEvent, Events

LEMMA StepType == TypeOK /\ [Next]_vars => TypeOK'
  <1> SUFFICES ASSUME TypeOK, [Next]_vars PROVE TypeOK'
    OBVIOUS
  <1>0. 0 \in Prices /\ 0 \in Versions /\ NoTerms \in Terms /\ NothingToRefund \in RefundInfo
    BY NoTermsType, NothingType, MaxPriceAssumption, MaxVersionAssumption
  <1>1. ASSUME NEW p \in Prices, Publish(p) PROVE TypeOK'
    <2>1. listing' \in Terms
      BY <1>1, MaxVersionAssumption DEF Publish, TypeOK, Terms
    <2> QED
      BY <1>1, <2>1 DEF Publish, TypeOK, stripe
  <1>2. ASSUME NEW s \in Sessions, BeginCheckout(s) PROVE TypeOK'
    BY <1>2 DEF BeginCheckout, TypeOK
  <1>3. ASSUME NEW s \in Sessions, FinishCheckout(s) PROVE TypeOK'
    <2>1. intents' \in [Sessions -> Terms] /\ orphaned' \in SUBSET Sessions
      BY <1>0, <1>3 DEF FinishCheckout, TypeOK
    <2> QED
      BY <1>0, <1>3, <2>1 DEF FinishCheckout, TypeOK
  <1>4. ASSUME FreeCheckout PROVE TypeOK'
    <2>1. PICK id \in OrderIds : orders' = [orders EXCEPT ![id] = NewOrder(NoSession, listing)]
      BY <1>4 DEF FreeCheckout
    <2>2. NewOrder(NoSession, listing) \in Orders
      BY NewOrderType DEF TypeOK
    <2> QED
      BY <1>4, <2>1, <2>2 DEF FreeCheckout, TypeOK, stripe
  <1>5. ASSUME NEW e \in sent, Deliver(e) PROVE TypeOK'
    <2>1. CASE DeliverIgnored(e)
      BY <2>1, ReceivedType DEF DeliverIgnored, TypeOK, stripe
    <2>2. CASE DeliverRejected(e)
      BY <2>2, ReceivedType DEF DeliverRejected, TypeOK, stripe
    <2>3. CASE DeliverPaid(e)
      <3>1. PICK id \in OrderIds : orders' = [orders EXCEPT ![id] = Minted(e, id)]
        BY <2>3 DEF DeliverPaid
      <3>2. Minted(e, id) \in Orders
        BY <2>3, ReceivedType, MintedType DEF DeliverPaid
      <3>3. pending' \in [Sessions -> RefundInfo] /\ intents' \in [Sessions -> Terms]
        BY <1>0, <2>3 DEF DeliverPaid, TakePending, TypeOK
      <3> QED
        BY <2>3, <3>1, <3>2, <3>3, ReceivedType DEF DeliverPaid, TypeOK, stripe
    <2>4. CASE DeliverRefund(e)
      <3>1. e \in Events /\ e.session \in Sessions
        BY <2>4, ReceivedType DEF DeliverRefund
      <3>2. orders' \in [OrderIds -> Orders \cup {NoOrder}]
        <4>1. CASE UNCHANGED orders
          BY <4>1 DEF TypeOK
        <4>2. ASSUME NEW id \in OrdersOf(e.session),
                     orders' = [orders EXCEPT ![id] = ApplyRefund(@, RefundInfoOf(e))]
              PROVE  orders' \in [OrderIds -> Orders \cup {NoOrder}]
          <5>1. orders[id] \in Orders
            BY DEF OrdersOf, IsOrder, TypeOK
          <5>2. ApplyRefund(orders[id], RefundInfoOf(e)) \in Orders
            BY <5>1, ApplyRefundType
          <5> QED
            BY <4>2, <5>2 DEF TypeOK
        <4> QED
          BY <2>4, <4>1, <4>2 DEF DeliverRefund
      <3>3. pending' \in [Sessions -> RefundInfo]
        <4>1. MergeRefund(pending[e.session], RefundInfoOf(e)) \in RefundInfo
          BY <3>1, MergeType, InfoType DEF TypeOK
        <4> QED
          BY <2>4, <4>1 DEF DeliverRefund, TypeOK
      <3> QED
        BY <2>4, <3>2, <3>3, ReceivedType DEF DeliverRefund, TypeOK, stripe
    <2> QED
      BY <1>5, <2>1, <2>2, <2>3, <2>4 DEF Deliver
  <1>6. ASSUME NEW id \in OrderIds, NEW reason \in {"manual", "refund"}, RevokeOrder(id, reason)
        PROVE  TypeOK'
    <2>1. orders[id] \in Orders
      BY <1>6 DEF RevokeOrder, IsOrder, TypeOK
    <2>2. [orders[id] EXCEPT !.revoked = reason] \in Orders
      BY <2>1 DEF Orders, Reasons
    <2>3. orders' = [orders EXCEPT ![id] = [orders[id] EXCEPT !.revoked = reason]]
      BY <1>6 DEF RevokeOrder
    <2> QED
      BY <1>6, <2>2, <2>3 DEF RevokeOrder, TypeOK, stripe
  <1>7. ASSUME Restart PROVE TypeOK'
    BY <1>0, <1>7 DEF Restart, TypeOK, stripe
  <1>8. ASSUME NEW s \in Sessions, NEW amount \in Prices, Pay(s, amount) PROVE TypeOK'
    <2>1. SessionEvent(Completed, s, amount, TRUE) \in Events
      BY SessionEventType
    <2> QED
      BY <1>8, <2>1 DEF Pay, Emit, ServerIdle, server, TypeOK
  <1>9. ASSUME NEW s \in Sessions, PayLater(s) PROVE TypeOK'
    <2>1. SessionEvent(Completed, s, agreed[s].price, FALSE) \in Events
      BY SessionEventType DEF TypeOK, Terms
    <2> QED
      BY <1>9, <2>1 DEF PayLater, Emit, ServerIdle, server, TypeOK
  <1>10. ASSUME NEW s \in Sessions, Settle(s) PROVE TypeOK'
    <2>1. agreed[s].price \in Prices
      BY DEF TypeOK, Terms
    <2>2. SessionEvent(AsyncPaid, s, agreed[s].price, TRUE) \in Events
      BY <2>1, SessionEventType
    <2> QED
      BY <1>10, <2>1, <2>2 DEF Settle, Emit, ServerIdle, server, TypeOK
  <1>11. ASSUME NEW s \in Sessions, Resend(s) PROVE TypeOK'
    <2>1. SessionEvent(AsyncPaid, s, captured[s], TRUE) \in Events
      BY SessionEventType DEF TypeOK
    <2> QED
      BY <1>11, <2>1 DEF Resend, Emit, ServerIdle, server, TypeOK
  <1>12. ASSUME NEW s \in Sessions, NEW r \in RefundIds, NEW amount \in Prices, Refund(s, r, amount)
         PROVE  TypeOK'
    <2> DEFINE total == RefundedOf(s) + amount
    <2>1. total \in Prices
      BY <1>12, MaxPriceAssumption DEF Refund, TypeOK
    <2> HIDE DEF total
    <2>2. /\ [kind |-> Created, session |-> s, refund |-> r, amount |-> amount,
               settled |-> TRUE, full |-> FALSE] \in Events
          /\ [kind |-> Charge, session |-> s, refund |-> r, amount |-> total,
               settled |-> TRUE, full |-> total = captured[s]] \in Events
      BY <2>1 DEF Events
    <2>3. sent' \in SUBSET Events /\ sent \subseteq sent'
      BY <1>12, <2>2 DEF Refund, TypeOK, total
    <2>4. refunds' \in [RefundIds -> [session : Sessions \cup {NoSession}, amount : Prices]]
      BY <1>12 DEF Refund, TypeOK
    <2> QED
      BY <1>12, <2>3, <2>4 DEF Refund, ServerIdle, server, TypeOK
  <1>13. ASSUME NEW s \in Sessions, NEW r \in RefundIds, RefundFails(s, r) PROVE TypeOK'
    <2>1. [kind |-> Created, session |-> s, refund |-> r, amount |-> captured[s],
           settled |-> FALSE, full |-> FALSE] \in Events
      BY DEF Events, TypeOK
    <2>2. sent' \in SUBSET Events /\ sent \subseteq sent'
      BY <1>13, <2>1 DEF RefundFails, Emit, TypeOK
    <2>3. refunds' \in [RefundIds -> [session : Sessions \cup {NoSession}, amount : Prices]]
      BY <1>0, <1>13 DEF RefundFails, TypeOK
    <2> QED
      BY <1>13, <2>2, <2>3 DEF RefundFails, ServerIdle, server, TypeOK
  <1>14. CASE UNCHANGED vars
    BY <1>14 DEF vars, server, stripe, TypeOK
  <1> QED
    BY <1>1, <1>2, <1>3, <1>4, <1>5, <1>6, <1>7, <1>8, <1>9, <1>10, <1>11, <1>12, <1>13, <1>14,
       PayingAssumption DEF Next

(* Every reachable state is typed. *)
THEOREM TypeCorrect == Spec => []TypeOK
  BY InitType, StepType, PTL DEF Spec

-----------------------------------------------------------------------------
(* What each kind of step does to the orders: the facts about deliveries    *)
(* that the invariants below have in common.                                *)

Sale(o) == <<o.ref, o.amount, o.version>>

(* An order that is there keeps its reference, amount and version whatever  *)
(* refunds are booked on it and whoever revokes it.                         *)
LEMMA RefundKeepsSale ==
    ASSUME TypeOK, NEW e, DeliverRefund(e)
    PROVE  \A id \in OrderIds :
              /\ IsOrder(id)' <=> IsOrder(id)
              /\ IsOrder(id) => Sale(orders[id])' = Sale(orders[id])
  <1>1. CASE UNCHANGED orders
    BY <1>1 DEF IsOrder, Sale
  <1>2. ASSUME NEW x \in OrdersOf(e.session),
               orders' = [orders EXCEPT ![x] = ApplyRefund(@, RefundInfoOf(e))]
        PROVE  \A id \in OrderIds :
                  /\ IsOrder(id)' <=> IsOrder(id)
                  /\ IsOrder(id) => Sale(orders[id])' = Sale(orders[id])
    <2>1. x \in OrderIds /\ IsOrder(x) /\ orders[x] \in Orders
      BY DEF OrdersOf, IsOrder, TypeOK
    <2>2. /\ ApplyRefund(orders[x], RefundInfoOf(e)) \in Orders
          /\ Sale(ApplyRefund(orders[x], RefundInfoOf(e))) = Sale(orders[x])
      BY <2>1, ApplyRefundType DEF Sale
    <2>3. orders'[x] = ApplyRefund(orders[x], RefundInfoOf(e))
          /\ \A id \in OrderIds \ {x} : orders'[id] = orders[id]
      BY <1>2, <2>1 DEF TypeOK
    <2> QED
      BY <2>1, <2>2, <2>3, NoOrderAssumption DEF IsOrder, Sale
  <1> QED
    BY <1>1, <1>2 DEF DeliverRefund

LEMMA RevokeKeepsSale ==
    ASSUME TypeOK, NEW x \in OrderIds, NEW reason \in {"manual", "refund"}, RevokeOrder(x, reason)
    PROVE  \A id \in OrderIds :
              /\ IsOrder(id)' <=> IsOrder(id)
              /\ IsOrder(id) => Sale(orders[id])' = Sale(orders[id])
  <1>1. IsOrder(x) /\ orders[x] \in Orders
    BY DEF RevokeOrder, IsOrder, TypeOK
  <1>2. /\ [orders[x] EXCEPT !.revoked = reason] \in Orders
        /\ Sale([orders[x] EXCEPT !.revoked = reason]) = Sale(orders[x])
    BY <1>1 DEF Orders, Reasons, Sale
  <1>3. orders'[x] = [orders[x] EXCEPT !.revoked = reason]
        /\ \A id \in OrderIds \ {x} : orders'[id] = orders[id]
    BY DEF RevokeOrder, TypeOK
  <1> QED
    BY <1>1, <1>2, <1>3, NoOrderAssumption DEF IsOrder, Sale

(* A settled payment leaves one order behind, under the id it chose. *)
LEMMA PaidMakesOrder ==
    ASSUME TypeOK, NEW e, DeliverPaid(e)
    PROVE  \E x \in OrderIds :
              /\ OrderFor(e.session, x)
              /\ orders' = [orders EXCEPT ![x] = Minted(e, x)]
              /\ IsOrder(x)' /\ orders'[x] = Minted(e, x) /\ orders'[x].ref = e.session
              /\ IsOrder(x) => orders[x].ref = e.session
              /\ \A id \in OrderIds \ {x} : orders'[id] = orders[id]
  <1>1. PICK x \in OrderIds : OrderFor(e.session, x) /\ orders' = [orders EXCEPT ![x] = Minted(e, x)]
    BY DEF DeliverPaid
  <1>2. e \in Events
    BY ReceivedType DEF DeliverPaid
  <1>3. IsOrder(x) => orders[x].ref = e.session
    BY <1>1 DEF OrderFor, OrdersOf
  <1>4. Minted(e, x) \in Orders /\ Minted(e, x).ref = e.session
    BY <1>2, <1>3, MintedType
  <1>5. orders'[x] = Minted(e, x) /\ \A id \in OrderIds \ {x} : orders'[id] = orders[id]
    BY <1>1 DEF TypeOK
  <1> QED
    BY <1>1, <1>3, <1>4, <1>5, NoOrderAssumption DEF IsOrder

(* A free order is added under an id that had none. *)
LEMMA FreeMakesOrder ==
    ASSUME TypeOK, FreeCheckout
    PROVE  \E x \in OrderIds :
              /\ ~IsOrder(x) /\ IsOrder(x)' /\ orders'[x].ref = NoSession
              /\ \A id \in OrderIds \ {x} : orders'[id] = orders[id]
  <1>1. PICK x \in OrderIds : ~IsOrder(x) /\ orders' = [orders EXCEPT ![x] = NewOrder(NoSession, listing)]
    BY DEF FreeCheckout
  <1>2. NewOrder(NoSession, listing) \in Orders /\ NewOrder(NoSession, listing).ref = NoSession
    BY NewOrderType DEF TypeOK
  <1>3. orders'[x] = NewOrder(NoSession, listing)
        /\ \A id \in OrderIds \ {x} : orders'[id] = orders[id]
    BY <1>1 DEF TypeOK
  <1> QED
    BY <1>1, <1>2, <1>3, NoOrderAssumption DEF IsOrder

(* Every other step leaves the orders alone. *)
LEMMA OrderSteps ==
    ASSUME [Next]_vars
    PROVE  \/ UNCHANGED orders
           \/ FreeCheckout
           \/ \E e \in sent : DeliverPaid(e) \/ DeliverRefund(e)
           \/ \E id \in OrderIds, reason \in {"manual", "refund"} : RevokeOrder(id, reason)
  BY ZenonT(60)
     DEF Next, vars, server, ServerIdle, Publish, BeginCheckout, FinishCheckout, Deliver,
         DeliverIgnored, DeliverRejected, Restart, Pay, PayLater, Settle, Resend, Refund, RefundFails

-----------------------------------------------------------------------------
(* One payment, one license. *)

LEMMA OneOrderStep ==
    ASSUME TypeOK, OneOrderPerPayment, [Next]_vars
    PROVE  OneOrderPerPayment'
  <1>1. CASE UNCHANGED orders
    BY <1>1 DEF OneOrderPerPayment, IsOrder
  <1>2. CASE FreeCheckout
    BY <1>2, FreeMakesOrder DEF OneOrderPerPayment, IsOrder
  <1>3. ASSUME NEW e \in sent, DeliverPaid(e) PROVE OneOrderPerPayment'
    <2>1. PICK x \in OrderIds :
             /\ OrderFor(e.session, x)
             /\ IsOrder(x)' /\ orders'[x].ref = e.session
             /\ IsOrder(x) => orders[x].ref = e.session
             /\ \A id \in OrderIds \ {x} : orders'[id] = orders[id]
      BY <1>3, PaidMakesOrder
    <2>2. ASSUME NEW id \in OrderIds \ {x}, IsOrder(id)
          PROVE  orders[id].ref # e.session
      <3>1. e.session # NoSession
        BY <1>3, ReceivedType, NoSessionAssumption DEF DeliverPaid
      <3>2. CASE IsOrder(x)
        BY <2>1, <2>2, <3>1, <3>2 DEF OneOrderPerPayment
      <3>3. CASE ~IsOrder(x)
        BY <2>1, <2>2, <3>3 DEF OrderFor, OrdersOf
      <3> QED
        BY <3>2, <3>3
    <2> QED
      BY <2>1, <2>2 DEF OneOrderPerPayment, IsOrder
  <1>4. ASSUME NEW e \in sent, DeliverRefund(e) PROVE OneOrderPerPayment'
    BY <1>4, RefundKeepsSale DEF OneOrderPerPayment, IsOrder, Sale
  <1>5. ASSUME NEW id \in OrderIds, NEW reason \in {"manual", "refund"}, RevokeOrder(id, reason)
        PROVE  OneOrderPerPayment'
    BY <1>5, RevokeKeepsSale DEF OneOrderPerPayment, IsOrder, Sale
  <1> QED
    BY <1>1, <1>2, <1>3, <1>4, <1>5, OrderSteps

(* One payment, one license, for any number of sessions, refunds and        *)
(* redeliveries (createOrder's idempotency on the provider reference).      *)
THEOREM OneLicensePerPayment == Spec => []OneOrderPerPayment
  <1>1. Init => OneOrderPerPayment
    BY DEF Init, OneOrderPerPayment, IsOrder
  <1> QED
    BY <1>1, OneOrderStep, TypeCorrect, PTL DEF Spec

-----------------------------------------------------------------------------
(* No refund is left parked once the order exists. *)

LEMMA PendingStep ==
    ASSUME TypeOK, PendingOnlyBeforeOrder, [Next]_vars
    PROVE  PendingOnlyBeforeOrder'
  <1>1. CASE UNCHANGED <<orders, pending>>
    BY <1>1 DEF PendingOnlyBeforeOrder, OrdersOf, IsOrder
  <1>2. CASE FreeCheckout
    <2>1. PICK x \in OrderIds : orders'[x].ref = NoSession
                 /\ \A id \in OrderIds \ {x} : orders'[id] = orders[id]
      BY <1>2, FreeMakesOrder
    <2>2. \A s \in Sessions : OrdersOf(s)' \subseteq OrdersOf(s)
      BY <2>1, NoSessionAssumption DEF OrdersOf, IsOrder
    <2> QED
      BY <1>2, <2>2 DEF FreeCheckout, PendingOnlyBeforeOrder
  <1>3. ASSUME NEW e \in sent, DeliverPaid(e) PROVE PendingOnlyBeforeOrder'
    <2>1. PICK x \in OrderIds : orders'[x].ref = e.session
                 /\ \A id \in OrderIds \ {x} : orders'[id] = orders[id]
      BY <1>3, PaidMakesOrder
    <2>2. pending' = [pending EXCEPT ![e.session] = NothingToRefund]
      BY <1>3 DEF DeliverPaid, TakePending
    <2>3. \A s \in Sessions : s # e.session => OrdersOf(s)' \subseteq OrdersOf(s)
      BY <2>1 DEF OrdersOf, IsOrder
    <2> QED
      BY <2>2, <2>3 DEF PendingOnlyBeforeOrder, TypeOK
  <1>4. ASSUME NEW e \in sent, DeliverRefund(e) PROVE PendingOnlyBeforeOrder'
    <2>1. \A s \in Sessions : OrdersOf(s)' = OrdersOf(s)
      BY <1>4, RefundKeepsSale DEF OrdersOf, Sale
    <2>2. \/ UNCHANGED pending
          \/ /\ OrdersOf(e.session) = {}
             /\ \A s \in Sessions \ {e.session} : pending'[s] = pending[s]
      BY <1>4 DEF DeliverRefund, TypeOK
    <2> QED
      BY <2>1, <2>2 DEF PendingOnlyBeforeOrder
  <1>5. ASSUME NEW id \in OrderIds, NEW reason \in {"manual", "refund"}, RevokeOrder(id, reason)
        PROVE  PendingOnlyBeforeOrder'
    <2>1. \A s \in Sessions : OrdersOf(s)' = OrdersOf(s)
      BY <1>5, RevokeKeepsSale DEF OrdersOf, Sale
    <2> QED
      BY <1>5, <2>1 DEF PendingOnlyBeforeOrder, RevokeOrder
  <1>6. UNCHANGED pending \/ \E e \in sent : DeliverPaid(e) \/ DeliverRefund(e)
    BY ZenonT(60)
       DEF Next, vars, server, ServerIdle, Publish, BeginCheckout, FinishCheckout, FreeCheckout,
           Deliver, DeliverIgnored, DeliverRejected, RevokeOrder, Restart, Pay, PayLater, Settle,
           Resend, Refund, RefundFails
  <1> QED
    BY <1>1, <1>2, <1>3, <1>4, <1>5, <1>6, OrderSteps

(* Refunds that beat their order wait exactly until it exists. *)
THEOREM NoRefundLeftPending == Spec => []PendingOnlyBeforeOrder
  <1>1. Init => PendingOnlyBeforeOrder
    BY DEF Init, PendingOnlyBeforeOrder, OrdersOf, IsOrder
  <1> QED
    BY <1>1, PendingStep, TypeCorrect, PTL DEF Spec

-----------------------------------------------------------------------------
(* A sale is settled as it was agreed.  The invariant that carries this     *)
(* follows a session from its checkout to its order: the skill a handler    *)
(* awaits Stripe with, and the intent recorded afterwards, are the terms    *)
(* the Stripe session was created with; a session that can be paid has its  *)
(* intent, its order or has been orphaned; and a payment is only ever       *)
(* reported for a session that is paid, with the amount captured.           *)

Agreement ==
    \A s \in Sessions :
        /\ calling[s] # NoTerms => calling[s] = agreed[s] /\ stage[s] = "created"
        /\ intents[s] # NoTerms => intents[s] = agreed[s] /\ stage[s] \notin {"none", "created"}
        /\ (stage[s] \notin {"none", "created"} /\ s \notin orphaned /\ OrdersOf(s) = {})
              => intents[s] # NoTerms
        /\ OrdersOf(s) # {} => stage[s] = "paid"

PaymentsReported ==
    \A e \in sent : IsPaid(e) => stage[e.session] = "paid" /\ e.amount = captured[e.session]

VersionRecorded ==
    \A id \in OrderIds :
        IsOrder(id) /\ orders[id].ref # NoSession => orders[id].version # 0

SettlementInv == TypeOK /\ Agreement /\ PaymentsReported /\ VersionRecorded /\ SettledAsAgreed

(* Steps that leave the sales and the sessions as they are. *)
LEMMA SalesKept ==
    ASSUME TypeOK, Agreement, VersionRecorded, SettledAsAgreed,
           \A id \in OrderIds :
              /\ IsOrder(id)' <=> IsOrder(id)
              /\ IsOrder(id) => Sale(orders[id])' = Sale(orders[id]),
           UNCHANGED <<calling, intents, stage, agreed, captured, orphaned>>
    PROVE  Agreement' /\ VersionRecorded' /\ SettledAsAgreed'
  <1>1. \A s \in Sessions : OrdersOf(s)' = OrdersOf(s)
    BY DEF OrdersOf, Sale
  <1>2. Agreement'
    BY <1>1 DEF Agreement
  <1>3. VersionRecorded'
    BY DEF VersionRecorded, Sale
  <1>4. SettledAsAgreed'
    BY DEF SettledAsAgreed, Sale
  <1> QED
    BY <1>2, <1>3, <1>4

(* Steps of Stripe before the payment of s: no order of s can be there yet. *)
LEMMA NoOrderUnpaid ==
    ASSUME TypeOK, Agreement, NEW s \in Sessions, stage[s] # "paid"
    PROVE  \A id \in OrderIds : IsOrder(id) => orders[id].ref # s
  BY DEF Agreement, OrdersOf

LEMMA PaidStep ==
    ASSUME SettlementInv, NEW e \in sent, DeliverPaid(e)
    PROVE  Agreement' /\ VersionRecorded' /\ SettledAsAgreed'
  <1> USE DEF SettlementInv
  <1> DEFINE s == e.session
             terms == SettledTerms(s)
  <1>1. PICK x \in OrderIds :
           /\ OrderFor(s, x)
           /\ IsOrder(x)' /\ orders'[x] = Minted(e, x) /\ orders'[x].ref = s
           /\ IsOrder(x) => orders[x].ref = s
           /\ \A id \in OrderIds \ {x} : orders'[id] = orders[id]
    BY PaidMakesOrder
  <1>2. /\ e \in Events /\ s \in Sessions /\ s # NoSession
        /\ UNCHANGED <<calling, stage, agreed, captured, orphaned>>
    BY ReceivedType, NoSessionAssumption DEF DeliverPaid, stripe
  <1>3. stage[s] = "paid" /\ e.amount = captured[s] /\ terms.version # 0 /\ e.amount = terms.price
    BY <1>2 DEF DeliverPaid, PaymentsReported, Accepted, SettledTerms, TypeOK, Terms
  <1>4. intents' = [intents EXCEPT ![s] = NoTerms]
    BY DEF DeliverPaid
  <1>5. /\ OrdersOf(s)' # {}
        /\ \A t \in Sessions \ {s} : OrdersOf(t)' = OrdersOf(t)
    BY <1>1 DEF OrdersOf, IsOrder
  <1>6. Agreement'
    BY <1>2, <1>3, <1>4, <1>5 DEF Agreement, TypeOK
  <1>7. /\ orders'[x].version # 0
        /\ orders'[x].amount = captured[s]
        /\ s \in orphaned \/ [price |-> orders'[x].amount, version |-> orders'[x].version] = agreed[s]
    <2>1. CASE IsOrder(x)
      BY <1>1, <1>2, <2>1, MintedType DEF VersionRecorded, SettledAsAgreed
    <2>2. CASE ~IsOrder(x)
      <3>1. OrdersOf(s) = {}
        BY <1>1, <2>2 DEF OrderFor, OrdersOf
      <3>2. orders'[x].amount = terms.price /\ orders'[x].version = terms.version
        BY <1>1, <1>2, <2>2, MintedType
      <3>3. s \in orphaned \/ terms = agreed[s]
        BY <1>2, <1>3, <3>1 DEF Agreement, SettledTerms
      <3>4. agreed[s] \in Terms
        BY <1>2 DEF TypeOK
      <3>5. [price |-> agreed[s].price, version |-> agreed[s].version] = agreed[s]
        BY <3>4 DEF Terms
      <3> QED
        BY <1>3, <3>2, <3>3, <3>5
    <2> QED
      BY <2>1, <2>2
  <1>8. VersionRecorded'
    BY <1>1, <1>7 DEF VersionRecorded, IsOrder
  <1>9. SettledAsAgreed'
    BY <1>1, <1>2, <1>7 DEF SettledAsAgreed, IsOrder
  <1> QED
    BY <1>6, <1>8, <1>9
LEMMA FreeStep ==
    ASSUME SettlementInv, FreeCheckout
    PROVE  Agreement' /\ VersionRecorded' /\ SettledAsAgreed'
  <1> USE DEF SettlementInv
  <1>1. PICK x \in OrderIds : /\ ~IsOrder(x) /\ IsOrder(x)' /\ orders'[x].ref = NoSession
                              /\ \A id \in OrderIds \ {x} : orders'[id] = orders[id]
    BY FreeMakesOrder
  <1>2. UNCHANGED <<calling, intents, stage, agreed, captured, orphaned>>
    BY DEF FreeCheckout, stripe
  <1>3. \A s \in Sessions : OrdersOf(s)' = OrdersOf(s)
    BY <1>1, NoSessionAssumption DEF OrdersOf, IsOrder
  <1>4. Agreement'
    BY <1>2, <1>3 DEF Agreement
  <1>5. VersionRecorded'
    BY <1>1 DEF VersionRecorded, IsOrder
  <1>6. SettledAsAgreed'
    BY <1>1, <1>2 DEF SettledAsAgreed, IsOrder
  <1> QED
    BY <1>4, <1>5, <1>6

(* The steps before a session is paid: they change the terms and the stage  *)
(* of one session, which has no order yet.                                  *)
LEMMA CheckoutStep ==
    ASSUME SettlementInv, NEW s \in Sessions, BeginCheckout(s) \/ FinishCheckout(s)
    PROVE  Agreement' /\ SettledAsAgreed' /\ PaymentsReported'
  <1> USE DEF SettlementInv
  <1>1. UNCHANGED <<orders, captured, sent>> /\ stage[s] \in {"none", "created"}
    BY DEF BeginCheckout, FinishCheckout, Agreement
  <1>2. \A t \in Sessions : OrdersOf(t)' = OrdersOf(t)
    BY <1>1 DEF OrdersOf, IsOrder
  <1>3. \A t \in Sessions \ {s} : stage'[t] = stage[t] /\ agreed'[t] = agreed[t] /\ calling'[t] = calling[t]
    BY DEF BeginCheckout, FinishCheckout, TypeOK
  <1>4. Agreement'
    <2>1. CASE BeginCheckout(s)
      <3>1. stage'[s] = "created" /\ calling'[s] = agreed'[s] /\ intents[s] = NoTerms
        BY <2>1 DEF BeginCheckout, Agreement, TypeOK
      <3> QED
        BY <1>2, <1>3, <2>1, <3>1 DEF BeginCheckout, Agreement
    <2>2. CASE FinishCheckout(s)
      <3>1. /\ calling[s] # NoTerms /\ calling[s] = agreed[s] /\ calling'[s] = NoTerms
            /\ stage'[s] = "offered" /\ agreed'[s] = agreed[s]
            /\ intents'[s] = calling[s]
        BY <2>2 DEF FinishCheckout, Agreement, TypeOK
      <3>2. ASSUME NEW t \in Sessions \ {s}
            PROVE  \/ intents'[t] = intents[t] /\ (t \in orphaned => t \in orphaned')
                   \/ intents[t] # NoTerms /\ intents'[t] = NoTerms /\ t \in orphaned'
        BY <2>2 DEF FinishCheckout
      <3> QED
        BY <1>1, <1>2, <1>3, <2>2, <3>1, <3>2 DEF FinishCheckout, Agreement
    <2> QED
      BY <2>1, <2>2
  <1>5. \A id \in OrderIds : IsOrder(id) => orders[id].ref # s
    BY <1>1, NoOrderUnpaid
  <1>6. orphaned \subseteq orphaned'
    BY DEF BeginCheckout, FinishCheckout
  <1>7. SettledAsAgreed'
    <2> SUFFICES ASSUME NEW id \in OrderIds, IsOrder(id)', orders'[id].ref # NoSession
                 PROVE  /\ orders'[id].amount = captured'[orders'[id].ref]
                        /\ \/ orders'[id].ref \in orphaned'
                           \/ [price |-> orders'[id].amount, version |-> orders'[id].version]
                                 = agreed'[orders'[id].ref]
      BY DEF SettledAsAgreed
    <2>1. IsOrder(id) /\ orders'[id] = orders[id] /\ orders[id].ref \in Sessions \ {s}
      BY <1>1, <1>5 DEF IsOrder, TypeOK, Orders
    <2> QED
      BY <1>1, <1>3, <1>6, <2>1 DEF SettledAsAgreed
  <1>8. PaymentsReported'
    <2>1. \A e \in sent : IsPaid(e) => e.session \in Sessions \ {s}
      BY <1>1 DEF PaymentsReported, TypeOK, Events
    <2> QED
      BY <1>1, <1>3, <2>1 DEF PaymentsReported, IsPaid
  <1> QED
    BY <1>4, <1>7, <1>8

(* The buyer's and Stripe's steps on one session.  A payment is captured    *)
(* while no order of the session can be there.                              *)
LEMMA StripeStep ==
    ASSUME SettlementInv, NEW s \in Sessions,
           \/ \E amount \in Prices : Pay(s, amount)
           \/ PayLater(s) \/ Settle(s) \/ Resend(s)
           \/ \E r \in RefundIds : RefundFails(s, r) \/ \E amount \in Prices : Refund(s, r, amount)
    PROVE  Agreement' /\ SettledAsAgreed' /\ PaymentsReported'
  <1> USE DEF SettlementInv
  <1>1. UNCHANGED <<orders, calling, intents, agreed, orphaned>>
    BY DEF Pay, PayLater, Settle, Resend, RefundFails, Refund, ServerIdle, server
  <1>2. \A t \in Sessions \ {s} : stage'[t] = stage[t] /\ captured'[t] = captured[t]
    BY DEF Pay, PayLater, Settle, Resend, RefundFails, Refund, TypeOK
  <1>3. \/ stage'[s] = stage[s] /\ captured'[s] = captured[s]
        \/ stage[s] \in {"offered", "settling"} /\ stage'[s] \in {"settling", "paid"}
    BY DEF Pay, PayLater, Settle, Resend, RefundFails, Refund, TypeOK
  <1>4. stage[s] # "paid" => \A id \in OrderIds : IsOrder(id) => orders[id].ref # s
    BY NoOrderUnpaid
  <1>5. \A t \in Sessions : OrdersOf(t)' = OrdersOf(t)
    BY <1>1 DEF OrdersOf, IsOrder
  <1>6. Agreement'
    BY <1>1, <1>2, <1>3, <1>5 DEF Agreement
  <1>7. SettledAsAgreed'
    <2> SUFFICES ASSUME NEW id \in OrderIds, IsOrder(id), orders[id].ref # NoSession
                 PROVE  captured'[orders[id].ref] = captured[orders[id].ref]
      BY <1>1 DEF SettledAsAgreed, IsOrder
    <2>1. orders[id].ref \in Sessions
      BY DEF IsOrder, TypeOK, Orders
    <2> QED
      BY <1>2, <1>3, <1>4, <2>1
  <1>8. \A e \in sent' \ sent : IsPaid(e) =>
           e.session = s /\ stage'[s] = "paid" /\ e.amount = captured'[s]
    <2>1. CASE \E amount \in Prices : Pay(s, amount)
      BY <2>1 DEF Pay, Emit, SessionEvent, TypeOK
    <2>2. CASE PayLater(s)
      BY <2>2 DEF PayLater, Emit, SessionEvent, IsPaid
    <2>3. CASE Settle(s)
      BY <2>3 DEF Settle, Emit, SessionEvent, TypeOK
    <2>4. CASE Resend(s)
      BY <2>4 DEF Resend, Emit, SessionEvent
    <2>5. CASE \E r \in RefundIds : RefundFails(s, r) \/ \E amount \in Prices : Refund(s, r, amount)
      BY <2>5 DEF RefundFails, Refund, Emit, IsPaid, Created, Charge, Completed, AsyncPaid
    <2> QED
      BY <2>1, <2>2, <2>3, <2>4, <2>5
  <1>9. PaymentsReported'
    <2>1. \A e \in sent : IsPaid(e) => stage'[e.session] = stage[e.session]
                                       /\ captured'[e.session] = captured[e.session]
      BY <1>2, <1>3 DEF PaymentsReported, TypeOK, Events
    <2> QED
      BY <1>8, <2>1 DEF PaymentsReported, IsPaid
  <1> QED
    BY <1>6, <1>7, <1>9
LEMMA SettlementInit == Init => SettlementInv
  BY InitType DEF Init, SettlementInv, Agreement, PaymentsReported, VersionRecorded,
     SettledAsAgreed, IsOrder, OrdersOf

LEMMA SettlementStep == SettlementInv /\ [Next]_vars => SettlementInv'
  <1> SUFFICES ASSUME SettlementInv, [Next]_vars PROVE SettlementInv'
    OBVIOUS
  <1> USE DEF SettlementInv
  <1>0. TypeOK'
    BY StepType
  (* PaymentsReported reads only Stripe's state, VersionRecorded only the orders. *)
  <1>1. ASSUME UNCHANGED <<sent, stage, captured>> PROVE PaymentsReported'
    BY <1>1 DEF PaymentsReported, IsPaid
  <1>2. ASSUME UNCHANGED orders PROVE VersionRecorded'
    BY <1>2 DEF VersionRecorded, IsOrder
  <1>3. ASSUME \A id \in OrderIds : /\ IsOrder(id)' <=> IsOrder(id)
                                    /\ IsOrder(id) => Sale(orders[id])' = Sale(orders[id]),
               UNCHANGED <<calling, intents, stage, agreed, captured, sent, orphaned>>
        PROVE  SettlementInv'
    BY <1>0, <1>1, <1>3, SalesKept
  <1>4. ASSUME UNCHANGED <<orders, calling, intents, stage, agreed, captured, sent, orphaned>>
        PROVE  SettlementInv'
    BY <1>3, <1>4 DEF IsOrder, Sale
  <1>5. ASSUME NEW p \in Prices, Publish(p) PROVE SettlementInv'
    BY <1>4, <1>5 DEF Publish, stripe
  <1>6. ASSUME NEW s \in Sessions, BeginCheckout(s) \/ FinishCheckout(s) PROVE SettlementInv'
    BY <1>0, <1>2, <1>6, CheckoutStep DEF BeginCheckout, FinishCheckout
  <1>7. ASSUME FreeCheckout PROVE SettlementInv'
    BY <1>0, <1>1, <1>7, FreeStep DEF FreeCheckout, stripe
  <1>8. ASSUME NEW e \in sent, Deliver(e) PROVE SettlementInv'
    <2>1. Receives(e)
      BY <1>8 DEF Deliver, DeliverIgnored, DeliverRejected, DeliverPaid, DeliverRefund
    <2>2. UNCHANGED <<calling, stage, agreed, captured, sent, orphaned>>
      BY <2>1 DEF Receives, stripe
    <2>3. CASE DeliverIgnored(e)
      BY <1>4, <2>2, <2>3 DEF DeliverIgnored
    <2>4. CASE DeliverRejected(e)
      BY <1>4, <2>2, <2>4 DEF DeliverRejected
    <2>5. CASE DeliverPaid(e)
      BY <1>0, <1>1, <2>2, <2>5, PaidStep
    <2>6. CASE DeliverRefund(e)
      BY <1>3, <2>2, <2>6, RefundKeepsSale DEF DeliverRefund
    <2> QED
      BY <1>8, <2>3, <2>4, <2>5, <2>6 DEF Deliver
  <1>9. ASSUME NEW id \in OrderIds, NEW reason \in {"manual", "refund"}, RevokeOrder(id, reason)
        PROVE  SettlementInv'
    BY <1>3, <1>9, RevokeKeepsSale DEF RevokeOrder, stripe
  <1>10. ASSUME Restart PROVE SettlementInv'
    <2>1. UNCHANGED <<orders, intents, stage, agreed, captured, sent, orphaned>>
      BY <1>10 DEF Restart, stripe
    <2>2. \A s \in Sessions : calling'[s] = NoTerms
      BY <1>10 DEF Restart
    <2>3. Agreement'
      BY <2>1, <2>2 DEF Agreement, OrdersOf, IsOrder
    <2>4. SettledAsAgreed'
      BY <2>1 DEF SettledAsAgreed, IsOrder
    <2> QED
      BY <1>0, <1>1, <1>2, <2>1, <2>3, <2>4
  <1>11. ASSUME NEW s \in Sessions,
                \/ \E amount \in Prices : Pay(s, amount)
                \/ PayLater(s) \/ Settle(s) \/ Resend(s)
                \/ \E r \in RefundIds : RefundFails(s, r) \/ \E amount \in Prices : Refund(s, r, amount)
         PROVE  SettlementInv'
    <2>1. UNCHANGED orders
      BY <1>11 DEF Pay, PayLater, Settle, Resend, RefundFails, Refund, ServerIdle, server
    <2> QED
      BY <1>0, <1>2, <1>11, <2>1, StripeStep
  <1>12. CASE UNCHANGED vars
    BY <1>4, <1>12 DEF vars, server, stripe
  <1> QED
    BY <1>5, <1>6, <1>7, <1>8, <1>9, <1>10, <1>11, <1>12, PayingAssumption DEF Next

(* A license costs what Stripe captured, and carries the price and version  *)
(* the buyer agreed to at the checkout, unless the intent had been pruned.  *)
THEOREM SaleAsAgreed == Spec => []SettledAsAgreed
  <1>1. SettlementInv => SettledAsAgreed
    BY DEF SettlementInv
  <1> QED
    BY <1>1, SettlementInit, SettlementStep, PTL DEF Spec

-----------------------------------------------------------------------------
(* What the answered events said *)

(* All of session s was said to be refunded. *)
ToldFull(s) == \E e \in told : IsRefund(e) /\ e.kind = Charge /\ e.session = s /\ e.full

(* What each refund returned. *)
Amounts == [r \in RefundIds |-> refunds[r].amount]

(* The cumulative totals told of session s. *)
ToldTotals(s) == {e.amount : e \in {x \in told : IsRefund(x) /\ x.kind = Charge /\ x.session = s}}

(* The shape in which refunds wait for their order. *)
Reported(s) ==
    [byId |-> [r \in RefundIds |-> IF r \in ToldIds(s) THEN refunds[r].amount ELSE 0],
     cumulative |-> ToldCumulative(s), full |-> ToldFull(s)]

(* A refund event is sent of a paid session, over the money it names and    *)
(* within what was captured; "fully refunded" is said of all of it.         *)
RefundsReported ==
    \A e \in sent : IsRefund(e) =>
        /\ e.kind \in channels /\ stage[e.session] = "paid"
        /\ e.amount > 0 /\ e.amount <= captured[e.session]
        /\ e.kind = Created => /\ e.refund \in RefundIds
                               /\ refunds[e.refund] = [session |-> e.session, amount |-> e.amount]
        /\ e.full => e.kind = Charge /\ e.amount = captured[e.session]

(* Refunds are of paid sessions and return at most what was captured, which *)
(* is never nothing.                                                       *)
RefundsCovered ==
    /\ \A r \in RefundIds : refunds[r].session # NoSession => stage[refunds[r].session] = "paid"
    /\ \A s \in Sessions :
          /\ RefundedOf(s) <= captured[s]
          /\ stage[s] # "none" => agreed[s].price > 0
          /\ stage[s] = "paid" => captured[s] > 0

(* Without an order, what is parked is what was told. *)
Parked == \A s \in Sessions : OrdersOf(s) = {} => pending[s] = Reported(s)

(* With an order, the refunds told are counted, each once; the amount is at *)
(* least what they report and within the price; all of it ends the license. *)
Booked ==
    \A id \in OrderIds :
        LET o == orders[id]
            reported == Larger(ToldById(o.ref), ToldCumulative(o.ref))
        IN  (IsOrder(id) /\ o.ref # NoSession) =>
              /\ o.refundIds = ToldIds(o.ref)
              /\ o.amountRefunded \in reported..o.amount
              /\ channels # RefundKinds => o.amountRefunded = reported
              /\ o.amountRefunded = o.amount => o.revoked # "no"

(* The largest of a set of amounts, 0 if there is none. *)
Top(N) == IF N = {} THEN 0 ELSE CHOOSE t \in N : \A u \in N : t >= u

LEMMA TopFacts ==
    ASSUME NEW N \in SUBSET Prices
    PROVE  /\ Top(N) \in Prices
           /\ Top(N) \in N \cup {0}
           /\ \A u \in N : u <= Top(N)
<1>1. CASE N = {}
    BY <1>1, MaxPriceAssumption DEF Top
<1>2. CASE N # {}
  <2> DEFINE T == {MaxPrice - t : t \in N}
  <2>1. \A t \in N : MaxPrice - t \in Nat
      BY MaxPriceAssumption
  <2>2. T \in SUBSET Nat /\ T # {}
      BY <1>2, <2>1
  <2>3. PICK m \in T : \A k \in T : m <= k
      BY <2>2, LeastNatural
  <2>4. PICK t \in N : m = MaxPrice - t
      BY <2>3
  <2>5. \A u \in N : MaxPrice - t <= MaxPrice - u
      BY <2>3, <2>4
  <2>6. \A u \in N : t >= u
      BY <2>5, MaxPriceAssumption
  <2>7. Top(N) \in N /\ \A u \in N : Top(N) >= u
      BY <1>2, <2>6 DEF Top
  <2> QED BY <2>7
<1> QED BY <1>1, <1>2

LEMMA TopGrows ==
    ASSUME NEW N \in SUBSET Prices, NEW a \in Prices
    PROVE  Top(N \cup {a}) = Larger(Top(N), a)
<1>1. N \cup {a} \in SUBSET Prices
    OBVIOUS
<1>2. /\ Top(N \cup {a}) \in Prices /\ Top(N \cup {a}) \in N \cup {0, a}
      /\ \A u \in N \cup {a} : u <= Top(N \cup {a})
    BY <1>1, TopFacts
<1>3. Top(N) \in Prices /\ Top(N) \in N \cup {0} /\ \A u \in N : u <= Top(N)
    BY TopFacts
<1> DEFINE x == Top(N \cup {a})
           y == Top(N)
<1>4. x \in Nat /\ y \in Nat /\ a \in Nat /\ (x <= y \/ x = a) /\ a <= x /\ y <= x
    BY <1>2, <1>3
<1> HIDE DEF x, y
<1>5. x = Larger(y, a)
    BY <1>4 DEF Larger
<1> QED BY <1>5 DEF x, y

LEMMA CumulativeIsTop ==
    ASSUME TypeOK, NEW s
    PROVE  ToldTotals(s) \in SUBSET Prices /\ ToldCumulative(s) = Top(ToldTotals(s))
BY DEF ToldCumulative, ToldTotals, Top, TypeOK, Events

(* Refunds of a session return at most what it captured, whichever of them  *)
(* are added up.                                                           *)
LEMMA RefundsWithin ==
    ASSUME TypeOK, RefundsCovered, NEW s \in Sessions,
           NEW R \in SUBSET {r \in RefundIds : refunds[r].session = s}
    PROVE  SumFunctionOnSet(Amounts, R) \in Nat /\ SumFunctionOnSet(Amounts, R) <= captured[s]
<1> DEFINE All == {r \in RefundIds : refunds[r].session = s}
<1>1. IsFiniteSet(All) /\ IsFiniteSet(R)
    BY FS_Subset, RefundIdsAssumption
<1>2. \A r \in RefundIds : Amounts[r] \in Nat
    BY DEF Amounts, TypeOK
<1>3. SumFunctionOnSet(Amounts, R) \in Nat
    BY <1>1, <1>2, SumGrows
<1>4. SumFunctionOnSet(Amounts, All) \in Nat /\ SumFunctionOnSet(Amounts, R) <= SumFunctionOnSet(Amounts, All)
    BY <1>1, <1>2, SumGrows
<1>5. SumFunctionOnSet(Amounts, All) <= captured[s]
    BY DEF RefundsCovered, RefundedOf, Amounts
<1>6. captured[s] \in Nat
    BY DEF TypeOK
<1> QED BY <1>3, <1>4, <1>5, <1>6

(* What was told of a session, against what Stripe took and returned. *)
LEMMA ToldFacts ==
    ASSUME TypeOK, RefundsReported, RefundsCovered, NEW s \in Sessions
    PROVE  /\ ToldIds(s) \in SUBSET {r \in RefundIds : refunds[r].session = s}
           /\ \A r \in ToldIds(s) : refunds[r].amount > 0
           /\ ToldById(s) = SumFunctionOnSet(Amounts, ToldIds(s))
           /\ ToldById(s) \in Nat /\ ToldById(s) <= captured[s]
           /\ ToldCumulative(s) \in Prices /\ ToldCumulative(s) <= captured[s]
           /\ ToldFull(s) => ToldCumulative(s) = captured[s]
           /\ Created \notin channels => ToldIds(s) = {} /\ ToldById(s) = 0
           /\ Charge \notin channels => ToldCumulative(s) = 0
<1>0. told \subseteq sent /\ captured[s] \in Prices
    BY DEF TypeOK
<1>1. ASSUME NEW r \in ToldIds(s)
      PROVE  r \in RefundIds /\ refunds[r].session = s /\ refunds[r].amount > 0
  <2>1. PICK e \in sent : IsRefund(e) /\ e.kind = Created /\ e.session = s /\ e.refund = r
      BY <1>0 DEF ToldIds
  <2>2. refunds[r] = [session |-> s, amount |-> e.amount] /\ e.amount > 0 /\ r \in RefundIds
      BY <2>1 DEF RefundsReported
  <2> QED BY <2>2
<1>2. ToldById(s) = SumFunctionOnSet(Amounts, ToldIds(s))
    BY DEF ToldById, Amounts
<1>3. ToldIds(s) \in SUBSET {r \in RefundIds : refunds[r].session = s}
    BY <1>1
<1>4. ToldById(s) \in Nat /\ ToldById(s) <= captured[s]
    BY <1>2, <1>3, RefundsWithin
<1>5. Created \notin channels => ToldIds(s) = {} /\ ToldById(s) = 0
    BY <1>0, <1>2, SumEmpty DEF ToldIds, RefundsReported
<1>6. \A u \in ToldTotals(s) : u <= captured[s]
    BY <1>0 DEF ToldTotals, RefundsReported
<1>7. /\ ToldCumulative(s) \in Prices /\ ToldCumulative(s) \in ToldTotals(s) \cup {0}
      /\ \A u \in ToldTotals(s) : u <= ToldCumulative(s)
    BY CumulativeIsTop, TopFacts
<1>8. ToldCumulative(s) <= captured[s]
    BY <1>0, <1>6, <1>7
<1>9. ASSUME ToldFull(s) PROVE captured[s] \in ToldTotals(s)
  <2>1. PICK e \in told : IsRefund(e) /\ e.kind = Charge /\ e.session = s /\ e.full
      BY <1>9 DEF ToldFull
  <2>2. e.amount = captured[s]
      BY <1>0, <2>1 DEF RefundsReported
  <2> QED BY <2>1, <2>2 DEF ToldTotals
<1>10. ToldFull(s) => ToldCumulative(s) = captured[s]
    BY <1>0, <1>7, <1>8, <1>9
<1>11. Charge \notin channels => ToldTotals(s) = {}
    BY <1>0, ZenonT(60) DEF ToldTotals, RefundsReported
<1>12. Charge \notin channels => ToldCumulative(s) = 0
    BY <1>7, <1>11
<1> QED BY <1>1, <1>2, <1>3, <1>4, <1>5, <1>7, <1>8, <1>10, <1>12

(* A step that answers no refund event leaves what was told. *)
LEMMA ToldKept ==
    ASSUME TypeOK, RefundsReported, NEW s \in Sessions,
           told' = told \/ \E e : ~IsRefund(e) /\ told' = told \cup {e},
           \A r \in RefundIds : refunds[r].session # NoSession => refunds'[r] = refunds[r]
    PROVE  /\ ToldIds(s)' = ToldIds(s) /\ ToldById(s)' = ToldById(s)
           /\ ToldCumulative(s)' = ToldCumulative(s) /\ Reported(s)' = Reported(s)
<1>1. \A e : IsRefund(e) => (e \in told' <=> e \in told)
    OBVIOUS
<1>2. ToldIds(s)' = ToldIds(s)
    BY <1>1 DEF ToldIds
<1>3. ToldTotals(s)' = ToldTotals(s) /\ ToldFull(s)' = ToldFull(s)
    BY <1>1 DEF ToldTotals, ToldFull
<1>4. ToldCumulative(s)' = ToldCumulative(s)
  <2>1. ToldCumulative(s) = Top(ToldTotals(s)) /\ ToldCumulative(s)' = Top(ToldTotals(s)')
      BY DEF ToldCumulative, ToldTotals, Top
  <2> QED BY <1>3, <2>1
<1>5. ASSUME NEW r \in ToldIds(s) PROVE r \in RefundIds /\ refunds'[r] = refunds[r]
  <2>1. PICK e \in told : IsRefund(e) /\ e.kind = Created /\ e.session = s /\ e.refund = r
      BY DEF ToldIds
  <2>2. refunds[r] = [session |-> s, amount |-> e.amount] /\ r \in RefundIds
      BY <2>1 DEF RefundsReported, TypeOK
  <2> QED BY <2>2, NoSessionAssumption
<1>6. ToldById(s)' = ToldById(s)
  <2>1. IsFiniteSet(ToldIds(s)) /\ \A r \in ToldIds(s) : Amounts'[r] = Amounts[r]
      BY <1>5, RefundIdsAssumption, FS_Subset DEF ToldIds, Amounts
  <2>2. SumFunctionOnSet(Amounts', ToldIds(s)) = SumFunctionOnSet(Amounts, ToldIds(s))
      BY <2>1, SumAgree
  <2> QED BY <1>2, <2>2 DEF ToldById, Amounts
<1>7. Reported(s)' = Reported(s)
    BY <1>2, <1>3, <1>4, <1>5 DEF Reported
<1> QED BY <1>2, <1>4, <1>6, <1>7

(* What a newly answered refund event adds to what was told. *)
LEMMA ToldMore ==
    ASSUME TypeOK, RefundsReported, NEW e, Receives(e), IsRefund(e)
    PROVE  /\ \A s \in Sessions \ {e.session} :
                /\ ToldIds(s)' = ToldIds(s) /\ ToldById(s)' = ToldById(s)
                /\ ToldCumulative(s)' = ToldCumulative(s) /\ Reported(s)' = Reported(s)
           /\ e.kind = Created =>
                /\ ToldIds(e.session)' = ToldIds(e.session) \cup {e.refund}
                /\ ToldById(e.session)' = SumFunctionOnSet(Amounts, ToldIds(e.session) \cup {e.refund})
                /\ ToldCumulative(e.session)' = ToldCumulative(e.session)
                /\ ToldFull(e.session)' = ToldFull(e.session)
           /\ e.kind = Charge =>
                /\ ToldIds(e.session)' = ToldIds(e.session) /\ ToldById(e.session)' = ToldById(e.session)
                /\ ToldCumulative(e.session)' = Larger(ToldCumulative(e.session), e.amount)
                /\ ToldFull(e.session)' = (ToldFull(e.session) \/ e.full)
<1>1. told' = told \cup {e} /\ UNCHANGED refunds /\ e \in sent /\ e \in Events
    BY DEF Receives, stripe, TypeOK
<1>2. e.kind = Created => e.refund \in RefundIds
    BY <1>1 DEF RefundsReported
<1>3. Created # Charge
    BY DEF Created, Charge
<1>4. \A s : ~(e.kind = Created /\ e.session = s) => ToldIds(s)' = ToldIds(s) /\ ToldById(s)' = ToldById(s)
  <2> SUFFICES ASSUME NEW s, ~(e.kind = Created /\ e.session = s)
               PROVE  ToldIds(s)' = ToldIds(s) /\ ToldById(s)' = ToldById(s)
      OBVIOUS
  <2>1. ToldIds(s)' = ToldIds(s)
      BY <1>1 DEF ToldIds
  <2> QED BY <1>1, <2>1 DEF ToldById
<1>5. \A s : ~(e.kind = Charge /\ e.session = s) =>
         ToldCumulative(s)' = ToldCumulative(s) /\ ToldFull(s)' = ToldFull(s)
  <2> SUFFICES ASSUME NEW s, ~(e.kind = Charge /\ e.session = s)
               PROVE  ToldCumulative(s)' = ToldCumulative(s) /\ ToldFull(s)' = ToldFull(s)
      OBVIOUS
  <2>1. ToldTotals(s)' = ToldTotals(s)
      BY <1>1 DEF ToldTotals
  <2>2. ToldCumulative(s) = Top(ToldTotals(s)) /\ ToldCumulative(s)' = Top(ToldTotals(s)')
      BY DEF ToldCumulative, ToldTotals, Top
  <2> QED BY <1>1, <2>1, <2>2 DEF ToldFull
<1>6. ASSUME NEW s \in Sessions \ {e.session} PROVE Reported(s)' = Reported(s)
    BY <1>1, <1>4, <1>5 DEF Reported
<1>7. CASE e.kind = Created
  <2>1. ToldIds(e.session)' = ToldIds(e.session) \cup {e.refund}
      BY <1>1, <1>2, <1>7 DEF ToldIds
  <2>2. ToldById(e.session)' = SumFunctionOnSet(Amounts, ToldIds(e.session) \cup {e.refund})
      BY <1>1, <2>1 DEF ToldById, Amounts
  <2> QED BY <1>3, <1>4, <1>5, <1>6, <1>7, <2>1, <2>2
<1>8. CASE e.kind = Charge
  <2>1. ToldTotals(e.session)' = ToldTotals(e.session) \cup {e.amount}
      BY <1>1, <1>8 DEF ToldTotals
  <2>2. ToldCumulative(e.session)' = Top(ToldTotals(e.session)')
      BY DEF ToldCumulative, ToldTotals, Top
  <2>3. e.amount \in Prices
      BY <1>1 DEF Events
  <2>4. ToldCumulative(e.session)' = Larger(ToldCumulative(e.session), e.amount)
      BY <2>1, <2>2, <2>3, CumulativeIsTop, TopGrows
  <2>5. ToldFull(e.session)' = (ToldFull(e.session) \/ e.full)
      BY <1>1, <1>8 DEF ToldFull, Events
  <2> QED BY <1>3, <1>4, <1>5, <1>6, <1>8, <2>4, <2>5
<1> QED BY <1>4, <1>5, <1>6, <1>7, <1>8 DEF IsRefund, RefundKinds

-----------------------------------------------------------------------------
(* What is booked *)

LEMMA ApplyFacts ==
    ASSUME NEW order \in Orders, NEW info, Raised(order, info) \in Nat
    PROVE  LET after == ApplyRefund(order, info)
               raised == Raised(order, info)
           IN  /\ after \in Orders /\ Sale(after) = Sale(order) /\ after.amount = order.amount
               /\ after.refundIds = order.refundIds \cup Uncounted(order, info)
               /\ after.amountRefunded = IF raised <= order.amount THEN raised ELSE order.amount
               /\ order.amount > 0 /\ after.amountRefunded = order.amount => after.revoked # "no"
               /\ order.revoked # "no" => after.revoked = order.revoked
               /\ after.amountRefunded < order.amount => after.revoked = order.revoked
<1>1. /\ ApplyRefund(order, info) \in Orders /\ Sale(ApplyRefund(order, info)) = Sale(order)
      /\ ApplyRefund(order, info).amount = order.amount
    BY ApplyRefundType DEF Sale
<1> DEFINE booked == ClampTo(order.amount, Raised(order, info))
<1>2. order.amount \in Nat
    BY DEF Orders
<1>3. booked = IF Raised(order, info) <= order.amount THEN Raised(order, info) ELSE order.amount
    BY <1>2 DEF ClampTo
<1>4. booked \in Nat /\ booked <= order.amount
    BY <1>2, <1>3
<1>5. ApplyRefund(order, info) =
        [order EXCEPT !.amountRefunded = booked, !.refundIds = @ \cup Uncounted(order, info),
                      !.revoked = IF @ = "no" /\ order.amount > 0 /\ booked >= order.amount
                                  THEN "refund" ELSE @]
    BY DEF ApplyRefund
<1> HIDE DEF booked
<1>6. LET after == ApplyRefund(order, info)
      IN  /\ after.refundIds = order.refundIds \cup Uncounted(order, info)
          /\ after.amountRefunded = booked
          /\ after.revoked = IF order.revoked = "no" /\ order.amount > 0 /\ booked >= order.amount
                             THEN "refund" ELSE order.revoked
    BY <1>5 DEF Orders
<1> QED BY <1>1, <1>2, <1>3, <1>4, <1>6

(* Orders are equal when their fields are. *)
LEMMA SameOrder ==
    ASSUME NEW a \in Orders, NEW b \in Orders, Sale(a) = Sale(b),
           a.amountRefunded = b.amountRefunded, a.refundIds = b.refundIds, a.revoked = b.revoked
    PROVE  a = b
BY DEF Orders, Sale

(* One refund.created event adds its refund's amount once. *)
LEMMA CreatedRaises ==
    ASSUME NEW e \in Events, e.kind = Created, e.refund \in RefundIds, e.amount > 0,
           NEW order \in Orders
    PROVE  LET info == RefundInfoOf(e)
           IN  /\ Uncounted(order, info) = {e.refund} \ order.refundIds
               /\ Raised(order, info) = IF e.refund \in order.refundIds THEN order.amountRefunded
                                        ELSE order.amountRefunded + e.amount
<1> DEFINE info == RefundInfoOf(e)
<1>1. info = [byId |-> [r \in RefundIds |-> IF r = e.refund THEN e.amount ELSE 0],
              cumulative |-> 0, full |-> FALSE]
    BY DEF RefundInfoOf
<1>2. Uncounted(order, info) = {e.refund} \ order.refundIds
    BY <1>1 DEF Uncounted
<1>3. info.byId[e.refund] = e.amount /\ e.amount \in Nat /\ order.amountRefunded \in Nat
    BY <1>1 DEF Events, Orders
<1>4. SumFunctionOnSet(info.byId, {}) = 0
    BY SumEmpty
<1>5. SumFunctionOnSet(info.byId, {e.refund}) = e.amount
  <2> DEFINE f == info.byId
             x == e.refund
  <2>1. f[x] \in Int /\ SumFunctionOnSet(f, {}) = 0 /\ f[x] = e.amount
      BY <1>3, <1>4
  <2> HIDE DEF f, x
  <2>2. IsFiniteSet({x}) /\ {x} \ {x} = {} /\ \A y \in {x} : f[y] \in Int
      BY <2>1, FS_Singleton
  <2>3. SumFunctionOnSet(f, {x}) = f[x] + SumFunctionOnSet(f, {x} \ {x})
      BY <2>2, SumRemove
  <2>4. SumFunctionOnSet(f, {x} \ {x}) = 0
      BY <2>1, <2>2
  <2>5. SumFunctionOnSet(f, {x}) = e.amount
    <3> DEFINE t == SumFunctionOnSet(f, {x} \ {x})
    <3>1. SumFunctionOnSet(f, {x}) = f[x] + t /\ t = 0
        BY <2>3, <2>4
    <3> HIDE DEF t
    <3> QED BY <1>3, <2>1, <3>1
  <2> QED BY <2>5 DEF f, x
<1>6. Raised(order, info) = Larger(order.amountRefunded + SumFunctionOnSet(info.byId, Uncounted(order, info)), 0)
    BY <1>1 DEF Raised
<1> HIDE DEF info
<1>7. CASE e.refund \in order.refundIds
  <2>1. Uncounted(order, info) = {}
      BY <1>2, <1>7
  <2>2. Raised(order, info) = Larger(order.amountRefunded + 0, 0)
      BY <1>4, <1>6, <2>1
  <2> QED BY <1>2, <1>3, <1>7, <2>2 DEF Larger, info
<1>8. CASE e.refund \notin order.refundIds
  <2>1. Uncounted(order, info) = {e.refund}
      BY <1>2, <1>8
  <2>2. Raised(order, info) = Larger(order.amountRefunded + e.amount, 0)
      BY <1>5, <1>6, <2>1
  <2> QED BY <1>2, <1>3, <1>8, <2>2 DEF Larger, info
<1> QED BY <1>7, <1>8

(* A charge.refunded event raises to its cumulative total. *)
LEMMA ChargeRaises ==
    ASSUME NEW e \in Events, e.kind = Charge, NEW order \in Orders,
           e.full => e.amount = order.amount
    PROVE  LET info == RefundInfoOf(e)
           IN  /\ Uncounted(order, info) = {}
               /\ Raised(order, info) = Larger(order.amountRefunded, e.amount)
<1> DEFINE info == RefundInfoOf(e)
<1>1. info = [byId |-> [r \in RefundIds |-> 0], cumulative |-> e.amount, full |-> e.full]
    BY DEF RefundInfoOf, NothingToRefund, Created, Charge
<1>2. Uncounted(order, info) = {}
    BY <1>1 DEF Uncounted
<1>3. e.amount \in Nat /\ order.amountRefunded \in Nat /\ order.amount \in Nat
    BY DEF Events, Orders
<1>4. SumFunctionOnSet(info.byId, Uncounted(order, info)) = 0
    BY <1>2, SumEmpty
<1>5. Raised(order, info) = LET raised == Larger(order.amountRefunded + 0, e.amount)
                            IN  IF e.full THEN Larger(raised, order.amount) ELSE raised
    BY <1>1, <1>4 DEF Raised
<1> QED BY <1>2, <1>3, <1>5 DEF Larger

(* What an order of s has booked. *)
Holds(o, ids, byId, cumulative, exact) ==
    /\ o.refundIds = ids
    /\ o.amountRefunded \in Larger(byId, cumulative)..o.amount
    /\ exact => o.amountRefunded = Larger(byId, cumulative)
    /\ o.amountRefunded = o.amount => o.revoked # "no"

LEMMA BookedNext ==
    ASSUME TypeOK', \A id \in OrderIds, s \in Sessions :
               IsOrder(id)' /\ orders'[id].ref = s =>
                   Holds(orders'[id], ToldIds(s)', ToldById(s)', ToldCumulative(s)', channels' # RefundKinds)
    PROVE  Booked'
<1> SUFFICES ASSUME NEW id \in OrderIds, IsOrder(id)', orders'[id].ref # NoSession
             PROVE  Holds(orders[id], ToldIds(orders[id].ref), ToldById(orders[id].ref),
                          ToldCumulative(orders[id].ref), channels # RefundKinds)'
    BY DEF Booked, Holds
<1>1. PICK s \in Sessions : orders'[id].ref = s
    BY DEF TypeOK, IsOrder, Orders
<1>2. /\ ToldIds(orders[id].ref)' = ToldIds(s)' /\ ToldById(orders[id].ref)' = ToldById(s)'
      /\ ToldCumulative(orders[id].ref)' = ToldCumulative(s)'
    BY <1>1 DEF ToldIds, ToldById, ToldCumulative
<1> QED BY <1>1, <1>2 DEF Holds

(* A refund event answered for an order books what it adds to the report,   *)
(* moves the order forward only, and nothing at all when it was answered    *)
(* before.                                                                 *)
LEMMA RefundBooks ==
    ASSUME TypeOK, RefundsReported, RefundsCovered, Booked, SettledAsAgreed,
           NEW e, Receives(e), IsRefund(e), NEW id \in OrdersOf(e.session)
    PROVE  LET after == ApplyRefund(orders[id], RefundInfoOf(e))
           IN  /\ after \in Orders /\ Sale(after) = Sale(orders[id])
               /\ Holds(after, ToldIds(e.session)', ToldById(e.session)', ToldCumulative(e.session)',
                        channels # RefundKinds)
               /\ after.amountRefunded >= orders[id].amountRefunded
               /\ orders[id].refundIds \subseteq after.refundIds
               /\ orders[id].revoked # "no" => after.revoked # "no"
               /\ e \in told => after = orders[id]
<1> DEFINE s == e.session
           o == orders[id]
           info == RefundInfoOf(e)
           after == ApplyRefund(o, info)
<1>1. e \in sent /\ e \in Events /\ s \in Sessions /\ s # NoSession
    BY NoSessionAssumption DEF Receives, TypeOK, Events
<1>2. /\ id \in OrderIds /\ IsOrder(id) /\ o \in Orders /\ o.ref = s /\ o.amount = captured[s]
    BY <1>1 DEF OrdersOf, IsOrder, TypeOK, SettledAsAgreed
<1>3. /\ o.refundIds = ToldIds(s) /\ o.amountRefunded \in Larger(ToldById(s), ToldCumulative(s))..o.amount
      /\ channels # RefundKinds => o.amountRefunded = Larger(ToldById(s), ToldCumulative(s))
      /\ o.amountRefunded = o.amount => o.revoked # "no"
    BY <1>1, <1>2 DEF Booked
<1>4. /\ e.kind \in channels /\ e.amount > 0 /\ e.amount <= o.amount
      /\ e.kind = Created => e.refund \in RefundIds /\ refunds[e.refund] = [session |-> s, amount |-> e.amount]
      /\ e.full => e.kind = Charge /\ e.amount = o.amount
    BY <1>1, <1>2 DEF RefundsReported
<1>5. o.amount \in Nat /\ o.amount > 0 /\ e.amount \in Nat /\ o.amountRefunded \in Nat
    BY <1>1, <1>2, <1>4 DEF Orders, Events
<1>6. /\ ToldIds(s) \in SUBSET {r \in RefundIds : refunds[r].session = s}
      /\ ToldById(s) = SumFunctionOnSet(Amounts, ToldIds(s))
      /\ ToldById(s) \in Nat /\ ToldById(s) <= o.amount
      /\ ToldCumulative(s) \in Nat /\ ToldCumulative(s) <= o.amount
      /\ Created \notin channels => ToldById(s) = 0
      /\ Charge \notin channels => ToldCumulative(s) = 0
    BY <1>1, <1>2, ToldFacts
<1>7. channels # RefundKinds => Created \notin channels \/ Charge \notin channels
    BY DEF RefundKinds, TypeOK
<1> HIDE DEF s, o, info, after
<1>8. CASE e.kind = Created
  <2> DEFINE known == e.refund \in o.refundIds
             raised == IF known THEN o.amountRefunded ELSE o.amountRefunded + e.amount
  <2>1. Uncounted(o, info) = {e.refund} \ o.refundIds /\ Raised(o, info) = raised
      BY <1>1, <1>2, <1>4, <1>8, CreatedRaises DEF info
  <2>2. Raised(o, info) \in Nat
      BY <1>5, <2>1
  <2>3. /\ after \in Orders /\ Sale(after) = Sale(o) /\ after.amount = o.amount
        /\ after.refundIds = o.refundIds \cup {e.refund}
        /\ after.amountRefunded = IF raised <= o.amount THEN raised ELSE o.amount
        /\ after.amountRefunded = o.amount => after.revoked # "no"
        /\ o.revoked # "no" => after.revoked = o.revoked
        /\ after.amountRefunded < o.amount => after.revoked = o.revoked
      BY <1>2, <1>5, <2>1, <2>2, ApplyFacts DEF after
  <2>4. /\ ToldIds(s)' = ToldIds(s) \cup {e.refund}
        /\ ToldById(s)' = SumFunctionOnSet(Amounts, ToldIds(s) \cup {e.refund})
        /\ ToldCumulative(s)' = ToldCumulative(s)
      BY <1>8, ToldMore DEF s
  <2>5. /\ ToldById(s)' = IF known THEN ToldById(s) ELSE ToldById(s) + e.amount
        /\ ToldById(s)' \in Nat /\ ToldById(s)' <= o.amount
    <3>1. ToldIds(s) \cup {e.refund} \in SUBSET {r \in RefundIds : refunds[r].session = s}
        BY <1>4, <1>6, <1>8
    <3>2. SumFunctionOnSet(Amounts, ToldIds(s) \cup {e.refund}) \in Nat
          /\ SumFunctionOnSet(Amounts, ToldIds(s) \cup {e.refund}) <= o.amount
        BY <1>1, <1>2, <3>1, RefundsWithin
    <3>3. CASE known
      <4>1. ToldIds(s) \cup {e.refund} = ToldIds(s)
          BY <1>3, <3>3
      <4> QED BY <1>6, <2>4, <3>2, <3>3, <4>1
    <3>4. CASE ~known
      <4> DEFINE R == ToldIds(s) \cup {e.refund}
      <4>1. IsFiniteSet(R) /\ R \ {e.refund} = ToldIds(s) /\ e.refund \in R
          BY <1>3, <3>1, <3>4, RefundIdsAssumption, FS_Subset
      <4>2. \A r \in R : Amounts[r] \in Int
          BY <3>1 DEF Amounts, TypeOK
      <4>3. Amounts[e.refund] = e.amount
          BY <1>4, <1>8 DEF Amounts
      <4> HIDE DEF R
      <4>4. SumFunctionOnSet(Amounts, R) = Amounts[e.refund] + SumFunctionOnSet(Amounts, R \ {e.refund})
          BY <4>1, <4>2, SumRemove
      <4>5. SumFunctionOnSet(Amounts, R) = e.amount + ToldById(s)
          BY <1>6, <4>1, <4>3, <4>4
      <4> QED BY <1>5, <1>6, <2>4, <3>2, <3>4, <4>5 DEF R
    <3> QED BY <3>3, <3>4
  <2> DEFINE byId == ToldById(s)'
  <2>6. /\ byId \in Nat /\ byId <= o.amount
        /\ byId = IF known THEN ToldById(s) ELSE ToldById(s) + e.amount
      BY <2>5
  <2> HIDE DEF byId
  <2>7. after.amountRefunded \in Larger(byId, ToldCumulative(s))..o.amount
      BY <1>3, <1>5, <1>6, <2>3, <2>6 DEF Larger
  <2>8. channels # RefundKinds => after.amountRefunded = Larger(byId, ToldCumulative(s))
      BY <1>3, <1>4, <1>5, <1>6, <1>7, <1>8, <2>3, <2>6 DEF Larger
  <2>9. Holds(after, ToldIds(s)', ToldById(s)', ToldCumulative(s)', channels # RefundKinds)
      BY <1>3, <2>3, <2>4, <2>7, <2>8 DEF Holds, byId
  <2>10. after.amountRefunded >= o.amountRefunded /\ o.refundIds \subseteq after.refundIds
      BY <1>3, <1>5, <2>3
  <2>11. ASSUME e \in told PROVE after = o
    <3>1. known
        BY <1>1, <1>3, <1>4, <1>8, <2>11 DEF ToldIds, s
    <3>2. after.amountRefunded = o.amountRefunded /\ after.refundIds = o.refundIds
        BY <1>3, <1>5, <2>3, <3>1
    <3>3. after.revoked = o.revoked
        BY <1>3, <1>5, <2>3, <3>2
    <3> QED BY <1>2, <2>3, <3>2, <3>3, SameOrder
  <2> QED BY <2>3, <2>9, <2>10, <2>11 DEF s, o, info, after
<1>9. CASE e.kind = Charge
  <2>1. Uncounted(o, info) = {} /\ Raised(o, info) = Larger(o.amountRefunded, e.amount)
      BY <1>1, <1>2, <1>4, <1>9, ChargeRaises DEF info
  <2>2. Raised(o, info) \in Nat /\ Raised(o, info) <= o.amount
      BY <1>3, <1>4, <1>5, <2>1 DEF Larger
  <2>3. /\ after \in Orders /\ Sale(after) = Sale(o) /\ after.amount = o.amount
        /\ after.refundIds = o.refundIds
        /\ after.amountRefunded = Larger(o.amountRefunded, e.amount)
        /\ after.amountRefunded = o.amount => after.revoked # "no"
        /\ o.revoked # "no" => after.revoked = o.revoked
        /\ after.amountRefunded < o.amount => after.revoked = o.revoked
      BY <1>2, <1>5, <2>1, <2>2, ApplyFacts DEF after
  <2>4. /\ ToldIds(s)' = ToldIds(s) /\ ToldById(s)' = ToldById(s)
        /\ ToldCumulative(s)' = Larger(ToldCumulative(s), e.amount)
      BY <1>9, ToldMore DEF s
  <2>5. after.amountRefunded \in Larger(ToldById(s), Larger(ToldCumulative(s), e.amount))..o.amount
      BY <1>3, <1>4, <1>5, <1>6, <2>3 DEF Larger
  <2>6. channels # RefundKinds =>
           after.amountRefunded = Larger(ToldById(s), Larger(ToldCumulative(s), e.amount))
      BY <1>3, <1>4, <1>5, <1>6, <1>7, <1>9, <2>3 DEF Larger
  <2>7. Holds(after, ToldIds(s)', ToldById(s)', ToldCumulative(s)', channels # RefundKinds)
      BY <1>3, <2>3, <2>4, <2>5, <2>6 DEF Holds
  <2>8. after.amountRefunded >= o.amountRefunded /\ o.refundIds \subseteq after.refundIds
      BY <1>3, <1>5, <2>3 DEF Larger
  <2>9. ASSUME e \in told PROVE after = o
    <3>1. e.amount \in ToldTotals(s)
        BY <1>9, <2>9 DEF ToldTotals, s
    <3>2. e.amount <= ToldCumulative(s)
        BY <3>1, CumulativeIsTop, TopFacts
    <3>3. after.amountRefunded = o.amountRefunded /\ after.refundIds = o.refundIds
        BY <1>3, <1>5, <1>6, <2>3, <3>2 DEF Larger
    <3>4. after.revoked = o.revoked
        BY <1>3, <1>5, <2>3, <3>3
    <3> QED BY <1>2, <2>3, <3>3, <3>4, SameOrder
  <2> QED BY <2>3, <2>7, <2>8, <2>9 DEF s, o, info, after
<1> QED BY <1>8, <1>9 DEF IsRefund, RefundKinds

(* A new order books what waited for it: all that was reported. *)
LEMMA MintBooks ==
    ASSUME TypeOK, RefundsReported, RefundsCovered, Parked,
           NEW e \in Events, OrdersOf(e.session) = {}, NEW id \in OrderIds, ~IsOrder(id),
           stage[e.session] = "paid", SettledTerms(e.session).price = captured[e.session]
    PROVE  Holds(Minted(e, id), ToldIds(e.session), ToldById(e.session), ToldCumulative(e.session),
                 channels # RefundKinds)
<1> DEFINE s == e.session
           terms == SettledTerms(s)
           order == Purchased(NewOrder(s, terms), terms)
           info == pending[s]
<1>1. s \in Sessions /\ terms \in Terms
    BY DEF Events, SettledTerms, TypeOK
<1>2. NewOrder(s, terms) \in Orders /\ NewOrder(s, terms).amount = captured[s]
    BY <1>1, NewOrderType
<1>3. /\ order \in Orders /\ order.amount = captured[s]
      /\ order.amountRefunded = 0 /\ order.refundIds = {}
    BY <1>1, <1>2, PurchasedType DEF Purchased, NewOrder
<1>4. Minted(e, id) = ApplyRefund(order, info)
    BY DEF Minted
<1>5. captured[s] \in Nat /\ captured[s] > 0
    BY <1>1 DEF TypeOK, RefundsCovered
<1>6. info = Reported(s)
    BY <1>1 DEF Parked
<1>7. /\ ToldIds(s) \in SUBSET {r \in RefundIds : refunds[r].session = s}
      /\ \A r \in ToldIds(s) : refunds[r].amount > 0
      /\ ToldById(s) = SumFunctionOnSet(Amounts, ToldIds(s))
      /\ ToldById(s) \in Nat /\ ToldById(s) <= captured[s]
      /\ ToldCumulative(s) \in Nat /\ ToldCumulative(s) <= captured[s]
      /\ ToldFull(s) => ToldCumulative(s) = captured[s]
    BY <1>1, ToldFacts
<1> HIDE DEF s, terms, order, info
<1>8. Uncounted(order, info) = ToldIds(s)
    BY <1>3, <1>6, <1>7 DEF Uncounted, Reported
<1>9. SumFunctionOnSet(info.byId, ToldIds(s)) = ToldById(s)
  <2>1. IsFiniteSet(ToldIds(s))
      BY <1>7, RefundIdsAssumption, FS_Subset
  <2>2. \A r \in ToldIds(s) : info.byId[r] = Amounts[r]
      BY <1>6, <1>7 DEF Reported, Amounts
  <2>3. SumFunctionOnSet(info.byId, ToldIds(s)) = SumFunctionOnSet(Amounts, ToldIds(s))
      BY <2>1, <2>2, SumAgree
  <2> QED BY <1>7, <2>3
<1>10. Raised(order, info) = LET raised == Larger(0 + ToldById(s), ToldCumulative(s))
                             IN  IF ToldFull(s) THEN Larger(raised, captured[s]) ELSE raised
    BY <1>3, <1>6, <1>8, <1>9 DEF Raised, Reported
<1>11. Raised(order, info) = Larger(ToldById(s), ToldCumulative(s))
    BY <1>5, <1>7, <1>10 DEF Larger
<1>12. Raised(order, info) \in Nat /\ Raised(order, info) <= order.amount
    BY <1>3, <1>7, <1>11 DEF Larger
<1>13. LET after == ApplyRefund(order, info)
       IN  /\ after.amount = order.amount /\ after.refundIds = ToldIds(s)
           /\ after.amountRefunded = Larger(ToldById(s), ToldCumulative(s))
           /\ after.amountRefunded = order.amount => after.revoked # "no"
    BY <1>3, <1>5, <1>8, <1>11, <1>12, ApplyFacts
<1> QED BY <1>3, <1>4, <1>5, <1>11, <1>12, <1>13 DEF Holds, s

(* A payment settled again finds its order as it is. *)
LEMMA MintAgain ==
    ASSUME TypeOK, VersionRecorded, PendingOnlyBeforeOrder, RefundsReported, RefundsCovered, Booked,
           NEW e \in Events, NEW id \in OrdersOf(e.session)
    PROVE  Minted(e, id) = orders[id]
<1> DEFINE s == e.session
           o == orders[id]
<1>1. s \in Sessions /\ s # NoSession
    BY NoSessionAssumption DEF Events
<1>2. id \in OrderIds /\ IsOrder(id) /\ o \in Orders /\ o.ref = s /\ o.version # 0
    BY <1>1 DEF OrdersOf, IsOrder, TypeOK, VersionRecorded
<1>3. pending[s] = NothingToRefund
    BY <1>1 DEF PendingOnlyBeforeOrder
<1>4. Purchased(o, SettledTerms(s)) = o
    BY <1>2 DEF Purchased, Orders
<1>5. Minted(e, id) = ApplyRefund(o, NothingToRefund)
    BY <1>2, <1>3, <1>4 DEF Minted
<1>6. /\ o.amountRefunded \in Larger(ToldById(s), ToldCumulative(s))..o.amount
      /\ o.amountRefunded = o.amount => o.revoked # "no"
    BY <1>1, <1>2 DEF Booked
<1>7. o.amountRefunded \in Nat /\ o.amount \in Nat /\ o.amountRefunded <= o.amount
    BY <1>2, <1>6 DEF Orders
<1>8. Uncounted(o, NothingToRefund) = {}
    BY DEF Uncounted, NothingToRefund
<1>9. SumFunctionOnSet(NothingToRefund.byId, Uncounted(o, NothingToRefund)) = 0
    BY <1>8, SumEmpty
<1>10. Raised(o, NothingToRefund) = Larger(o.amountRefunded + 0, 0)
    BY <1>9 DEF Raised, NothingToRefund
<1>11. Raised(o, NothingToRefund) = o.amountRefunded
    BY <1>7, <1>10 DEF Larger
<1> HIDE DEF s, o
<1>12. LET after == ApplyRefund(o, NothingToRefund)
       IN  /\ after \in Orders /\ Sale(after) = Sale(o) /\ after.refundIds = o.refundIds
           /\ after.amountRefunded = o.amountRefunded
           /\ o.revoked # "no" => after.revoked = o.revoked
           /\ after.amountRefunded < o.amount => after.revoked = o.revoked
    BY <1>2, <1>7, <1>8, <1>11, ApplyFacts
<1>13. ApplyRefund(o, NothingToRefund).revoked = o.revoked
    BY <1>6, <1>7, <1>12
<1> QED BY <1>2, <1>5, <1>12, <1>13, SameOrder DEF o

(* A refund event with no order yet adds what it says to what is parked. *)
LEMMA RefundParks ==
    ASSUME TypeOK, RefundsReported, Parked, NEW e, Receives(e), IsRefund(e), OrdersOf(e.session) = {}
    PROVE  MergeRefund(pending[e.session], RefundInfoOf(e)) = Reported(e.session)'
<1> DEFINE s == e.session
<1>1. e \in sent /\ e \in Events /\ s \in Sessions /\ UNCHANGED refunds
    BY DEF Receives, TypeOK, Events, stripe
<1>2. pending[s] = Reported(s)
    BY <1>1 DEF Parked
<1>3. /\ e.kind = Created => e.refund \in RefundIds /\ refunds[e.refund] = [session |-> s, amount |-> e.amount]
      /\ e.amount > 0 /\ e.amount \in Nat
    BY <1>1 DEF RefundsReported, Events
<1>4. ToldCumulative(s) \in Nat /\ ToldFull(s) \in BOOLEAN
    BY CumulativeIsTop, TopFacts DEF ToldFull
<1>5. \A r \in ToldIds(s) : refunds[r].amount > 0
  <2> SUFFICES ASSUME NEW r \in ToldIds(s) PROVE refunds[r].amount > 0
      OBVIOUS
  <2>1. PICK x \in told : IsRefund(x) /\ x.kind = Created /\ x.session = s /\ x.refund = r
      BY DEF ToldIds
  <2>2. refunds[r] = [session |-> s, amount |-> x.amount] /\ x.amount > 0
      BY <2>1 DEF RefundsReported, TypeOK
  <2> QED BY <2>2
<1> HIDE DEF s
<1>6. CASE e.kind = Created
  <2>1. RefundInfoOf(e) = [byId |-> [r \in RefundIds |-> IF r = e.refund THEN e.amount ELSE 0],
                           cumulative |-> 0, full |-> FALSE]
      BY <1>6 DEF RefundInfoOf
  <2>2. /\ ToldIds(s)' = ToldIds(s) \cup {e.refund} /\ ToldCumulative(s)' = ToldCumulative(s)
        /\ ToldFull(s)' = ToldFull(s)
      BY <1>6, ToldMore DEF s
  <2>3. Reported(s)' = [byId |-> [r \in RefundIds |-> IF r \in ToldIds(s) \cup {e.refund} THEN refunds[r].amount ELSE 0],
                        cumulative |-> ToldCumulative(s), full |-> ToldFull(s)]
      BY <1>1, <2>2 DEF Reported
  <2>4. MergeRefund(Reported(s), RefundInfoOf(e)) =
          [byId |-> [r \in RefundIds |-> IF Reported(s).byId[r] > 0 THEN Reported(s).byId[r]
                                         ELSE IF r = e.refund THEN e.amount ELSE 0],
           cumulative |-> Larger(ToldCumulative(s), 0), full |-> ToldFull(s) \/ FALSE]
      BY <2>1 DEF MergeRefund, Reported
  <2>5. ASSUME NEW r \in RefundIds
        PROVE  (IF Reported(s).byId[r] > 0 THEN Reported(s).byId[r] ELSE IF r = e.refund THEN e.amount ELSE 0)
                  = IF r \in ToldIds(s) \cup {e.refund} THEN refunds[r].amount ELSE 0
      BY <1>3, <1>5, <1>6 DEF Reported
  <2>6. Larger(ToldCumulative(s), 0) = ToldCumulative(s) /\ (ToldFull(s) \/ FALSE) = ToldFull(s)
      BY <1>4 DEF Larger
  <2> QED BY <1>2, <2>3, <2>4, <2>5, <2>6 DEF s
<1>7. CASE e.kind = Charge
  <2>1. RefundInfoOf(e) = [byId |-> [r \in RefundIds |-> 0], cumulative |-> e.amount, full |-> e.full]
      BY <1>7 DEF RefundInfoOf, NothingToRefund, Created, Charge
  <2>2. /\ ToldIds(s)' = ToldIds(s) /\ ToldCumulative(s)' = Larger(ToldCumulative(s), e.amount)
        /\ ToldFull(s)' = (ToldFull(s) \/ e.full)
      BY <1>7, ToldMore DEF s
  <2>3. Reported(s)' = [byId |-> [r \in RefundIds |-> IF r \in ToldIds(s) THEN refunds[r].amount ELSE 0],
                        cumulative |-> Larger(ToldCumulative(s), e.amount), full |-> ToldFull(s) \/ e.full]
      BY <1>1, <2>2 DEF Reported
  <2>4. MergeRefund(Reported(s), RefundInfoOf(e)) =
          [byId |-> [r \in RefundIds |-> IF Reported(s).byId[r] > 0 THEN Reported(s).byId[r] ELSE 0],
           cumulative |-> Larger(ToldCumulative(s), e.amount), full |-> ToldFull(s) \/ e.full]
      BY <2>1 DEF MergeRefund, Reported
  <2>5. ASSUME NEW r \in RefundIds
        PROVE  (IF Reported(s).byId[r] > 0 THEN Reported(s).byId[r] ELSE 0)
                  = IF r \in ToldIds(s) THEN refunds[r].amount ELSE 0
      BY <1>5 DEF Reported
  <2> QED BY <1>2, <2>3, <2>4, <2>5 DEF s
<1> QED BY <1>6, <1>7 DEF IsRefund, RefundKinds

-----------------------------------------------------------------------------
(* The invariant *)

(* One payment has one order, which agrees with the sale, and both halves   *)
(* of the refunds, what waits and what is booked, agree with what was told. *)
BooksInv ==
    /\ SettlementInv /\ OneOrderPerPayment /\ PendingOnlyBeforeOrder
    /\ RefundsReported /\ RefundsCovered /\ Parked /\ Booked

LEMMA BooksInit == Init => BooksInv
<1> SUFFICES ASSUME Init PROVE BooksInv
    OBVIOUS
<1>1. SettlementInv
    BY SettlementInit
<1>2. \A s \in Sessions : OrdersOf(s) = {} /\ \A id \in OrderIds : ~IsOrder(id)
    BY DEF Init, OrdersOf, IsOrder
<1>3. OneOrderPerPayment /\ PendingOnlyBeforeOrder /\ Booked
    BY DEF Init, IsOrder, OrdersOf, OneOrderPerPayment, PendingOnlyBeforeOrder, Booked
<1>4. RefundsReported
    BY DEF Init, RefundsReported
<1>5. RefundsCovered
  <2>1. ASSUME NEW s \in Sessions PROVE RefundedOf(s) = 0
    <3>1. {r \in RefundIds : refunds[r].session = s} = {}
        BY NoSessionAssumption DEF Init
    <3> QED BY <3>1, SumEmpty DEF RefundedOf
  <2> QED BY <2>1, NoSessionAssumption DEF Init, RefundsCovered
<1>6. Parked
  <2>1. ASSUME NEW s \in Sessions PROVE Reported(s) = NothingToRefund
    <3>1. ToldIds(s) = {} /\ ToldTotals(s) = {} /\ ToldFull(s) = FALSE
        BY DEF Init, ToldIds, ToldTotals, ToldFull
    <3>2. ToldCumulative(s) = 0
        BY <3>1 DEF ToldCumulative, ToldTotals
    <3> QED BY <3>1, <3>2 DEF Reported, NothingToRefund
  <2> QED BY <2>1 DEF Init, Parked
<1> QED BY <1>1, <1>3, <1>4, <1>5, <1>6 DEF BooksInv

(* What was captured of a paid session, and the refunds made, stay. *)
LEMMA StripeKeeps ==
    ASSUME TypeOK, Agreement, [Next]_vars
    PROVE  /\ \A s \in Sessions : stage[s] = "paid" => stage'[s] = "paid" /\ captured'[s] = captured[s]
           /\ \A r \in RefundIds : refunds[r].session # NoSession => refunds'[r] = refunds[r]
           /\ UNCHANGED channels
<1> DEFINE Kept == /\ \A s \in Sessions : stage[s] = "paid" => stage'[s] = "paid" /\ captured'[s] = captured[s]
                   /\ \A r \in RefundIds : refunds[r].session # NoSession => refunds'[r] = refunds[r]
                   /\ UNCHANGED channels
<1>1. CASE UNCHANGED <<stage, captured, refunds, channels>>
    BY <1>1
<1>2. ASSUME NEW s \in Sessions, BeginCheckout(s) \/ FinishCheckout(s) PROVE Kept
  <2>1. stage[s] # "paid"
      BY <1>2 DEF BeginCheckout, FinishCheckout, Agreement
  <2> QED BY <1>2, <2>1 DEF BeginCheckout, FinishCheckout, TypeOK
<1>3. ASSUME NEW s \in Sessions,
             (\E amount \in Prices : Pay(s, amount)) \/ PayLater(s) \/ Settle(s) \/ Resend(s) PROVE Kept
    BY <1>3 DEF Pay, PayLater, Settle, Resend, TypeOK
<1>4. ASSUME NEW s \in Sessions, NEW r \in RefundIds,
             RefundFails(s, r) \/ \E amount \in Prices : Refund(s, r, amount) PROVE Kept
    BY <1>4 DEF RefundFails, Refund, TypeOK
<1>5. \/ UNCHANGED <<stage, captured, refunds, channels>>
      \/ \E s \in Sessions : BeginCheckout(s) \/ FinishCheckout(s)
      \/ \E s \in Sessions :
            \/ (\E amount \in Prices : Pay(s, amount)) \/ PayLater(s) \/ Settle(s) \/ Resend(s)
            \/ \E r \in RefundIds : RefundFails(s, r) \/ \E amount \in Prices : Refund(s, r, amount)
    BY PayingAssumption DEF Next, vars, server, stripe, Publish, FreeCheckout, Deliver, DeliverIgnored,
       DeliverRejected, DeliverPaid, DeliverRefund, Receives, RevokeOrder, Restart
<1> QED BY <1>1, <1>2, <1>3, <1>4, <1>5

LEMMA RefundedIsNat ==
    ASSUME TypeOK, NEW s
    PROVE  RefundedOf(s) \in Nat
<1>1. IsFiniteSet({r \in RefundIds : refunds[r].session = s})
    BY FS_Subset, RefundIdsAssumption
<1>2. \A r \in RefundIds : Amounts[r] \in Nat
    BY DEF Amounts, TypeOK
<1>3. SumFunctionOnSet(Amounts, {r \in RefundIds : refunds[r].session = s}) \in Nat
    BY <1>1, <1>2, SumGrows
<1> QED BY <1>3 DEF RefundedOf, Amounts

LEMMA ReportedStep ==
    ASSUME TypeOK, Agreement, RefundsReported, [Next]_vars
    PROVE  RefundsReported'
<1>1. ASSUME NEW e \in sent', IsRefund(e), e \notin sent
      PROVE  \E s \in Sessions, r \in RefundIds, amount \in Prices :
                /\ Refund(s, r, amount)
                /\ e.kind \in channels /\ e.session = s
                /\ e.full => e.kind = Charge
                /\ \/ e.kind = Created /\ e.refund = r /\ e.amount = amount
                   \/ /\ e.kind = Charge /\ e.amount = RefundedOf(s) + amount
                      /\ e.full => e.amount = captured[s]
  <2>1. ASSUME NEW s \in Sessions,
               \/ \E amount \in Prices : Pay(s, amount)
               \/ PayLater(s) \/ Settle(s) \/ Resend(s) \/ \E r \in RefundIds : RefundFails(s, r)
        PROVE  FALSE
      BY <1>1, <2>1 DEF Pay, PayLater, Settle, Resend, RefundFails, Emit, SessionEvent, IsRefund,
         RefundKinds, Completed, AsyncPaid, Created, Charge
  <2>2. ASSUME UNCHANGED sent PROVE FALSE
      BY <1>1, <2>2
  <2>3. \E s \in Sessions, r \in RefundIds, amount \in Prices : Refund(s, r, amount)
      BY <2>1, <2>2, PayingAssumption DEF Next, vars, server, stripe, Publish, BeginCheckout, FinishCheckout,
         FreeCheckout, Deliver, DeliverIgnored, DeliverRejected, DeliverPaid, DeliverRefund, Receives,
         RevokeOrder, Restart
  <2>4. PICK s \in Sessions, r \in RefundIds, amount \in Prices : Refund(s, r, amount)
      BY <2>3
  <2> DEFINE total == RefundedOf(s) + amount
  <2>5. /\ e.kind \in channels
        /\ \/ e = [kind |-> Created, session |-> s, refund |-> r, amount |-> amount,
                   settled |-> TRUE, full |-> FALSE]
           \/ e = [kind |-> Charge, session |-> s, refund |-> r, amount |-> total,
                   settled |-> TRUE, full |-> total = captured[s]]
      BY <1>1, <2>4 DEF Refund
  <2> HIDE DEF total
  <2>6. /\ e.session = s /\ (e.full => e.kind = Charge)
        /\ \/ e.kind = Created /\ e.refund = r /\ e.amount = amount
           \/ e.kind = Charge /\ e.amount = total /\ (e.full => e.amount = captured[s])
    <3>1. CASE e = [kind |-> Created, session |-> s, refund |-> r, amount |-> amount,
                    settled |-> TRUE, full |-> FALSE]
        BY <3>1
    <3>2. CASE e = [kind |-> Charge, session |-> s, refund |-> r, amount |-> total,
                    settled |-> TRUE, full |-> total = captured[s]]
      <4>1. e.session = s /\ e.kind = Charge /\ e.amount = total /\ e.full = (total = captured[s])
          BY <3>2
      <4> QED BY <4>1
    <3> QED BY <2>5, <3>1, <3>2
  <2> QED BY <2>4, <2>5, <2>6 DEF total
<1>2. \A e \in sent' : IsRefund(e) /\ e \in sent =>
        /\ e.kind \in channels' /\ stage'[e.session] = "paid"
        /\ e.amount > 0 /\ e.amount <= captured'[e.session]
        /\ e.kind = Created => /\ e.refund \in RefundIds
                               /\ refunds'[e.refund] = [session |-> e.session, amount |-> e.amount]
        /\ e.full => e.kind = Charge /\ e.amount = captured'[e.session]
  <2> SUFFICES ASSUME NEW e \in sent, IsRefund(e)
               PROVE /\ e.kind \in channels' /\ stage'[e.session] = "paid"
                     /\ e.amount > 0 /\ e.amount <= captured'[e.session]
                     /\ e.kind = Created => /\ e.refund \in RefundIds
                                            /\ refunds'[e.refund] = [session |-> e.session, amount |-> e.amount]
                     /\ e.full => e.kind = Charge /\ e.amount = captured'[e.session]
      OBVIOUS
  <2>1. e.session \in Sessions /\ e.session # NoSession
      BY NoSessionAssumption DEF TypeOK, Events
  <2>2. stage'[e.session] = "paid" /\ captured'[e.session] = captured[e.session]
      BY <2>1, StripeKeeps DEF RefundsReported
  <2>3. e.kind = Created => e.refund \in RefundIds
                            /\ refunds'[e.refund] = [session |-> e.session, amount |-> e.amount]
      BY <2>1, StripeKeeps DEF RefundsReported
  <2> QED BY <2>2, <2>3, StripeKeeps DEF RefundsReported
<1>3. \A e \in sent' : IsRefund(e) /\ e \notin sent =>
        /\ e.kind \in channels' /\ stage'[e.session] = "paid"
        /\ e.amount > 0 /\ e.amount <= captured'[e.session]
        /\ e.kind = Created => /\ e.refund \in RefundIds
                               /\ refunds'[e.refund] = [session |-> e.session, amount |-> e.amount]
        /\ e.full => e.kind = Charge /\ e.amount = captured'[e.session]
  <2> SUFFICES ASSUME NEW e \in sent', IsRefund(e), e \notin sent
               PROVE /\ e.kind \in channels' /\ stage'[e.session] = "paid"
                     /\ e.amount > 0 /\ e.amount <= captured'[e.session]
                     /\ e.kind = Created => /\ e.refund \in RefundIds
                                            /\ refunds'[e.refund] = [session |-> e.session, amount |-> e.amount]
                     /\ e.full => e.kind = Charge /\ e.amount = captured'[e.session]
      OBVIOUS
  <2>1. PICK s \in Sessions, r \in RefundIds, amount \in Prices :
                /\ Refund(s, r, amount)
                /\ e.kind \in channels /\ e.session = s
                /\ e.full => e.kind = Charge
                /\ \/ e.kind = Created /\ e.refund = r /\ e.amount = amount
                   \/ /\ e.kind = Charge /\ e.amount = RefundedOf(s) + amount
                      /\ e.full => e.amount = captured[s]
      BY <1>1
  <2> DEFINE total == RefundedOf(s) + amount
  <2>2. /\ stage'[s] = "paid" /\ captured'[s] = captured[s] /\ channels' = channels
        /\ refunds'[r] = [session |-> s, amount |-> amount]
        /\ amount > 0 /\ total \in 1..captured[s] /\ captured[s] \in Nat
      BY <2>1 DEF Refund, TypeOK
  <2>3. Created # Charge
      BY DEF Created, Charge
  <2>4. e.kind = Created => e.amount <= captured[s]
    <3>1. RefundedOf(s) \in Nat /\ amount \in Nat /\ amount <= total
        BY RefundedIsNat
    <3> HIDE DEF total
    <3> QED BY <2>1, <2>2, <2>3, <3>1
  <2> QED BY <2>1, <2>2, <2>3, <2>4
<1> QED BY <1>2, <1>3 DEF RefundsReported

(* The money returned of s after a refund of it was made. *)
LEMMA RefundAdds ==
    ASSUME TypeOK, TypeOK', NEW s \in Sessions, NEW r \in RefundIds, refunds[r].session = NoSession,
           NEW amount \in Prices, refunds' = [refunds EXCEPT ![r] = [session |-> s, amount |-> amount]]
    PROVE  /\ RefundedOf(s)' = amount + RefundedOf(s)
           /\ \A t \in Sessions \ {s} : RefundedOf(t)' = RefundedOf(t)
<1> DEFINE Of(t) == {x \in RefundIds : refunds[x].session = t}
           OfNext(t) == {x \in RefundIds : refunds'[x].session = t}
<1>1. /\ refunds'[r] = [session |-> s, amount |-> amount]
      /\ \A x \in RefundIds \ {r} : refunds'[x] = refunds[x]
    BY DEF TypeOK
<1>2. \A t : RefundedOf(t) = SumFunctionOnSet(Amounts, Of(t))
             /\ RefundedOf(t)' = SumFunctionOnSet(Amounts', OfNext(t))
    BY DEF RefundedOf, Amounts
<1>3. \A x \in RefundIds : Amounts[x] \in Nat /\ Amounts'[x] \in Nat
    BY DEF Amounts, TypeOK
<1>4. /\ \A x \in RefundIds \ {r} : Amounts'[x] = Amounts[x]
      /\ Amounts'[r] = amount
    BY <1>1 DEF Amounts
<1>5. \A t : IsFiniteSet(Of(t)) /\ IsFiniteSet(OfNext(t))
    BY RefundIdsAssumption, FS_Subset
<1>6. ASSUME NEW t \in Sessions \ {s} PROVE RefundedOf(t)' = RefundedOf(t)
  <2>1. OfNext(t) = Of(t) /\ r \notin Of(t) /\ Of(t) \subseteq RefundIds
      BY <1>1, NoSessionAssumption
  <2> HIDE DEF Of, OfNext
  <2>2. SumFunctionOnSet(Amounts', Of(t)) = SumFunctionOnSet(Amounts, Of(t))
      BY <1>4, <1>5, <2>1, SumAgree
  <2> QED BY <1>2, <2>1, <2>2
<1>7. RefundedOf(s)' = amount + RefundedOf(s)
  <2>1. r \in OfNext(s) /\ OfNext(s) \ {r} = Of(s) /\ Of(s) \subseteq RefundIds \ {r} /\ OfNext(s) \subseteq RefundIds
      BY <1>1, NoSessionAssumption
  <2> HIDE DEF Of, OfNext
  <2>2. SumFunctionOnSet(Amounts', Of(s)) = SumFunctionOnSet(Amounts, Of(s))
      BY <1>4, <1>5, <2>1, SumAgree
  <2>3. SumFunctionOnSet(Amounts', OfNext(s)) = Amounts'[r] + SumFunctionOnSet(Amounts', OfNext(s) \ {r})
      BY <1>3, <1>5, <2>1, SumRemove
  <2>4. SumFunctionOnSet(Amounts', OfNext(s) \ {r}) = RefundedOf(s)
      BY <1>2, <2>1, <2>2
  <2> QED BY <1>2, <1>4, <2>3, <2>4
<1> QED BY <1>6, <1>7

LEMMA CoveredStep ==
    ASSUME TypeOK, TypeOK', Agreement, RefundsCovered, [Next]_vars
    PROVE  RefundsCovered'
<1>1. CASE UNCHANGED <<stage, agreed, captured, refunds>>
    BY <1>1 DEF RefundsCovered, RefundedOf
<1>2. ASSUME UNCHANGED refunds PROVE \A s : RefundedOf(s)' = RefundedOf(s)
    BY <1>2 DEF RefundedOf
<1>3. ASSUME NEW s \in Sessions, BeginCheckout(s) \/ FinishCheckout(s) PROVE RefundsCovered'
  <2>1. UNCHANGED <<captured, refunds>> /\ \A t \in Sessions : RefundedOf(t)' = RefundedOf(t)
      BY <1>2, <1>3 DEF BeginCheckout, FinishCheckout
  <2>2. stage[s] \in {"none", "created"} /\ stage'[s] \in {"created", "offered"} /\ agreed'[s].price > 0
    <3>1. CASE BeginCheckout(s)
        BY <3>1 DEF BeginCheckout, TypeOK
    <3>2. CASE FinishCheckout(s)
        BY <3>2 DEF FinishCheckout, TypeOK, Agreement, RefundsCovered
    <3> QED BY <1>3, <3>1, <3>2
  <2>3. \A t \in Sessions \ {s} : stage'[t] = stage[t] /\ agreed'[t] = agreed[t]
      BY <1>3 DEF BeginCheckout, FinishCheckout, TypeOK
  <2>4. \A r \in RefundIds : refunds[r].session # NoSession => refunds[r].session \in Sessions \ {s}
      BY <2>2 DEF RefundsCovered, TypeOK
  <2> QED BY <2>1, <2>2, <2>3, <2>4 DEF RefundsCovered
<1>4. ASSUME NEW s \in Sessions, (\E amount \in Prices : Pay(s, amount)) \/ PayLater(s) \/ Settle(s)
      PROVE  RefundsCovered'
  <2>1. UNCHANGED <<agreed, refunds>> /\ \A t \in Sessions : RefundedOf(t)' = RefundedOf(t)
      BY <1>2, <1>4 DEF Pay, PayLater, Settle
  <2>2. stage[s] \in {"offered", "settling"} /\ stage'[s] \in {"settling", "paid"}
      BY <1>4 DEF Pay, PayLater, Settle, TypeOK
  <2>3. stage'[s] = "paid" => captured'[s] > 0
      BY <1>4 DEF Pay, PayLater, Settle, TypeOK, RefundsCovered
  <2>4. \A t \in Sessions \ {s} : stage'[t] = stage[t] /\ captured'[t] = captured[t]
      BY <1>4 DEF Pay, PayLater, Settle, TypeOK
  <2>5. \A r \in RefundIds : refunds[r].session # NoSession => refunds[r].session \in Sessions \ {s}
      BY <2>2 DEF RefundsCovered, TypeOK
  <2>6. RefundedOf(s) = 0
    <3>1. {r \in RefundIds : refunds[r].session = s} = {}
        BY <2>5, NoSessionAssumption
    <3> QED BY <3>1, SumEmpty DEF RefundedOf
  <2>7. captured'[s] \in Nat
      BY DEF TypeOK
  <2> QED BY <2>1, <2>2, <2>3, <2>4, <2>5, <2>6, <2>7 DEF RefundsCovered
<1>5. ASSUME NEW s \in Sessions, NEW r \in RefundIds, NEW amount \in Prices,
             stage[s] = "paid", refunds[r].session = NoSession, UNCHANGED <<stage, agreed, captured>>,
             refunds' = [refunds EXCEPT ![r] = [session |-> s, amount |-> amount]],
             RefundedOf(s) + amount <= captured[s]
      PROVE  RefundsCovered'
  <2>1. RefundedOf(s)' = amount + RefundedOf(s) /\ \A t \in Sessions \ {s} : RefundedOf(t)' = RefundedOf(t)
      BY <1>5, RefundAdds
  <2>2. /\ refunds'[r] = [session |-> s, amount |-> amount]
        /\ \A x \in RefundIds \ {r} : refunds'[x] = refunds[x]
      BY <1>5 DEF TypeOK
  <2>3. \A x \in RefundIds : refunds'[x].session # NoSession => stage[refunds'[x].session] = "paid"
      BY <1>5, <2>2 DEF RefundsCovered
  <2>4. RefundedOf(s)' <= captured[s]
    <3>1. RefundedOf(s) \in Nat
        BY RefundedIsNat
    <3> QED BY <1>5, <2>1, <3>1
  <2>5. \A t \in Sessions : RefundedOf(t)' <= captured[t]
      BY <2>1, <2>4 DEF RefundsCovered
  <2> QED BY <1>5, <2>3, <2>5 DEF RefundsCovered
<1>6. ASSUME NEW s \in Sessions, NEW r \in RefundIds, NEW amount \in Prices, Refund(s, r, amount)
      PROVE  RefundsCovered'
  <2> DEFINE total == RefundedOf(s) + amount
  <2>1. total \in 1..captured[s] /\ captured[s] \in Nat
      BY <1>6 DEF Refund, TypeOK
  <2> HIDE DEF total
  <2>2. total <= captured[s]
      BY <2>1
  <2> QED BY <1>5, <1>6, <2>2 DEF Refund, total
<1>7. ASSUME NEW s \in Sessions, NEW r \in RefundIds, RefundFails(s, r)
      PROVE  RefundsCovered'
  <2>1. 0 \in Prices /\ RefundedOf(s) + 0 <= captured[s]
      BY RefundedIsNat, MaxPriceAssumption DEF RefundsCovered
  <2> QED BY <1>5, <1>7, <2>1 DEF RefundFails
<1>8. \/ UNCHANGED <<stage, agreed, captured, refunds>>
      \/ \E s \in Sessions : BeginCheckout(s) \/ FinishCheckout(s)
      \/ \E s \in Sessions : (\E amount \in Prices : Pay(s, amount)) \/ PayLater(s) \/ Settle(s)
      \/ \E s \in Sessions, r \in RefundIds : RefundFails(s, r) \/ \E amount \in Prices : Refund(s, r, amount)
    BY PayingAssumption DEF Next, vars, server, stripe, Publish, FreeCheckout, Deliver, DeliverIgnored,
       DeliverRejected, DeliverPaid, DeliverRefund, Receives, RevokeOrder, Restart, Resend
<1> QED BY <1>1, <1>3, <1>4, <1>6, <1>7, <1>8

-----------------------------------------------------------------------------
(* Steps that answer no refund event. *)

LEMMA ToldSteps ==
    ASSUME [Next]_vars
    PROVE  \/ UNCHANGED <<told, pending>>
           \/ \E e \in sent : Receives(e) /\ ~IsRefund(e) /\ told' = told \cup {e}
                               /\ (DeliverPaid(e) \/ UNCHANGED <<orders, pending>>)
           \/ \E e \in sent : IsRefund(e) /\ DeliverRefund(e)
BY ZenonT(60)
DEF Next, vars, server, ServerIdle, Publish, BeginCheckout, FinishCheckout, FreeCheckout, Deliver,
   DeliverIgnored, DeliverRejected, DeliverPaid, DeliverRefund, Receives, Restart, RevokeOrder,
   Pay, PayLater, Settle, Resend, Refund, RefundFails, Ignored, IsPaid, IsRefund, RefundKinds,
   Completed, AsyncPaid, Created, Charge


LEMMA BookedNow ==
    ASSUME TypeOK, Booked, NEW id \in OrderIds, NEW s \in Sessions, IsOrder(id), orders[id].ref = s
    PROVE  Holds(orders[id], ToldIds(s), ToldById(s), ToldCumulative(s), channels # RefundKinds)
BY NoSessionAssumption DEF Booked, Holds

(* The parked refunds and the books, while no refund event is answered. *)
LEMMA QuietStep ==
    ASSUME TypeOK, TypeOK', Agreement, RefundsReported, Parked, Booked, [Next]_vars,
           told' = told \/ \E e : ~IsRefund(e) /\ told' = told \cup {e},
           UNCHANGED pending,
           UNCHANGED orders \/ FreeCheckout
              \/ \E id \in OrderIds, reason \in {"manual", "refund"} : RevokeOrder(id, reason)
    PROVE  Parked' /\ Booked'
<1>1. UNCHANGED channels /\ \A s \in Sessions :
         /\ ToldIds(s)' = ToldIds(s) /\ ToldById(s)' = ToldById(s)
         /\ ToldCumulative(s)' = ToldCumulative(s) /\ Reported(s)' = Reported(s)
    BY ToldKept, StripeKeeps
<1>2. ASSUME NEW id \in OrderIds, NEW s \in Sessions, IsOrder(id)', orders'[id].ref = s
      PROVE  /\ IsOrder(id) /\ orders[id].ref = s
             /\ \/ orders'[id] = orders[id]
                \/ \E reason \in {"manual", "refund"} : orders'[id] = [orders[id] EXCEPT !.revoked = reason]
  <2>1. CASE UNCHANGED orders
      BY <1>2, <2>1 DEF IsOrder
  <2>2. CASE FreeCheckout
    <3>1. PICK x \in OrderIds : orders'[x].ref = NoSession /\ \A y \in OrderIds \ {x} : orders'[y] = orders[y]
        BY <2>2, FreeMakesOrder
    <3>2. id # x
        BY <1>2, <3>1, NoSessionAssumption
    <3> QED BY <1>2, <3>1, <3>2 DEF IsOrder
  <2>3. ASSUME NEW x \in OrderIds, NEW reason \in {"manual", "refund"}, RevokeOrder(x, reason)
        PROVE  /\ IsOrder(id) /\ orders[id].ref = s
               /\ \/ orders'[id] = orders[id]
                  \/ \E why \in {"manual", "refund"} : orders'[id] = [orders[id] EXCEPT !.revoked = why]
    <3>1. IsOrder(id) /\ Sale(orders[id])' = Sale(orders[id])
        BY <1>2, <2>3, RevokeKeepsSale
    <3>2. orders' = [orders EXCEPT ![x] = [orders[x] EXCEPT !.revoked = reason]]
        BY <2>3 DEF RevokeOrder
    <3>3. id = x => orders'[id] = [orders[id] EXCEPT !.revoked = reason]
        BY <3>2 DEF TypeOK
    <3>4. id # x => orders'[id] = orders[id]
        BY <3>2 DEF TypeOK
    <3> QED BY <1>2, <3>1, <3>3, <3>4 DEF Sale
  <2> QED BY <2>1, <2>2, <2>3
<1>3. ASSUME NEW id \in OrderIds, NEW s \in Sessions, IsOrder(id)', orders'[id].ref = s
      PROVE  Holds(orders'[id], ToldIds(s)', ToldById(s)', ToldCumulative(s)', channels' # RefundKinds)
  <2>1. /\ IsOrder(id) /\ orders[id].ref = s /\ orders[id] \in Orders
        /\ \/ orders'[id] = orders[id]
           \/ \E reason \in {"manual", "refund"} : orders'[id] = [orders[id] EXCEPT !.revoked = reason]
      BY <1>2, <1>3 DEF IsOrder, TypeOK
  <2>2. Holds(orders[id], ToldIds(s), ToldById(s), ToldCumulative(s), channels # RefundKinds)
      BY <2>1, BookedNow
  <2>3. /\ orders'[id].refundIds = orders[id].refundIds /\ orders'[id].amount = orders[id].amount
        /\ orders'[id].amountRefunded = orders[id].amountRefunded
        /\ orders[id].revoked # "no" => orders'[id].revoked # "no"
      BY <2>1 DEF Orders
  <2> QED BY <1>1, <2>2, <2>3 DEF Holds
<1>4. Booked'
    BY <1>3, BookedNext
<1>5. Parked'
  <2> SUFFICES ASSUME NEW s \in Sessions, OrdersOf(s)' = {} PROVE pending'[s] = Reported(s)'
      BY DEF Parked
  <2>1. OrdersOf(s) = {}
    <3> SUFFICES ASSUME NEW id \in OrdersOf(s) PROVE FALSE
        OBVIOUS
    <3>1. id \in OrderIds /\ IsOrder(id) /\ orders[id].ref = s
        BY DEF OrdersOf
    <3>2. IsOrder(id)' /\ orders'[id].ref = s
      <4>1. CASE UNCHANGED orders
          BY <3>1, <4>1 DEF IsOrder
      <4>2. CASE FreeCheckout
          BY <3>1, <4>2, FreeMakesOrder DEF IsOrder
      <4>3. CASE \E x \in OrderIds, reason \in {"manual", "refund"} : RevokeOrder(x, reason)
          BY <3>1, <4>3, RevokeKeepsSale DEF Sale
      <4> QED BY <4>1, <4>2, <4>3
    <3> QED BY <3>1, <3>2 DEF OrdersOf
  <2> QED BY <1>1, <2>1 DEF Parked
<1> QED BY <1>4, <1>5

(* A payment settled: a new order takes over what was parked, an old one is *)
(* left as it is.                                                          *)
LEMMA PaidBooks ==
    ASSUME TypeOK, TypeOK', SettlementInv, PendingOnlyBeforeOrder, RefundsReported, RefundsCovered,
           Parked, Booked, [Next]_vars, NEW e \in sent, DeliverPaid(e)
    PROVE  Parked' /\ Booked'
<1> DEFINE s == e.session
<1>1. PICK x \in OrderIds :
         /\ OrderFor(s, x)
         /\ IsOrder(x)' /\ orders'[x] = Minted(e, x) /\ orders'[x].ref = s
         /\ IsOrder(x) => orders[x].ref = s
         /\ \A id \in OrderIds \ {x} : orders'[id] = orders[id]
    BY PaidMakesOrder
<1>2. e \in Events /\ s \in Sessions /\ Receives(e) /\ ~IsRefund(e) /\ told' = told \cup {e}
    BY ReceivedType DEF DeliverPaid, Receives, IsPaid, IsRefund, RefundKinds, Completed, AsyncPaid,
       Created, Charge
<1>3. UNCHANGED channels /\ \A t \in Sessions :
         /\ ToldIds(t)' = ToldIds(t) /\ ToldById(t)' = ToldById(t)
         /\ ToldCumulative(t)' = ToldCumulative(t) /\ Reported(t)' = Reported(t)
    BY <1>2, ToldKept, StripeKeeps DEF SettlementInv
<1>4. Holds(orders'[x], ToldIds(s), ToldById(s), ToldCumulative(s), channels # RefundKinds)
  <2>1. CASE IsOrder(x)
    <3>1. x \in OrdersOf(s) /\ orders[x].ref = s
        BY <1>1, <2>1 DEF OrdersOf
    <3>2. Minted(e, x) = orders[x]
        BY <1>2, <3>1, MintAgain DEF SettlementInv
    <3> QED BY <1>1, <1>2, <2>1, <3>1, <3>2, BookedNow
  <2>2. CASE ~IsOrder(x)
    <3>1. OrdersOf(s) = {}
        BY <1>1, <2>2 DEF OrderFor, OrdersOf
    <3>2. stage[s] = "paid" /\ SettledTerms(s).price = captured[s]
        BY DEF DeliverPaid, Accepted, SettlementInv, PaymentsReported
    <3> QED BY <1>1, <1>2, <2>2, <3>1, <3>2, MintBooks
  <2> QED BY <2>1, <2>2
<1>5. Booked'
  <2> SUFFICES ASSUME NEW id \in OrderIds, NEW t \in Sessions, IsOrder(id)', orders'[id].ref = t
               PROVE  Holds(orders'[id], ToldIds(t)', ToldById(t)', ToldCumulative(t)', channels' # RefundKinds)
      BY BookedNext
  <2>1. CASE id = x
      BY <1>1, <1>3, <1>4, <2>1
  <2>2. CASE id # x
    <3>1. orders'[id] = orders[id] /\ IsOrder(id)
        BY <1>1, <2>2 DEF IsOrder
    <3>2. Holds(orders[id], ToldIds(t), ToldById(t), ToldCumulative(t), channels # RefundKinds)
        BY <3>1, BookedNow
    <3> QED BY <1>3, <3>1, <3>2
  <2> QED BY <2>1, <2>2
<1>6. Parked'
  <2> SUFFICES ASSUME NEW t \in Sessions, OrdersOf(t)' = {} PROVE pending'[t] = Reported(t)'
      BY DEF Parked
  <2>1. t # s /\ OrdersOf(t) = {}
      BY <1>1 DEF OrdersOf, IsOrder
  <2>2. pending'[t] = pending[t]
      BY <2>1 DEF DeliverPaid, TakePending, TypeOK
  <2> QED BY <1>3, <2>1, <2>2 DEF Parked
<1> QED BY <1>5, <1>6

(* A refund event answered: it is booked on the order of its session, or    *)
(* parked.                                                                 *)
LEMMA RefundStep ==
    ASSUME TypeOK, TypeOK', SettlementInv, OneOrderPerPayment, RefundsReported, RefundsCovered,
           Parked, Booked, NEW e \in sent, IsRefund(e), DeliverRefund(e)
    PROVE  Parked' /\ Booked'
<1> DEFINE s == e.session
<1>1. e \in Events /\ s \in Sessions /\ s # NoSession /\ Receives(e) /\ UNCHANGED channels
    BY NoSessionAssumption DEF DeliverRefund, Receives, stripe, TypeOK, Events
<1>2. \A t \in Sessions \ {s} :
         /\ ToldIds(t)' = ToldIds(t) /\ ToldById(t)' = ToldById(t)
         /\ ToldCumulative(t)' = ToldCumulative(t) /\ Reported(t)' = Reported(t)
    BY <1>1, ToldMore
<1>3. \A t \in Sessions : OrdersOf(t)' = OrdersOf(t)
    BY RefundKeepsSale DEF OrdersOf, Sale
<1>4. Booked'
  <2> SUFFICES ASSUME NEW id \in OrderIds, NEW t \in Sessions, IsOrder(id)', orders'[id].ref = t
               PROVE  Holds(orders'[id], ToldIds(t)', ToldById(t)', ToldCumulative(t)', channels' # RefundKinds)
      BY BookedNext
  <2>1. IsOrder(id) /\ orders[id].ref = t
      BY RefundKeepsSale DEF Sale
  <2>2. CASE t = s
    <3>1. id \in OrdersOf(s)
        BY <2>1, <2>2 DEF OrdersOf
    <3>2. PICK x \in OrdersOf(s) : orders' = [orders EXCEPT ![x] = ApplyRefund(orders[x], RefundInfoOf(e))]
        BY <3>1 DEF DeliverRefund
    <3>3. x = id
        BY <1>1, <2>1, <2>2, <3>2 DEF OneOrderPerPayment, OrdersOf
    <3>4. orders'[id] = ApplyRefund(orders[id], RefundInfoOf(e))
        BY <3>2, <3>3 DEF TypeOK
    <3>5. Holds(ApplyRefund(orders[id], RefundInfoOf(e)), ToldIds(s)', ToldById(s)', ToldCumulative(s)',
                channels # RefundKinds)
        BY <1>1, <3>1, RefundBooks DEF SettlementInv
    <3> QED BY <1>1, <2>2, <3>4, <3>5
  <2>3. CASE t # s
    <3>1. orders'[id] = orders[id]
      <4>1. id \notin OrdersOf(s)
          BY <2>1, <2>3 DEF OrdersOf
      <4> QED BY <4>1 DEF DeliverRefund, TypeOK
    <3>2. Holds(orders[id], ToldIds(t), ToldById(t), ToldCumulative(t), channels # RefundKinds)
        BY <2>1, BookedNow
    <3> QED BY <1>1, <1>2, <2>3, <3>1, <3>2
  <2> QED BY <2>2, <2>3
<1>5. Parked'
  <2> SUFFICES ASSUME NEW t \in Sessions, OrdersOf(t)' = {} PROVE pending'[t] = Reported(t)'
      BY DEF Parked
  <2>1. OrdersOf(t) = {}
      BY <1>3
  <2>2. CASE t = s
    <3>1. pending'[s] = MergeRefund(pending[s], RefundInfoOf(e))
        BY <1>1, <2>1, <2>2 DEF DeliverRefund, TypeOK
    <3>2. MergeRefund(pending[s], RefundInfoOf(e)) = Reported(s)'
        BY <1>1, <2>1, <2>2, RefundParks
    <3> QED BY <2>2, <3>1, <3>2
  <2>3. CASE t # s
    <3>1. pending'[t] = pending[t]
        BY <2>3 DEF DeliverRefund, TypeOK
    <3> QED BY <1>2, <2>1, <2>3, <3>1 DEF Parked
  <2> QED BY <2>2, <2>3
<1> QED BY <1>4, <1>5

LEMMA BooksStep == BooksInv /\ [Next]_vars => BooksInv'
<1> SUFFICES ASSUME BooksInv, [Next]_vars PROVE BooksInv'
    OBVIOUS
<1> USE DEF BooksInv
<1>1. SettlementInv' /\ TypeOK /\ TypeOK' /\ Agreement
    BY SettlementStep DEF SettlementInv
<1>2. OneOrderPerPayment' /\ PendingOnlyBeforeOrder'
    BY <1>1, OneOrderStep, PendingStep
<1>3. RefundsReported'
    BY <1>1, ReportedStep
<1>4. RefundsCovered'
    BY <1>1, CoveredStep
<1>5. ASSUME NEW e \in sent, DeliverPaid(e) PROVE Parked' /\ Booked'
    BY <1>1, <1>5, PaidBooks
<1>6. ASSUME NEW e \in sent, IsRefund(e), DeliverRefund(e) PROVE Parked' /\ Booked'
    BY <1>1, <1>6, RefundStep
<1>7. ASSUME UNCHANGED pending, told' = told \/ \E e : ~IsRefund(e) /\ told' = told \cup {e},
             UNCHANGED orders \/ FreeCheckout
              \/ \E id \in OrderIds, reason \in {"manual", "refund"} : RevokeOrder(id, reason)
      PROVE Parked' /\ Booked'
    BY <1>1, <1>7, QuietStep
<1>8. Parked' /\ Booked'
  <2>1. CASE UNCHANGED <<told, pending>>
    <3>1. CASE \E e \in sent : DeliverPaid(e) \/ DeliverRefund(e)
        BY <1>5, <1>6, <3>1 DEF DeliverRefund
    <3> QED BY <1>7, <2>1, <3>1, OrderSteps
  <2>2. CASE \E e \in sent : Receives(e) /\ ~IsRefund(e) /\ told' = told \cup {e}
                               /\ (DeliverPaid(e) \/ UNCHANGED <<orders, pending>>)
      BY <1>5, <1>7, <2>2
  <2>3. CASE \E e \in sent : IsRefund(e) /\ DeliverRefund(e)
      BY <1>6, <2>3
  <2> QED BY <2>1, <2>2, <2>3, ToldSteps
<1> QED BY <1>1, <1>2, <1>3, <1>4, <1>8

(* The books: an order never holds less than the refund events told, exactly *)
(* that if one kind of event is subscribed, and a full refund ended it.     *)
THEOREM BooksKept == Spec => []BooksWhatStripeReported
<1>1. ASSUME BooksInv PROVE BooksWhatStripeReported
  <2> SUFFICES ASSUME NEW id \in OrderIds, IsOrder(id), orders[id].ref # NoSession
               PROVE  LET o == orders[id]
                          reported == Larger(ToldById(o.ref), ToldCumulative(o.ref))
                      IN  /\ o.amountRefunded >= reported
                          /\ Cardinality(channels) = 1 => o.amountRefunded = reported
                          /\ o.amountRefunded = o.amount => o.revoked # "no"
      BY DEF BooksWhatStripeReported
  <2>1. PICK s \in Sessions : orders[id].ref = s
      BY <1>1 DEF BooksInv, SettlementInv, TypeOK, IsOrder, Orders
  <2>2. Holds(orders[id], ToldIds(s), ToldById(s), ToldCumulative(s), channels # RefundKinds)
      BY <1>1, <2>1, BookedNow DEF BooksInv, SettlementInv
  <2>3. Cardinality(channels) = 1 => channels # RefundKinds
    <3>1. Cardinality({Created} \cup {Charge}) = Cardinality({Created}) + 1
        BY FS_Singleton, FS_AddElement DEF Created, Charge
    <3>2. RefundKinds = {Created} \cup {Charge} /\ Cardinality({Created}) = 1
        BY FS_Singleton DEF RefundKinds
    <3> QED BY <3>1, <3>2
  <2>4. ToldById(s) \in Nat /\ ToldCumulative(s) \in Nat
      BY <1>1, ToldFacts DEF BooksInv, SettlementInv
  <2>5. orders[id].amountRefunded \in Nat
      BY <1>1 DEF BooksInv, SettlementInv, TypeOK, IsOrder, Orders
  <2> DEFINE reported == Larger(ToldById(s), ToldCumulative(s))
  <2>6. reported \in Nat /\ orders[id].amountRefunded \in reported..orders[id].amount
      BY <2>2, <2>4 DEF Holds, Larger
  <2> HIDE DEF reported
  <2>7. orders[id].amountRefunded >= reported
      BY <2>5, <2>6
  <2> QED BY <2>1, <2>2, <2>3, <2>7 DEF Holds, reported
<1> QED BY <1>1, BooksInit, BooksStep, PTL DEF Spec

(* Answering an event again changes neither orders nor parked refunds.     *)
THEOREM ReplayChangesNothing == Spec => ReplayIsHarmless
<1> DEFINE Harmless == \A e \in told :
              (Deliver(e) /\ (IsPaid(e) => OrdersOf(e.session) # {})) => UNCHANGED <<orders, pending>>
<1>1. ASSUME BooksInv PROVE Harmless
  <2> SUFFICES ASSUME NEW e \in told, Deliver(e), IsPaid(e) => OrdersOf(e.session) # {}
               PROVE  UNCHANGED <<orders, pending>>
      OBVIOUS
  <2> DEFINE s == e.session
  <2> USE <1>1 DEF BooksInv, SettlementInv
  <2>1. e \in Events /\ s \in Sessions
      BY DEF TypeOK, Events
  <2>2. CASE DeliverPaid(e)
    <3>1. PICK x \in OrderIds : OrderFor(s, x) /\ orders' = [orders EXCEPT ![x] = Minted(e, x)]
        BY <2>2 DEF DeliverPaid
    <3>2. OrdersOf(s) # {} /\ x \in OrdersOf(s)
        BY <2>2, <3>1 DEF DeliverPaid, OrderFor
    <3>3. Minted(e, x) = orders[x]
        BY <2>1, <3>2, MintAgain
    <3>4. UNCHANGED orders
        BY <3>1, <3>3 DEF TypeOK
    <3>5. pending[s] = NothingToRefund
        BY <2>1, <3>2 DEF PendingOnlyBeforeOrder
    <3>6. UNCHANGED pending
        BY <2>2, <3>5 DEF DeliverPaid, TakePending, TypeOK
    <3> QED BY <3>4, <3>6
  <2>3. CASE DeliverRefund(e)
    <3>1. Receives(e) /\ IsRefund(e) /\ told' = told
        BY <2>3 DEF DeliverRefund, Receives
    <3>2. ASSUME NEW x \in OrdersOf(s),
                 orders' = [orders EXCEPT ![x] = ApplyRefund(@, RefundInfoOf(e))], UNCHANGED pending
          PROVE  UNCHANGED <<orders, pending>>
      <4>1. ApplyRefund(orders[x], RefundInfoOf(e)) = orders[x]
          BY <3>1, RefundBooks
      <4> QED BY <3>2, <4>1 DEF TypeOK
    <3>3. ASSUME OrdersOf(s) = {}, UNCHANGED orders,
                 pending' = [pending EXCEPT ![s] = MergeRefund(@, RefundInfoOf(e))]
          PROVE  UNCHANGED <<orders, pending>>
      <4>1. MergeRefund(pending[s], RefundInfoOf(e)) = Reported(s)'
          BY <3>1, <3>3, RefundParks
      <4>2. UNCHANGED refunds
          BY <3>1 DEF Receives, stripe
      <4>3. Reported(s)' = Reported(s)
          BY <2>1, <3>1, <4>2, ToldKept
      <4>4. MergeRefund(pending[s], RefundInfoOf(e)) = pending[s]
          BY <2>1, <3>3, <4>1, <4>3 DEF Parked
      <4> QED BY <3>3, <4>4 DEF TypeOK
    <3> QED BY <2>3, <3>2, <3>3 DEF DeliverRefund
  <2> QED BY <2>2, <2>3 DEF Deliver, DeliverIgnored, DeliverRejected
<1>2. BooksInv => [Harmless]_vars
    BY <1>1
<1> QED BY <1>2, BooksInit, BooksStep, PTL DEF Spec, ReplayIsHarmless

(* What a step may do to an order. *)
Forward(before, after) ==
    /\ after # NoOrder
    /\ <<after.ref, after.amount, after.version>> = <<before.ref, before.amount, before.version>>
    /\ after.amountRefunded >= before.amountRefunded
    /\ before.refundIds \subseteq after.refundIds
    /\ before.revoked # "no" => after.revoked # "no"

(* An order keeps its sale, its refunds and its end.                        *)
THEOREM OrdersClimb == Spec => OrdersOnlyMoveForward
<1>0. ASSUME NEW o \in Orders PROVE Forward(o, o)
    BY <1>0, NoOrderAssumption DEF Forward, Orders
<1>1. ASSUME BooksInv, [Next]_vars, NEW id \in OrderIds, IsOrder(id)
      PROVE  Forward(orders[id], orders'[id])
  <2> USE <1>1 DEF BooksInv, SettlementInv
  <2>1. orders[id] \in Orders
      BY DEF TypeOK, IsOrder
  <2>2. ASSUME orders'[id] = orders[id] PROVE Forward(orders[id], orders'[id])
      BY <1>0, <2>1, <2>2
  <2>3. CASE FreeCheckout
      BY <2>2, <2>3, FreeMakesOrder
  <2>4. ASSUME NEW e \in sent, DeliverPaid(e) PROVE Forward(orders[id], orders'[id])
    <3>1. PICK x \in OrderIds : /\ orders'[x] = Minted(e, x)
                                /\ IsOrder(x) => orders[x].ref = e.session
                                /\ \A y \in OrderIds \ {x} : orders'[y] = orders[y]
        BY <2>4, PaidMakesOrder
    <3>2. e \in Events
        BY DEF TypeOK
    <3>3. CASE id = x
      <4>1. id \in OrdersOf(e.session)
          BY <3>1, <3>3 DEF OrdersOf
      <4>2. orders'[id] = orders[id]
          BY <3>1, <3>2, <3>3, <4>1, MintAgain
      <4> QED BY <2>2, <4>2
    <3> QED BY <2>2, <3>1, <3>3
  <2>5. ASSUME NEW e \in sent, DeliverRefund(e) PROVE Forward(orders[id], orders'[id])
    <3>1. CASE UNCHANGED orders
        BY <2>2, <3>1
    <3>2. ASSUME NEW x \in OrdersOf(e.session),
                 orders' = [orders EXCEPT ![x] = ApplyRefund(@, RefundInfoOf(e))]
          PROVE  Forward(orders[id], orders'[id])
      <4>1. CASE id = x
        <5>1. orders'[id] = ApplyRefund(orders[id], RefundInfoOf(e))
            BY <3>2, <4>1 DEF TypeOK
        <5>2. LET after == ApplyRefund(orders[id], RefundInfoOf(e))
              IN  /\ after \in Orders /\ Sale(after) = Sale(orders[id])
                  /\ after.amountRefunded >= orders[id].amountRefunded
                  /\ orders[id].refundIds \subseteq after.refundIds
                  /\ orders[id].revoked # "no" => after.revoked # "no"
            BY <2>5, <3>2, <4>1, RefundBooks DEF DeliverRefund
        <5> QED BY <5>1, <5>2, NoOrderAssumption DEF Forward, Sale
      <4>2. CASE id # x
          BY <2>2, <3>2, <4>2 DEF TypeOK
      <4> QED BY <4>1, <4>2
    <3> QED BY <2>5, <3>1, <3>2 DEF DeliverRefund
  <2>6. ASSUME NEW x \in OrderIds, NEW reason \in {"manual", "refund"}, RevokeOrder(x, reason)
        PROVE  Forward(orders[id], orders'[id])
    <3>1. orders' = [orders EXCEPT ![x] = [orders[x] EXCEPT !.revoked = reason]]
        BY <2>6 DEF RevokeOrder
    <3>2. CASE id = x
      <4>1. orders'[id] = [orders[id] EXCEPT !.revoked = reason]
          BY <3>1, <3>2 DEF TypeOK
      <4>2. orders'[id] \in Orders
          BY <2>1, <4>1 DEF Orders, Reasons
      <4> QED BY <2>1, <4>1, <4>2, NoOrderAssumption DEF Forward, Orders
    <3>3. CASE id # x
        BY <2>2, <3>1, <3>3 DEF TypeOK
    <3> QED BY <3>2, <3>3
  <2> QED BY <2>2, <2>3, <2>4, <2>5, <2>6, OrderSteps
<1> DEFINE Climb == \A id \in OrderIds : IsOrder(id) =>
          LET before == orders[id]
              after  == orders'[id]
          IN  /\ after # NoOrder
              /\ <<after.ref, after.amount, after.version>> = <<before.ref, before.amount, before.version>>
              /\ after.amountRefunded >= before.amountRefunded
              /\ before.refundIds \subseteq after.refundIds
              /\ before.revoked # "no" => after.revoked # "no"
<1>2. BooksInv /\ [Next]_vars => [Climb]_vars
  <2> SUFFICES ASSUME BooksInv, [Next]_vars PROVE Climb
      OBVIOUS
  <2> QED BY <1>1 DEF Forward
<1> QED BY <1>2, BooksInit, BooksStep, PTL DEF Spec, OrdersOnlyMoveForward
=============================================================================
