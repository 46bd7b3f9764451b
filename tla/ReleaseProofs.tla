----------------------------- MODULE ReleaseProofs -----------------------------
(***************************************************************************)
(* Proofs about modules Release and, in the last part, Tracing, for any    *)
(* drafts, sources, orders and phrases.                                    *)
(*                                                                         *)
(* The invariant says where everything a buyer may hold comes from.  What  *)
(* is published went through the gates (Published); what a visit has       *)
(* fetched is the capability of a publication and a bundle that some       *)
(* publication's listing was served with, of some draft's files, unless    *)
(* it was garbled on the way (Fetching); and what was installed was not    *)
(* garbled, and is continuous with and provenant from its capability       *)
(* (Installed).  The rest is about the operators: hashes tell what was     *)
(* hashed, stripping restores what embedding changed, and a file that      *)
(* clears an audit has as many slots as marks.                             *)
(*                                                                         *)
(* Of Tracing: a leak is a copy of an order on record (TraceInv).  What it *)
(* shows of a legible source are the options picked at the marks kept, so  *)
(* that an order is consistent with it just if it was given the same       *)
(* wording there (OwnTrace); of another source it shows nothing, so that   *)
(* the best evidence is its own source's (EvidenceOfOne).                  *)
(* Of the channels, two sentinels that are left are the embedded ones, and  *)
(* as many bits between them as a fingerprint has are the embedded bits    *)
(* (BetweenSentinels), so that no damage reads as another order's          *)
(* (CovertReads).                                                          *)
(***************************************************************************)
EXTENDS Release, Tracing, FiniteSetTheorems, SequenceTheorems, WellFoundedInduction, TLAPS

(* A bundle of these files, whatever the registry advertises. *)
BundleOf(digest, files, fp) ==
    BuildBuyerBundle(MasterFiles(files, fp), Varied(files, fp), digest, fp)

(* What the gates let through. *)
Published(r) ==
    /\ \E d \in Drafts : r.files = d.files
    /\ r.price = MetaOf(r.files).price
    /\ \E secret \in Nat : r.openings = Openings(r.files, secret)
    /\ \E found \in Scans(Neutral(r.files)), external \in ExternalAnswers :
          LET scan == Merged(found, external)
          IN  ~scan.blocked /\ r.capability = BuildCapability(r.files, r.evals, scan, r.openings)
    /\ r.price > 0 => /\ r.evals # NoCard /\ r.evals \in Cards(r.files, TRUE)
                      /\ r.evals.passed = r.evals.total

(* A bundle as it is made: under the digest of the publication s, of the    *)
(* files of that or of another package.                                    *)
MadeOf(bundle, s, files, order, mixed) ==
    /\ bundle = BundleOf(s.capability.digest, files, FingerprintOf[order])
    /\ ~mixed => files = s.files

GarbledOf(bundle, s, files, order) ==
    bundle = [BundleOf(s.capability.digest, s.files, FingerprintOf[order]) EXCEPT
                 !.delivered = BundleOf(s.capability.digest, files, FingerprintOf[order]).delivered]

(* What an add, update or verify has fetched so far. *)
Fetching(v, all) ==
    /\ DOMAIN v = {"order", "capability", "bundle", "mixedUp"}
    /\ v.order \in Orders
    /\ v.capability # Missing => \E r \in all : v.capability = r.capability
    /\ v.bundle # Missing => \E s \in all, d \in Drafts :
          \/ MadeOf(v.bundle, s, d.files, v.order, v.mixedUp)
          \/ v.mixedUp = TRUE /\ GarbledOf(v.bundle, s, d.files, v.order)

(* What it installs. *)
Installed(h, all) ==
    /\ h.order \in Orders
    /\ \E r \in all : h.capability = r.capability
    /\ \E s \in all, d \in Drafts : MadeOf(h.bundle, s, d.files, h.order, h.mixedUp)
    /\ Continuous(h.capability, h.bundle)
    /\ Provenant(h.capability, h.bundle)

ReleaseInv ==
    /\ drawn \in 0..MaxPublications
    /\ skill # NoSkill \/ visit # NoVisit => skill \in published
    /\ skill # NoSkill => \A p \in DOMAIN skill.openings : skill.openings[p].secret = drawn
    /\ \A r \in published : Published(r)
    /\ visit # NoVisit => Fetching(visit, published)
    /\ held # NoCopy => Installed(held, published)

-----------------------------------------------------------------------------
(* Recursion along a sequence *)

(* A set of numbers has a least one. *)
LEMMA LeastNatural ==
    ASSUME NEW T \in SUBSET Nat, T # {}
    PROVE  \E m \in T : \A k \in T : m <= k
  <1> DEFINE R == {ss \in Nat \X Nat : ss[1] < ss[2]}
  <1>1. R = OpToRel(<, Nat)
    BY DEF OpToRel
  <1>2. IsWellFoundedOn(R, Nat)
    BY <1>1, NatLessThanWellFounded
  <1>3. PICK m \in T : \A k \in T : ~ (<<k, m>> \in R)
    <2> HIDE DEF R
    <2> QED BY <1>2, WFMin
  <1>4. \A k \in T : ~ (k < m)
    BY <1>3
  <1> QED
    BY <1>4

(* Induction over the numbers, with a set for the predicate. *)
LEMMA NatSetInduction ==
    ASSUME NEW T, 0 \in T, \A n \in Nat : n \in T => n + 1 \in T
    PROVE  Nat \subseteq T
  <1> DEFINE B == {n \in Nat : n \notin T}
  <1> SUFFICES ASSUME B # {} PROVE FALSE
    OBVIOUS
  <1>1. PICK m \in B : \A k \in B : m <= k
    BY LeastNatural
  <1>2. m # 0
    BY <1>1
  <1>3. m - 1 \in Nat /\ m - 1 \notin B
    BY <1>1, <1>2
  <1> QED
    BY <1>1, <1>3

(* f is the recursion of a step along a sequence, up to its n-th element.   *)
Along(f, base, step, s, n) ==
    f = [i \in 0..n |-> IF i = 0 THEN base ELSE step[<<f[i - 1], s[i]>>]]

(* Such a recursion exists. *)
LEMMA AlongExists ==
    ASSUME NEW D, NEW E, NEW base \in D, NEW step \in [D \X E -> D], NEW s \in Seq(E)
    PROVE  \E f \in [0..Len(s) -> D] : Along(f, base, step, s, Len(s))
  <1> DEFINE T == {n \in Nat : n <= Len(s) => \E f \in [0..n -> D] : Along(f, base, step, s, n)}
  <1>1. 0 \in T
    <2> DEFINE f == [i \in 0..0 |-> base]
    <2>1. Along(f, base, step, s, 0)
      BY DEF Along
    <2>2. f \in [0..0 -> D]
      OBVIOUS
    <2> QED
      BY <2>1, <2>2
  <1>2. ASSUME NEW n \in Nat, n \in T PROVE n + 1 \in T
    <2> SUFFICES ASSUME n + 1 <= Len(s)
                 PROVE  \E f \in [0..(n + 1) -> D] : Along(f, base, step, s, n + 1)
      OBVIOUS
    <2>1. PICK f \in [0..n -> D] : Along(f, base, step, s, n)
      BY <1>2
    <2>2. \A i \in 0..n : f[i] = IF i = 0 THEN base ELSE step[<<f[i - 1], s[i]>>]
      BY <2>1 DEF Along
    <2>3. s[n + 1] \in E /\ f[n] \in D
      BY <2>1
    <2>4. step[<<f[n], s[n + 1]>>] \in D
      BY <2>3
    <2>5. PICK g \in [0..(n + 1) -> D] :
              \A i \in 0..(n + 1) : g[i] = IF i <= n THEN f[i] ELSE step[<<f[n], s[n + 1]>>]
      <3> DEFINE h == [i \in 0..(n + 1) |-> IF i <= n THEN f[i] ELSE step[<<f[n], s[n + 1]>>]]
      <3>1. \A i \in 0..(n + 1) : i <= n => f[i] \in D
        BY <2>1
      <3>2. h \in [0..(n + 1) -> D]
        BY <2>4, <3>1
      <3> QED
        BY <3>2
    <2>6. \A i \in 0..(n + 1) : g[i] = IF i = 0 THEN base ELSE step[<<g[i - 1], s[i]>>]
      <3> HIDE DEF T
      <3> TAKE i \in 0..(n + 1)
      <3>2. CASE i = n + 1
        <4>1. n \in 0..(n + 1) /\ n <= n /\ ~(i <= n) /\ i # 0 /\ i - 1 = n
          BY <3>2
        <4>2. g[n] = f[n] /\ g[i] = step[<<f[n], s[n + 1]>>]
          BY <2>5, <4>1
        <4> QED
          BY <3>2, <4>1, <4>2
      <3>3. CASE i = 0
        <4>1. i \in 0..n /\ i <= n
          BY <3>3
        <4>2. g[i] = f[i] /\ f[i] = base
          BY <2>2, <2>5, <3>3, <4>1
        <4> QED
          BY <3>3, <4>2
      <3>4. CASE i # 0 /\ i # n + 1
        <4>1. i \in 0..n /\ i - 1 \in 0..n
          BY <3>4
        <4>2. g[i] = f[i] /\ g[i - 1] = f[i - 1]
          BY <2>5, <4>1
        <4> QED
          BY <2>2, <3>4, <4>1, <4>2
      <3> QED
        BY <3>2, <3>3, <3>4
    <2>7. Along(g, base, step, s, n + 1)
      <3> DEFINE h == [i \in 0..(n + 1) |-> IF i = 0 THEN base ELSE step[<<g[i - 1], s[i]>>]]
      <3>1. \A i \in 0..(n + 1) : g[i] = h[i]
        BY <2>6
      <3>2. g = h
        BY <3>1
      <3> QED
        BY <3>2 DEF Along
    <2> QED
      BY <2>5, <2>7
  <1> HIDE DEF T
  <1>3. Nat \subseteq T
    BY <1>1, <1>2, NatSetInduction
  <1>4. Len(s) \in T
    BY <1>3
  <1> QED
    BY <1>4 DEF T

(* Number: what a sequence of bits denotes is a natural number. *)
Counts(f, b, n) == f = [i \in 0..n |-> IF i = 0 THEN 0 ELSE 2 * f[i - 1] + b[i]]

(* A sequence of bits denotes a number. *)
LEMMA NumberIsNatural ==
    ASSUME NEW b \in Seq({0, 1}) PROVE Number(b) \in Nat
  <1> DEFINE step == [x \in Nat \X {0, 1} |-> 2 * x[1] + x[2]]
  <1>1. step \in [Nat \X {0, 1} -> Nat]
    OBVIOUS
  <1>2. PICK f \in [0..Len(b) -> Nat] : Along(f, 0, step, b, Len(b))
    BY <1>1, AlongExists
  <1>3. ASSUME NEW i \in 0..Len(b), i # 0
        PROVE  step[<<f[i - 1], b[i]>>] = 2 * f[i - 1] + b[i]
    <2>1. f[i - 1] \in Nat /\ b[i] \in {0, 1}
      BY <1>2, <1>3
    <2> QED
      BY <2>1
  <1> HIDE DEF step
  <1>4. Counts(f, b, Len(b))
    BY <1>2, <1>3 DEF Along, Counts
  <1> DEFINE g == CHOOSE g : Counts(g, b, Len(b))
  <1>5. Counts(g, b, Len(b))
    BY <1>4, Zenon
  <1>6. Number(b) = g[Len(b)]
    BY Zenon DEF Number, Counts
  <1> HIDE DEF g
  <1>7. \A i \in 0..Len(b) : g[i] = IF i = 0 THEN 0 ELSE 2 * g[i - 1] + b[i]
    BY <1>5 DEF Counts
  <1> DEFINE T == {n \in Nat : n <= Len(b) => g[n] \in Nat}
  <1>8. 0 \in T
    BY <1>7
  <1>9. ASSUME NEW n \in Nat, n \in T PROVE n + 1 \in T
    <2> SUFFICES ASSUME n + 1 <= Len(b) PROVE g[n + 1] \in Nat
      OBVIOUS
    <2>1. g[n] \in Nat /\ b[n + 1] \in {0, 1}
      BY <1>9
    <2>2. g[n + 1] = 2 * g[n] + b[n + 1]
      <3>1. n + 1 \in 0..Len(b) /\ n + 1 # 0 /\ (n + 1) - 1 = n
        OBVIOUS
      <3> QED
        BY <1>7, <3>1
    <2> QED
      BY <2>1, <2>2
  <1> HIDE DEF T
  <1>10. Nat \subseteq T
    BY <1>8, <1>9, NatSetInduction
  <1>11. Len(b) \in T
    BY <1>10
  <1> QED
    BY <1>6, <1>11 DEF T

(* A mark consumes a number of bits. *)
LEMMA BitsNatural ==
    ASSUME NEW options, Len(options) \in Nat PROVE BitsOf(options) \in Nat
  <1> DEFINE fit == {k \in 1..Len(options) : 2^k <= Len(options)}
  <1>1. IsFiniteSet(1..Len(options))
    BY FS_Interval
  <1>2. IsFiniteSet(fit)
    BY <1>1, FS_Subset
  <1> QED
    BY <1>2, FS_CardinalityType DEF BitsOf

(* CapacityBits: so is the number of bits that some marks consume. *)
Consumes(f, slots, n) == f = [i \in 0..n |-> IF i = 0 THEN 0 ELSE f[i - 1] + BitsOf(slots[i])]

LEMMA CapacityIsNatural ==
    ASSUME NEW S, NEW slots \in Seq(Seq(S)) PROVE CapacityBits(slots) \in Nat
  <1> DEFINE step == [x \in Nat \X Seq(S) |-> x[1] + BitsOf(x[2])]
  <1>0. \A o \in Seq(S) : BitsOf(o) \in Nat
    BY BitsNatural
  <1>1. step \in [Nat \X Seq(S) -> Nat]
    BY <1>0
  <1>2. PICK f \in [0..Len(slots) -> Nat] : Along(f, 0, step, slots, Len(slots))
    BY <1>1, AlongExists
  <1>3. ASSUME NEW i \in 0..Len(slots), i # 0
        PROVE  step[<<f[i - 1], slots[i]>>] = f[i - 1] + BitsOf(slots[i])
    <2> DEFINE O == Seq(S)
    <2> HIDE DEF O
    <2>4. slots \in Seq(O)
      BY DEF O
    <2>1. f[i - 1] \in Nat
      <3>1. i - 1 \in 0..Len(slots)
        BY <1>3, <2>4
      <3> QED
        BY <1>2, <3>1
    <2>2. slots[i] \in O
      BY <1>3, <2>4
    <2>3. <<f[i - 1], slots[i]>> \in Nat \X Seq(S)
      BY <2>1, <2>2 DEF O
    <2> QED
      BY <2>3
  <1> HIDE DEF step
  <1>4. Consumes(f, slots, Len(slots))
    BY <1>2, <1>3 DEF Along, Consumes
  <1> DEFINE g == CHOOSE g : Consumes(g, slots, Len(slots))
  <1>5. Consumes(g, slots, Len(slots))
    BY <1>4, Zenon
  <1>6. CapacityBits(slots) = g[Len(slots)]
    BY Zenon DEF CapacityBits, Consumes
  <1> HIDE DEF g
  <1>7. \A i \in 0..Len(slots) : g[i] = IF i = 0 THEN 0 ELSE g[i - 1] + BitsOf(slots[i])
    BY <1>5 DEF Consumes
  <1> DEFINE T == {n \in Nat : n <= Len(slots) => g[n] \in Nat}
  <1>8. 0 \in T
    BY <1>7
  <1>9. ASSUME NEW n \in Nat, n \in T PROVE n + 1 \in T
    <2> SUFFICES ASSUME n + 1 <= Len(slots) PROVE g[n + 1] \in Nat
      OBVIOUS
    <2>1. g[n] \in Nat /\ BitsOf(slots[n + 1]) \in Nat
      BY <1>0, <1>9
    <2>2. g[n + 1] = g[n] + BitsOf(slots[n + 1])
      <3>1. n + 1 \in 0..Len(slots) /\ n + 1 # 0 /\ (n + 1) - 1 = n
        OBVIOUS
      <3> QED
        BY <1>7, <3>1
    <2> QED
      BY <2>1, <2>2
  <1> HIDE DEF T
  <1>10. Nat \subseteq T
    BY <1>8, <1>9, NatSetInduction
  <1>11. Len(slots) \in T
    BY <1>10
  <1> QED
    BY <1>6, <1>11 DEF T

(* ParseSlots: if none is missing, the slots are the marks. *)
Sifts(f, marks, n) ==
    f = [i \in 0..n |-> IF i = 0 THEN <<>>
                        ELSE IF Len(marks[i]) >= 2 THEN Append(f[i - 1], marks[i])
                        ELSE f[i - 1]]

LEMMA SlotsFacts ==
    ASSUME NEW S, NEW doc, doc.marks \in Seq(Seq(S))
    PROVE  /\ ParseSlots(doc) \in Seq(Seq(S))
           /\ Len(ParseSlots(doc)) = Len(doc.marks) => ParseSlots(doc) = doc.marks
  <1> DEFINE O == Seq(S)
             m == doc.marks
             step == [x \in Seq(O) \X O |-> IF Len(x[2]) >= 2 THEN Append(x[1], x[2]) ELSE x[1]]
  <1>0. m \in Seq(O)
    OBVIOUS
  <1> HIDE DEF O
  <1>1. step \in [Seq(O) \X O -> Seq(O)] /\ <<>> \in Seq(O)
    OBVIOUS
  <1> HIDE DEF m
  <1>2. PICK f \in [0..Len(m) -> Seq(O)] : Along(f, <<>>, step, m, Len(m))
    BY <1>0, <1>1, AlongExists
  <1>3. ASSUME NEW i \in 0..Len(m), i # 0
        PROVE  step[<<f[i - 1], m[i]>>] =
                IF Len(m[i]) >= 2 THEN Append(f[i - 1], m[i]) ELSE f[i - 1]
    <2> HIDE DEF step
    <2>0. i \in 1..Len(m) /\ i - 1 \in 0..Len(m)
      BY <1>0, <1>3
    <2>1. f[i - 1] \in Seq(O) /\ m[i] \in O
      BY <1>0, <1>2, <2>0
    <2> USE DEF step
    <2> QED
      BY <2>1
  <1> HIDE DEF step
  <1>4. Sifts(f, m, Len(m))
    BY <1>2, <1>3 DEF Along, Sifts
  <1> DEFINE g == CHOOSE g : Sifts(g, m, Len(m))
  <1>5. Sifts(g, m, Len(m))
    BY <1>4, Zenon
  <1>6. ParseSlots(doc) = g[Len(m)]
    BY Zenon DEF ParseSlots, Sifts, m
  <1> HIDE DEF g
  <1>7. \A i \in 0..Len(m) : g[i] = IF i = 0 THEN <<>>
                                   ELSE IF Len(m[i]) >= 2 THEN Append(g[i - 1], m[i]) ELSE g[i - 1]
    BY <1>5 DEF Sifts
  <1> DEFINE Good(n) == /\ g[n] \in Seq(O) /\ Len(g[n]) <= n
                        /\ Len(g[n]) = n => \A i \in 1..n : g[n][i] = m[i]
             T == {n \in Nat : n <= Len(m) => Good(n)}
  <1>8. 0 \in T
    <2>1. g[0] = <<>>
      BY <1>0, <1>7
    <2>2. Len(<<>>) = 0 /\ 1..0 = {}
      OBVIOUS
    <2>3. Good(0)
      BY <1>1, <2>1, <2>2
    <2> QED
      BY <2>3
  <1>9. ASSUME NEW n \in Nat, n \in T PROVE n + 1 \in T
    <2> SUFFICES ASSUME n + 1 <= Len(m) PROVE Good(n + 1)
      OBVIOUS
    <2>1. Good(n) /\ m[n + 1] \in O
      BY <1>0, <1>9
    <2>2. g[n + 1] = IF Len(m[n + 1]) >= 2 THEN Append(g[n], m[n + 1]) ELSE g[n]
      <3>1. n + 1 \in 0..Len(m) /\ n + 1 # 0 /\ (n + 1) - 1 = n
        BY <1>0
      <3> QED
        BY <1>7, <3>1
    <2>3. CASE Len(m[n + 1]) >= 2
      BY <2>1, <2>2, <2>3
    <2>4. CASE ~(Len(m[n + 1]) >= 2)
      BY <2>1, <2>2, <2>4
    <2> QED
      BY <2>3, <2>4
  <1> HIDE DEF T
  <1>10. Nat \subseteq T
    BY <1>8, <1>9, NatSetInduction
  <1>11. Good(Len(m))
    BY <1>0, <1>10 DEF T
  <1>12. ASSUME Len(ParseSlots(doc)) = Len(m) PROVE ParseSlots(doc) = m
    <2> DEFINE p == ParseSlots(doc)
    <2>1. p \in Seq(O) /\ \A i \in 1..Len(m) : p[i] = m[i]
      BY <1>6, <1>11, <1>12
    <2> HIDE DEF p
    <2>2. Len(p) = Len(m)
      BY <1>12 DEF p
    <2>3. p = m
      BY <1>0, <2>1, <2>2
    <2> QED
      BY <2>3 DEF p
  <1> QED
    BY <1>6, <1>11, <1>12 DEF O, m

-----------------------------------------------------------------------------
(* Copies *)

(* A fingerprint has a bit for every position. *)
LEMMA BitIsBit ==
    ASSUME NEW fp \in Fingerprints, NEW j \in Nat, j > 0
    PROVE  Bit(fp, j) \in {0, 1}
  <1>1. FingerprintBits \in Nat /\ FingerprintBits > 0 /\ j - 1 \in Nat
    BY FingerprintBitsAssumption
  <1> DEFINE place == ((j - 1) % FingerprintBits) + 1
  <1>2. place \in 1..FingerprintBits
    BY <1>1
  <1>3. Bit(fp, j) = fp[place]
    BY DEF Bit
  <1> HIDE DEF place
  <1> QED
    BY <1>2, <1>3 DEF Fingerprints

(* The words of the options, which a fingerprint chooses among. *)
LEMMA PickedInRange ==
    ASSUME NEW doc, doc.marks \in Seq(Seq(Phrases)), NEW fp \in Fingerprints,
           NEW i \in DOMAIN doc.marks, doc.marks[i] # <<>>
    PROVE  Picked(doc, fp, i) \in 1..Len(doc.marks[i])
  <1> DEFINE m == doc.marks
             O == Seq(Phrases)
             cursor == CapacityBits(SubSeq(m, 1, i - 1))
             n == BitsOf(m[i])
             next == [k \in 1..n |-> Bit(fp, cursor + k)]
  <1>1. m \in Seq(Seq(Phrases)) /\ m[i] # <<>>
    OBVIOUS
  <1>2. m \in Seq(O) /\ i \in 1..Len(m) /\ i \in Nat
    BY <1>1
  <1> HIDE DEF m
  <1>3. m[i] \in O /\ SubSeq(m, 1, i - 1) \in Seq(O)
    <2> HIDE DEF O
    <2> QED
      BY <1>2
  <1>4. Len(m[i]) \in Nat /\ Len(m[i]) > 0
    BY <1>1, <1>3
  <1>5. n \in Nat /\ cursor \in Nat
    BY <1>3, <1>4, BitsNatural, CapacityIsNatural
  <1> HIDE DEF n, cursor
  <1>6. \A k \in 1..n : Bit(fp, cursor + k) \in {0, 1}
    <2> TAKE k \in 1..n
    <2>1. cursor + k \in Nat /\ cursor + k > 0
      BY <1>5
    <2> QED
      BY <2>1, BitIsBit
  <1>7. next \in Seq({0, 1})
    BY <1>5, <1>6
  <1>8. Number(next) \in Nat
    BY <1>7, NumberIsNatural
  <1>9. Picked(doc, fp, i) = 1 + (Number(next) % Len(m[i]))
    BY Zenon DEF Picked, m, cursor, n
  <1> HIDE DEF next
  <1> DEFINE v == Number(next)  l == Len(m[i])
  <1>10. v \in Nat /\ l \in Nat /\ l > 0
    BY <1>4, <1>8
  <1> HIDE DEF v, l
  <1>11. 1 + (v % l) \in 1..l
    BY <1>10
  <1> QED
    BY <1>9, <1>11 DEF v, l, m

(* A document whose text is rendered. *)
Page(doc, words) ==
    [meta |-> doc.meta, front |-> doc.front, style |-> doc.style, marks |-> <<>>,
     words |-> words, text |-> doc.text, license |-> doc.license]

(* A record of these fields, rendered. *)
LEMMA PageRendered ==
    ASSUME NEW doc, NEW words,
           doc = [meta |-> doc.meta, front |-> doc.front, style |-> doc.style, marks |-> doc.marks,
                  words |-> doc.words, text |-> doc.text, license |-> doc.license]
    PROVE  RenderedDoc(doc, words) = Page(doc, words)
  <1>1. PICK e : e = [doc EXCEPT !.marks = <<>>, !.words = words]
    OBVIOUS
  <1>2. e \in [meta : {doc.meta}, front : {doc.front}, style : {doc.style}, marks : {<<>>},
               words : {words}, text : {doc.text}, license : {doc.license}]
    BY <1>1
  <1>3. e = Page(doc, words)
    BY <1>2 DEF Page
  <1> QED
    BY <1>1, <1>3 DEF RenderedDoc

(* Rendering replaces the marks by words and changes nothing else. *)
LEMMA Rendering ==
    ASSUME NEW doc, IsDocument(doc), NEW words
    PROVE  /\ RenderedDoc(doc, words) = Page(doc, words)
           /\ \A v : RenderedDoc(RenderedDoc(doc, words), v) = Page(doc, v)
           /\ doc.marks = <<>> => RenderedDoc(doc, <<>>) = doc
  <1>1. doc = [meta |-> doc.meta, front |-> doc.front, style |-> doc.style, marks |-> doc.marks,
               words |-> doc.words, text |-> doc.text, license |-> doc.license]
    BY DEF IsDocument
  <1>2. RenderedDoc(doc, words) = Page(doc, words)
    BY <1>1, PageRendered
  <1>3. ASSUME NEW v PROVE RenderedDoc(RenderedDoc(doc, words), v) = Page(doc, v)
    <2> DEFINE e == Page(doc, words)
    <2>1. e = [meta |-> e.meta, front |-> e.front, style |-> e.style, marks |-> e.marks,
               words |-> e.words, text |-> e.text, license |-> e.license]
      BY DEF Page
    <2>2. Page(e, v) = Page(doc, v)
      BY DEF Page
    <2> HIDE DEF e
    <2>3. RenderedDoc(e, v) = Page(e, v)
      BY <2>1, PageRendered
    <2> QED
      BY <1>2, <2>2, <2>3 DEF e
  <1>4. ASSUME doc.marks = <<>> PROVE RenderedDoc(doc, <<>>) = doc
    <2>1. RenderedDoc(doc, <<>>) = Page(doc, <<>>)
      BY <1>1, PageRendered
    <2>2. doc = [meta |-> doc.meta, front |-> doc.front, style |-> doc.style, marks |-> doc.marks,
                 words |-> <<>>, text |-> doc.text, license |-> doc.license]
      BY DEF IsDocument
    <2>3. Page(doc, <<>>) = doc
      BY <1>4, <2>2 DEF Page
    <2> QED
      BY <2>1, <2>3
  <1> QED
    BY <1>2, <1>3, <1>4

(* What stripping leaves of an embedded fingerprint. *)
LEMMA Restored ==
    ASSUME NEW doc, NEW words, NEW fp
    PROVE  LET back == StripFingerprint(EmbedFingerprint(Page(doc, words), fp))
           IN  /\ back.words = words /\ back.text = doc.text
               /\ (doc.front \in {"metadata", "none"} /\ doc.style = "plain"
                       /\ doc.license = NoLicense)
                    => back = Page(doc, words)
  <1>1. PICK x : x = Page(doc, words)
    OBVIOUS
  <1>2. PICK e : e = EmbedFingerprint(x, fp)
    OBVIOUS
  <1>3. PICK b : b = StripFingerprint(e)
    OBVIOUS
  <1>4. x = [meta |-> doc.meta, front |-> doc.front, style |-> doc.style, marks |-> <<>>,
             words |-> words, text |-> doc.text, license |-> doc.license]
    BY <1>1 DEF Page
  <1>5. /\ DOMAIN e = DOMAIN x /\ e.words = x.words /\ e.text = x.text /\ e.meta = x.meta
        /\ e.marks = x.marks /\ e.style = x.style /\ e.license = fp
    BY <1>2, <1>4 DEF EmbedFingerprint
  <1>6. /\ DOMAIN b = DOMAIN x /\ b.words = x.words /\ b.text = x.text /\ b.meta = x.meta
        /\ b.marks = x.marks /\ b.style = "plain" /\ b.license = NoLicense
    BY <1>3, <1>4, <1>5 DEF StripFingerprint
  <1>7. ASSUME x.front = "none" PROVE b.front = "none"
    <2>1. e.front = "license-only"
      BY <1>2, <1>4, <1>7 DEF EmbedFingerprint
    <2> QED
      BY <1>3, <1>4, <1>5, <2>1 DEF StripFingerprint
  <1>8. ASSUME x.front = "metadata" PROVE b.front = "metadata"
    <2>1. e.front = "metadata"
      BY <1>2, <1>4, <1>8 DEF EmbedFingerprint
    <2> QED
      BY <1>3, <1>4, <1>5, <2>1 DEF StripFingerprint
  <1>9. ASSUME doc.front \in {"metadata", "none"}, doc.style = "plain", doc.license = NoLicense
        PROVE  b = x
    <2>1. b.front = x.front
      BY <1>4, <1>7, <1>8, <1>9
    <2>2. b = [i \in DOMAIN b |-> b[i]]
      BY <1>3 DEF StripFingerprint
    <2>3. b \in [meta : {doc.meta}, front : {doc.front}, style : {doc.style}, marks : {<<>>},
                 words : {words}, text : {doc.text}, license : {doc.license}]
      BY <1>4, <1>6, <1>9, <2>1, <2>2
    <2> QED
      BY <1>4, <2>3
  <1> QED
    BY <1>1, <1>2, <1>3, <1>4, <1>6, <1>9

(* The selections of a bundle, or the arities, one file after another. *)
LEMMA InOrderFacts ==
    ASSUME NEW f
    PROVE  InOrder(f) = (IF SKILL \in DOMAIN f THEN f[SKILL] ELSE <<>>)
                          \o (IF "notes.md" \in DOMAIN f THEN f["notes.md"] ELSE <<>>)
  <1>1. PICK a : a = IF SKILL \in DOMAIN f THEN f[SKILL] ELSE <<>>
    OBVIOUS
  <1>2. PICK b : b = IF "notes.md" \in DOMAIN f THEN f["notes.md"] ELSE <<>>
    OBVIOUS
  <1>3. [i \in DOMAIN MarkdownOrder |->
            IF MarkdownOrder[i] \in DOMAIN f THEN f[MarkdownOrder[i]] ELSE <<>>] = <<a, b>>
    BY <1>1, <1>2 DEF MarkdownOrder
  <1>4. InOrder(f) = FlattenSeq(<<a, b>>)
    BY <1>3 DEF InOrder
  <1>5. FlattenSeq(<<a, b>>) = a \o b
    <2> DEFINE s == <<a, b>>
               Flat(g) == g = [i \in 1..Len(s) |-> IF i = 1 THEN s[i] ELSE g[i - 1] \o s[i]]
               h == [i \in 1..2 |-> IF i = 1 THEN a ELSE a \o b]
    <2>1. Len(s) = 2 /\ s[1] = a /\ s[2] = b
      OBVIOUS
    <2> HIDE DEF s
    <2>2. \A i \in 1..Len(s) : h[i] = IF i = 1 THEN s[i] ELSE h[i - 1] \o s[i]
      BY <2>1
    <2>3. Flat(h)
      <3> DEFINE k == [i \in 1..Len(s) |-> IF i = 1 THEN s[i] ELSE h[i - 1] \o s[i]]
      <3>1. h = k
        BY <2>1, <2>2
      <3> QED
        BY <3>1
    <2> DEFINE g == CHOOSE g : Flat(g)
    <2>4. Flat(g)
      <3> HIDE DEF Flat, h
      <3> QED
        BY <2>3, Zenon
    <2>5. FlattenSeq(s) = g[Len(s)]
      BY <2>1 DEF FlattenSeq
    <2> HIDE DEF g
    <2>6. g[1] = s[1] /\ g[2] = g[1] \o s[2]
      <3>1. PICK k : k = [i \in 1..Len(s) |-> IF i = 1 THEN s[i] ELSE g[i - 1] \o s[i]]
        OBVIOUS
      <3>2. 1 \in 1..Len(s) /\ 2 \in 1..Len(s) /\ 2 # 1 /\ 2 - 1 = 1
        BY <2>1
      <3>3. g = k
        BY <2>4, <3>1
      <3>4. k[1] = s[1]
        BY <3>1, <3>2
      <3>5. k[2] = g[1] \o s[2]
        BY <3>1, <3>2
      <3> QED
        BY <3>3, <3>4, <3>5
    <2> QED
      BY <2>1, <2>5, <2>6 DEF s
  <1> QED
    BY <1>1, <1>2, <1>4, <1>5

-----------------------------------------------------------------------------
(* Hashes *)

(* Equal hashes are of equal files. *)
LEMMA HashesTell ==
    ASSUME NEW f, NEW g, Hashes(f) = Hashes(g)
    PROVE  DOMAIN f = DOMAIN g /\ \A p \in DOMAIN f : f[p] = g[p]
  <1>1. PICK a : a = [p \in DOMAIN f |-> Sha256(f[p])]
    OBVIOUS
  <1>2. PICK b : b = [p \in DOMAIN g |-> Sha256(g[p])]
    OBVIOUS
  <1>3. a = b
    BY <1>1, <1>2 DEF Hashes
  <1>4. DOMAIN f = DOMAIN g
    BY <1>1, <1>2, <1>3
  <1>5. ASSUME NEW p \in DOMAIN f PROVE f[p] = g[p]
    <2>1. Sha256(f[p]) = Sha256(g[p])
      BY <1>1, <1>2, <1>3, <1>4
    <2> QED
      BY <2>1 DEF Sha256
  <1> QED
    BY <1>4, <1>5

(* So are equal content hashes. *)
LEMMA ContentTells ==
    ASSUME NEW f, NEW g, SkillContentHash(f) = SkillContentHash(g)
    PROVE  DOMAIN f = DOMAIN g /\ \A p \in DOMAIN f : f[p] = g[p]
  <1>1. Hashes(f) = Hashes(g)
    BY DEF SkillContentHash, SkillDigestFromHashes, Sha256
  <1> QED
    BY <1>1, HashesTell

-----------------------------------------------------------------------------
(* Bundles *)

(* A selection has an option for every mark, and the copy shows it. *)
LEMMA SelectionFacts ==
    ASSUME NEW doc, IsDocument(doc), NEW fp \in Fingerprints
    PROVE  /\ doc.marks \in Seq(Seq(Phrases))
           /\ Selection(doc, fp) \in Seq(Nat) /\ Len(Selection(doc, fp)) = Len(doc.marks)
           /\ \A i \in DOMAIN doc.marks : Selection(doc, fp)[i] \in 1..Len(doc.marks[i])
           /\ DOMAIN Rendered(doc, fp) = DOMAIN doc.marks
           /\ \A i \in DOMAIN doc.marks : Rendered(doc, fp)[i] = doc.marks[i][Selection(doc, fp)[i]]
  <1>1. doc.marks \in Seq(Seq(Phrases)) /\ \A i \in DOMAIN doc.marks : doc.marks[i] # <<>>
    BY DEF IsDocument, IsSource
  <1>2. PICK m : m = doc.marks
    OBVIOUS
  <1>3. DOMAIN m = 1..Len(m) /\ Len(m) \in Nat
    BY <1>1, <1>2
  <1>4. \A i \in 1..Len(m) : Picked(doc, fp, i) \in 1..Len(m[i])
    BY <1>1, <1>2, <1>3, PickedInRange
  <1>5. \A i \in 1..Len(m) : Len(m[i]) \in Nat
    <2> DEFINE O == Seq(Phrases)
    <2>1. m \in Seq(O)
      BY <1>1, <1>2
    <2> HIDE DEF O
    <2>2. \A i \in 1..Len(m) : m[i] \in O
      BY <2>1
    <2> QED
      BY <2>2 DEF O
  <1>6. PICK s : s = [i \in 1..Len(m) |-> Picked(doc, fp, i)]
    OBVIOUS
  <1>7. Selection(doc, fp) = s
    BY <1>2, <1>3, <1>6, Zenon DEF Selection
  <1>8. \A i \in 1..Len(m) : s[i] \in 1..Len(m[i]) /\ s[i] \in Nat
    BY <1>4, <1>5, <1>6
  <1>9. s \in Seq(Nat) /\ Len(s) = Len(m)
    BY <1>3, <1>6, <1>8
  <1>10. PICK w : w = [i \in 1..Len(m) |-> m[i][s[i]]]
    OBVIOUS
  <1>11. Rendered(doc, fp) = w
    BY <1>2, <1>3, <1>7, <1>10, Zenon DEF Rendered
  <1> QED
    BY <1>1, <1>2, <1>3, <1>7, <1>8, <1>9, <1>10, <1>11

(* A draft's Markdown files are documents. *)
LEMMA DraftsFiles ==
    ASSUME NEW d \in Drafts
    PROVE  /\ SKILL \in DOMAIN d.files
           /\ \A p \in DOMAIN d.files : p \in Markdown => IsDocument(d.files[p])
  BY DraftsAssumption

(* What is in a copy, and what stripping leaves of it. *)
IsCopy(b, digest, files, fp) ==
    /\ b.digest = digest
    /\ DOMAIN b.delivered = DOMAIN files
    /\ b.files = Hashes(b.delivered)
    /\ DOMAIN b.varied = {q \in DOMAIN files \cap Markdown : files[q].marks # <<>>}
    /\ \A p \in DOMAIN b.varied : b.varied[p] = Selection(files[p], fp)
    /\ DOMAIN Stripped(b) = DOMAIN files
    /\ \A p \in DOMAIN files : p \notin Markdown => Stripped(b)[p] = files[p]
    /\ \A p \in DOMAIN files : p \in Markdown =>
          Stripped(b)[p] = StripFingerprint(EmbedFingerprint(Page(files[p], Rendered(files[p], fp)), fp))

LEMMA BundleFacts ==
    ASSUME NEW d \in Drafts, NEW fp \in Fingerprints, NEW digest,
           NEW b, b = BundleOf(digest, d.files, fp)
    PROVE  IsCopy(b, digest, d.files, fp)
  <1>1. PICK v : v = Varied(d.files, fp)
    OBVIOUS
  <1>2. PICK m : m = MasterFiles(d.files, fp)
    OBVIOUS
  <1>3. PICK out : out = [p \in DOMAIN m |-> IF p \in Markdown THEN EmbedFingerprint(m[p], fp) ELSE m[p]]
    OBVIOUS
  <1>4. b = [digest |-> digest, varied |-> v, delivered |-> out, files |-> Hashes(out)]
    BY <1>1, <1>2, <1>3, Zenon DEF BundleOf, BuildBuyerBundle
  <1>5. b.digest = digest /\ b.varied = v /\ b.delivered = out /\ b.files = Hashes(out)
    BY <1>4
  <1>6. DOMAIN m = DOMAIN d.files
    BY <1>2 DEF MasterFiles
  <1>7. \A p \in DOMAIN d.files : m[p] =
          IF p \in Markdown THEN RenderedDoc(d.files[p], Rendered(d.files[p], fp))
                                         ELSE d.files[p]
    BY <1>2 DEF MasterFiles
  <1>8. PICK s : s = [p \in DOMAIN out |-> IF p \in Markdown THEN StripFingerprint(out[p]) ELSE out[p]]
    OBVIOUS
  <1>9. Stripped(b) = s
    BY <1>5, <1>8, Zenon DEF Stripped
  <1>10. DOMAIN out = DOMAIN d.files /\ DOMAIN s = DOMAIN d.files
    BY <1>3, <1>6, <1>8
  <1>11. ASSUME NEW p \in DOMAIN d.files, p \notin Markdown PROVE s[p] = d.files[p]
    BY <1>3, <1>6, <1>7, <1>8, <1>10, <1>11
  <1>12. ASSUME NEW p \in DOMAIN d.files, p \in Markdown
         PROVE  s[p] = StripFingerprint(EmbedFingerprint(Page(d.files[p], Rendered(d.files[p], fp)), fp))
    <2>1. s[p] = StripFingerprint(EmbedFingerprint(m[p], fp))
      BY <1>3, <1>6, <1>8, <1>10, <1>12
    <2>2. m[p] = RenderedDoc(d.files[p], Rendered(d.files[p], fp))
      BY <1>7, <1>12
    <2>3. RenderedDoc(d.files[p], Rendered(d.files[p], fp)) =
            Page(d.files[p], Rendered(d.files[p], fp))
      BY <1>12, DraftsFiles, Rendering
    <2> QED
      BY <2>1, <2>2, <2>3
  <1>13. /\ DOMAIN v = {q \in DOMAIN d.files \cap Markdown : d.files[q].marks # <<>>}
         /\ \A p \in DOMAIN v : v[p] = Selection(d.files[p], fp)
    BY <1>1 DEF Varied
  <1> QED
    BY <1>5, <1>9, <1>10, <1>11, <1>12, <1>13 DEF IsCopy

(* What was exchanged on the way goes unnoticed only if it was the same. *)
LEMMA GarbledIsNoticed ==
    ASSUME NEW s, NEW e \in Drafts, NEW d \in Drafts, s.files = e.files, NEW order \in Orders,
           NEW b, GarbledOf(b, s, d.files, order), VerifyBundle(b)
    PROVE  b = BundleOf(s.capability.digest, e.files, FingerprintOf[order])
  <1>1. PICK x : x = BundleOf(s.capability.digest, e.files, FingerprintOf[order])
    OBVIOUS
  <1>2. PICK y : y = BundleOf(s.capability.digest, d.files, FingerprintOf[order])
    OBVIOUS
  <1>3. b = [x EXCEPT !.delivered = y.delivered]
    BY <1>1, <1>2, Zenon DEF GarbledOf
  <1>5. x.files = Hashes(x.delivered)
    BY <1>1 DEF BundleOf, BuildBuyerBundle
  <1>6. PICK v, m, n : /\ x = [digest |-> s.capability.digest, varied |-> v,
                               delivered |-> [p \in DOMAIN m |-> IF p \in Markdown
                                                 THEN EmbedFingerprint(m[p], FingerprintOf[order]) ELSE m[p]],
                               files |-> x.files]
                       /\ y.delivered = [p \in DOMAIN n |-> IF p \in Markdown
                                                 THEN EmbedFingerprint(n[p], FingerprintOf[order]) ELSE n[p]]
    BY <1>1, <1>2 DEF BundleOf, BuildBuyerBundle
  <1>7. DOMAIN x = {"digest", "varied", "delivered", "files"}
    BY <1>6
  <1>8. b.files = x.files /\ b.delivered = y.delivered
    BY <1>3, <1>7
  <1>9. Hashes(x.delivered) = Hashes(y.delivered)
    BY <1>5, <1>8 DEF VerifyBundle
  <1>10. DOMAIN x.delivered = DOMAIN y.delivered
          /\ \A p \in DOMAIN x.delivered : x.delivered[p] = y.delivered[p]
    BY <1>9, HashesTell
  <1>11. x.delivered = y.delivered
    BY <1>6, <1>10
  <1>12. b = x
    BY <1>3, <1>6, <1>11
  <1> QED
    BY <1>1, <1>12

-----------------------------------------------------------------------------
(* The gates *)

(* Findings from outside add to a scan and leave its engine alone. *)
LEMMA MergedFacts ==
    ASSUME NEW found, DOMAIN found = {"engine", "blocked", "criticals"}, found.blocked \in BOOLEAN,
           NEW external
    PROVE  /\ Merged(found, external).engine = found.engine
           /\ ~Merged(found, external).blocked => ~found.blocked
  <1>1. CASE ~external.answered
    BY <1>1 DEF Merged
  <1>2. CASE external.answered
    <2>1. PICK c : c = found.criticals + Cardinality({i \in DOMAIN external.severities :
                          i <= MaxExtFindings /\ external.severities[i] = "critical"})
      OBVIOUS
    <2>2. Merged(found, external) = [found EXCEPT !.criticals = c, !.blocked = @ \/ c > 0]
      BY <1>2, <2>1, Zenon DEF Merged
    <2>3. PICK m : m = [found EXCEPT !.criticals = c, !.blocked = @ \/ c > 0]
      OBVIOUS
    <2>4. m.engine = found.engine /\ m.blocked = (found.blocked \/ c > 0)
      BY <2>3
    <2> QED
      BY <2>2, <2>3, <2>4
  <1> QED
    BY <1>1, <1>2

(* A scorecard of this content whose tasks these are. *)
LEMMA CardOfContent ==
    ASSUME NEW card \in AllCards, NEW d \in Drafts, card.explicit,
           TASKS \in DOMAIN d.files, card.content = SkillContentHash(d.files)
    PROVE  card \in Cards(d.files, TRUE)
  <1>1. PICK e \in Drafts, explicit \in BOOLEAN : card \in Cards(e.files, explicit)
    <2>1. PICK e \in Drafts : card \in Cards(e.files, TRUE) \cup Cards(e.files, FALSE)
      BY DEF AllCards
    <2> QED
      BY <2>1
  <1>2. TASKS \in DOMAIN e.files
    BY <1>1 DEF Cards
  <1>3. PICK answers \in [e.files[TASKS] -> Transcripts] :
          card = RunEvals(e.files, answers, explicit)
    BY <1>1, <1>2 DEF Cards
  <1>4. card.explicit = explicit /\ card.content = SkillContentHash(e.files)
    BY <1>3 DEF RunEvals
  <1>5. explicit = TRUE
    BY <1>4
  <1>6. e.files[TASKS] = d.files[TASKS]
    <2>1. SkillContentHash(e.files) = SkillContentHash(d.files)
      BY <1>4
    <2>2. \A p \in DOMAIN e.files : e.files[p] = d.files[p]
      BY <2>1, ContentTells
    <2> QED
      BY <1>2, <2>2
  <1>7. RunEvals(e.files, answers, TRUE) = RunEvals(d.files, answers, TRUE)
    BY <1>4, <1>6 DEF RunEvals
  <1>8. answers \in [d.files[TASKS] -> Transcripts] /\ card = RunEvals(d.files, answers, TRUE)
    BY <1>3, <1>5, <1>6, <1>7
  <1> QED
    BY <1>8 DEF Cards

(* What passes the gates is as Published says. *)
LEMMA GatedIsPublished ==
    ASSUME NEW r, NEW d \in Drafts, r.files = d.files, r.card \in AllCards \cup {NoCard},
           Benchmarked(r), NEW found \in Scans(Neutral(r.files)), NEW external \in ExternalAnswers,
           ~Merged(found, external).blocked, NEW secret \in Nat
    PROVE  Published(Listing(r, Merged(found, external), secret))
  <1>1. PICK l : l = Listing(r, Merged(found, external), secret)
    OBVIOUS
  <1>2. /\ l.files = r.files /\ l.price = MetaOf(r.files).price /\ l.evals = r.card
        /\ l.openings = Openings(r.files, secret)
        /\ l.capability = BuildCapability(r.files, r.card, Merged(found, external), Openings(r.files, secret))
    BY <1>1 DEF Listing
  <1>3. ASSUME l.price > 0
        PROVE  /\ l.evals # NoCard /\ l.evals \in Cards(l.files, TRUE)
               /\ l.evals.passed = l.evals.total
    <2>1. /\ r.card # NoCard /\ r.card.passed = r.card.total /\ r.card.explicit
          /\ TASKS \in DOMAIN r.files /\ r.card.content = SkillContentHash(r.files)
      BY <1>2, <1>3 DEF Benchmarked
    <2>2. r.card \in Cards(r.files, TRUE)
      BY <2>1, CardOfContent
    <2> QED
      BY <1>2, <2>1, <2>2
  <1>4. Published(l)
    <2>1. \E e \in Drafts : l.files = e.files
      BY <1>2
    <2>2. l.price = MetaOf(l.files).price /\ \E n \in Nat : l.openings = Openings(l.files, n)
      BY <1>2
    <2>3. \E f \in Scans(Neutral(l.files)), x \in ExternalAnswers :
             /\ ~Merged(f, x).blocked
             /\ l.capability = BuildCapability(l.files, l.evals, Merged(f, x), l.openings)
      BY <1>2
    <2> QED
      BY <1>3, <2>1, <2>2, <2>3, Zenon DEF Published
  <1> QED
    BY <1>1, <1>4

-----------------------------------------------------------------------------
(* The invariant *)

(* Nothing is published or held at first. *)
LEMMA InitHolds == Init => ReleaseInv
  BY BoundsAssumption DEF Init, ReleaseInv

(* More publications leave what was fetched and installed as it was. *)
LEMMA StillFetching ==
    ASSUME NEW v, NEW all, NEW more, all \subseteq more, Fetching(v, all)
    PROVE  Fetching(v, more)
  BY DEF Fetching

LEMMA StillInstalled ==
    ASSUME NEW h, NEW all, NEW more, all \subseteq more, Installed(h, all)
    PROVE  Installed(h, more)
  BY DEF Installed

(* A publication is of a draft and passed the gates. *)
LEMMA PublicationKeepsInv ==
    ASSUME ReleaseInv, NEW r, NEW d \in Drafts, r.files = d.files,
           r.card \in AllCards \cup {NoCard}, PostSkill(r), UNCHANGED <<visit, held>>
    PROVE  ReleaseInv'
  <1>1. PICK found \in Scans(Neutral(r.files)), external \in ExternalAnswers :
            /\ ~Merged(found, external).blocked
            /\ skill' = Listing(r, Merged(found, external), drawn + 1)
    BY DEF PostSkill
  <1>2. published' = published \cup {skill'} /\ drawn' = drawn + 1 /\ drawn < MaxPublications
          /\ Benchmarked(r)
    BY DEF PostSkill, Passes
  <1>3. drawn \in 0..MaxPublications /\ MaxPublications \in Nat
    BY BoundsAssumption DEF ReleaseInv
  <1>4. drawn + 1 \in Nat /\ drawn' \in 0..MaxPublications
    BY <1>2, <1>3
  <1>5. Published(skill')
    BY <1>1, <1>2, <1>4, GatedIsPublished
  <1>6. \A s \in published' : Published(s)
    BY <1>2, <1>5 DEF ReleaseInv
  <1>7. \A p \in DOMAIN skill'.openings : skill'.openings[p].secret = drawn'
    <2>1. skill'.openings = Openings(r.files, drawn + 1)
      BY <1>1 DEF Listing
    <2>2. \A p \in DOMAIN Openings(r.files, drawn + 1) : Openings(r.files, drawn + 1)[p].secret
            = drawn + 1
      BY DEF Openings, Opening
    <2> QED
      BY <1>2, <2>1, <2>2
  <1>8. published \subseteq published' /\ visit' = visit /\ held' = held
    BY <1>2
  <1>9. visit' # NoVisit => Fetching(visit', published')
    BY <1>8, StillFetching DEF ReleaseInv
  <1>10. held' # NoCopy => Installed(held', published')
    BY <1>8, StillInstalled DEF ReleaseInv
  <1>11. skill' \in published'
    BY <1>2
  <1> QED
    BY <1>4, <1>6, <1>7, <1>9, <1>10, <1>11 DEF ReleaseInv

(* What a bundle is, under the listing of the moment it is made. *)
LEMMA ServedIsMade ==
    ASSUME NEW files
    PROVE  Served(files) = BundleOf(skill.capability.digest, files, FingerprintOf[visit.order])
  BY Zenon DEF Served, BundleFor, BundleOf

(* A bundle arrives made or garbled. *)
LEMMA ArrivalKeepsInv ==
    ASSUME ReleaseInv, NEW bundle, NEW mixed \in BOOLEAN, NEW d \in Drafts, Arrives(bundle, mixed),
           \/ /\ bundle = BundleOf(skill.capability.digest, d.files, FingerprintOf[visit.order])
              /\ ~mixed => d.files = skill.files
           \/ mixed /\ GarbledOf(bundle, skill, d.files, visit.order)
    PROVE  ReleaseInv'
  <1>1. /\ visit # NoVisit /\ visit' = [visit EXCEPT !.bundle = bundle, !.mixedUp = mixed]
        /\ UNCHANGED <<registry, held>>
    BY DEF Arrives
  <1>2. Fetching(visit, published) /\ skill \in published
    BY <1>1 DEF ReleaseInv
  <1>3. PICK v : v = [visit EXCEPT !.bundle = bundle, !.mixedUp = mixed]
    OBVIOUS
  <1>4. DOMAIN v = {"order", "capability", "bundle", "mixedUp"}
    BY <1>2, <1>3 DEF Fetching
  <1>5. v.bundle = bundle /\ v.mixedUp = mixed /\ v.order = visit.order
          /\ v.capability = visit.capability
    BY <1>2, <1>3 DEF Fetching
  <1>6. /\ v.order \in Orders
        /\ v.capability # Missing => \E r \in published : v.capability = r.capability
    BY <1>2, <1>5 DEF Fetching
  <1>7. \E s \in published, e \in Drafts :
           \/ MadeOf(v.bundle, s, e.files, v.order, v.mixedUp)
           \/ v.mixedUp = TRUE /\ GarbledOf(v.bundle, s, e.files, v.order)
    <2>1. CASE /\ bundle = BundleOf(skill.capability.digest, d.files, FingerprintOf[visit.order])
               /\ ~mixed => d.files = skill.files
      <3>1. MadeOf(v.bundle, skill, d.files, v.order, v.mixedUp)
        BY <1>5, <2>1 DEF MadeOf
      <3> QED
        BY <1>2, <3>1
    <2>2. CASE mixed /\ GarbledOf(bundle, skill, d.files, visit.order)
      <3>1. v.mixedUp = TRUE /\ GarbledOf(v.bundle, skill, d.files, v.order)
        BY <1>5, <2>2
      <3> QED
        BY <1>2, <3>1
    <2> QED
      BY <2>1, <2>2
  <1>8. Fetching(v, published)
    BY <1>4, <1>6, <1>7, Zenon DEF Fetching
  <1>9. visit' = v /\ skill' = skill /\ published' = published /\ drawn' = drawn /\ held' = held
    BY <1>1, <1>3 DEF registry
  <1> QED
    BY <1>2, <1>8, <1>9 DEF ReleaseInv

(* What passes the chain was not garbled. *)
LEMMA InstallKeepsInv == ReleaseInv /\ Install => ReleaseInv'
  <1> SUFFICES ASSUME ReleaseInv, Install PROVE ReleaseInv'
    OBVIOUS
  <1>1. /\ visit # NoVisit /\ visit.capability # Missing /\ visit.bundle # Missing /\ Accepted
        /\ held' = visit /\ visit' = NoVisit /\ skill' = skill /\ published' = published
                /\ drawn' = drawn
    BY DEF Install, Fetched, registry
  <1>2. Fetching(visit, published)
    BY <1>1 DEF ReleaseInv
  <1>3. /\ VerifyBundle(visit.bundle) /\ Continuous(visit.capability, visit.bundle)
        /\ Provenant(visit.capability, visit.bundle)
    BY <1>1 DEF Accepted, VerifyBundleChain
  <1>4. PICK s \in published, d \in Drafts :
            \/ MadeOf(visit.bundle, s, d.files, visit.order, visit.mixedUp)
            \/ visit.mixedUp = TRUE /\ GarbledOf(visit.bundle, s, d.files, visit.order)
    BY <1>1, <1>2 DEF Fetching
  <1>5. visit.order \in Orders /\ \E r \in published : visit.capability = r.capability
    BY <1>1, <1>2 DEF Fetching
  <1>6. \E t \in published, e \in Drafts :
          MadeOf(visit.bundle, t, e.files, visit.order, visit.mixedUp)
    <2>1. CASE MadeOf(visit.bundle, s, d.files, visit.order, visit.mixedUp)
      BY <2>1
    <2>2. CASE visit.mixedUp = TRUE /\ GarbledOf(visit.bundle, s, d.files, visit.order)
      <3>1. PICK e \in Drafts : s.files = e.files
        BY DEF ReleaseInv, Published
      <3>2. visit.bundle = BundleOf(s.capability.digest, e.files, FingerprintOf[visit.order])
        BY <1>3, <1>5, <2>2, <3>1, GarbledIsNoticed
      <3>3. MadeOf(visit.bundle, s, e.files, visit.order, visit.mixedUp)
        BY <2>2, <3>2 DEF MadeOf
      <3> QED
        BY <3>3
    <2> QED
      BY <1>4, <2>1, <2>2
  <1>7. Installed(visit, published)
    BY <1>3, <1>5, <1>6, Zenon DEF Installed
  <1> QED
    BY <1>1, <1>7 DEF ReleaseInv

(* The scorecards of the current CLI are among all. *)
LEMMA CardsOfDrafts ==
    ASSUME NEW d \in Drafts PROVE Cards(d.files, TRUE) \subseteq AllCards
  <1> SUFFICES ASSUME NEW card \in Cards(d.files, TRUE) PROVE card \in AllCards
    OBVIOUS
  <1> QED
    BY DEF AllCards

(* The invariant is inductive. *)
LEMMA StepHolds == ReleaseInv /\ [Next]_vars => ReleaseInv'
  <1> SUFFICES ASSUME ReleaseInv, [Next]_vars PROVE ReleaseInv'
    OBVIOUS
  <1>1. ASSUME NEW d \in Drafts, CliPublish(d) PROVE ReleaseInv'
    <2>1. UNCHANGED <<visit, held>>
      BY <1>1 DEF CliPublish
    <2>2. PICK card \in AllCards \cup {NoCard} : Post(Fields(d.files), d.files, card)
      <3>1. Cards(d.files, TRUE) \subseteq AllCards
        BY CardsOfDrafts
      <3> QED
        BY <1>1, <3>1 DEF CliPublish
    <2>3. PICK r : r = [fields |-> Fields(d.files), files |-> d.files, card |-> card]
      OBVIOUS
    <2>4. PostSkill(r) /\ r.files = d.files /\ r.card = card
      BY <2>2, <2>3 DEF Post
    <2> QED
      BY <2>1, <2>4, PublicationKeepsInv
  <1>2. ASSUME NEW d \in Drafts, NEW e \in Drafts, OtherClient(d, e) PROVE ReleaseInv'
    <2>1. PICK card \in AllCards \cup {NoCard} : Post(Fields(d.files), e.files, card)
      BY <1>2 DEF OtherClient
    <2>2. UNCHANGED <<visit, held>>
      BY <1>2 DEF OtherClient
    <2>3. PICK r : r = [fields |-> Fields(d.files), files |-> e.files, card |-> card]
      OBVIOUS
    <2>4. PostSkill(r) /\ r.files = e.files /\ r.card = card
      BY <2>1, <2>3 DEF Post
    <2> QED
      BY <2>2, <2>4, PublicationKeepsInv
  <1>3. ASSUME NEW o \in Orders, Begin(o) PROVE ReleaseInv'
    <2>1. PICK v : v = [order |-> o, capability |-> Missing, bundle |-> Missing, mixedUp |-> FALSE]
      OBVIOUS
    <2>2. Fetching(v, published)
      BY <2>1 DEF Fetching
    <2>3. skill # NoSkill /\ visit' = v /\ skill' = skill /\ published' = published
            /\ drawn' = drawn /\ held' = held
      BY <1>3, <2>1 DEF Begin, registry
    <2> QED
      BY <2>2, <2>3 DEF ReleaseInv
  <1>4. ASSUME FetchListing PROVE ReleaseInv'
    <2>1. /\ visit # NoVisit /\ visit' = [visit EXCEPT !.capability = skill.capability]
          /\ skill' = skill /\ published' = published /\ drawn' = drawn /\ held' = held
      BY <1>4 DEF FetchListing, registry
    <2>2. Fetching(visit, published) /\ skill \in published
      BY <2>1 DEF ReleaseInv
    <2>3. PICK v : v = [visit EXCEPT !.capability = skill.capability]
      OBVIOUS
    <2>4. /\ DOMAIN v = {"order", "capability", "bundle", "mixedUp"}
          /\ v.capability = skill.capability /\ v.bundle = visit.bundle /\ v.order = visit.order
          /\ v.mixedUp = visit.mixedUp
      BY <2>2, <2>3 DEF Fetching
    <2>5. Fetching(v, published)
      BY <2>2, <2>4 DEF Fetching
    <2> QED
      BY <2>1, <2>2, <2>3, <2>5 DEF ReleaseInv
  <1>5. ASSUME FetchBundle PROVE ReleaseInv'
    <2>1. visit # NoVisit /\ Arrives(Served(skill.files), FALSE)
      BY <1>5 DEF FetchBundle
    <2>2. skill \in published
      BY <2>1 DEF ReleaseInv
    <2>3. PICK d \in Drafts : skill.files = d.files
      BY <2>2 DEF ReleaseInv, Published
    <2>4. Served(skill.files) =
            BundleOf(skill.capability.digest, d.files, FingerprintOf[visit.order])
      BY <2>3, ServedIsMade
    <2> QED
      BY <2>1, <2>3, <2>4, ArrivalKeepsInv
  <1>6. ASSUME NEW d \in Drafts, FetchMixedUp(d) PROVE ReleaseInv'
    <2>1. Arrives(Served(d.files), TRUE)
      BY <1>6 DEF FetchMixedUp
    <2>2. Served(d.files) = BundleOf(skill.capability.digest, d.files, FingerprintOf[visit.order])
      BY ServedIsMade
    <2> QED
      BY <2>1, <2>2, ArrivalKeepsInv
  <1>7. ASSUME NEW d \in Drafts, FetchGarbled(d) PROVE ReleaseInv'
    <2>1. PICK b : b = [Served(skill.files) EXCEPT !.delivered = Served(d.files).delivered]
      OBVIOUS
    <2>2. Arrives(b, TRUE)
      BY <1>7, <2>1 DEF FetchGarbled
    <2>3. GarbledOf(b, skill, d.files, visit.order)
      BY <2>1, ServedIsMade, Zenon DEF GarbledOf
    <2> QED
      BY <2>2, <2>3, ArrivalKeepsInv
  <1>8. ASSUME GiveUp PROVE ReleaseInv'
    BY <1>8 DEF GiveUp, registry, ReleaseInv
  <1>9. ASSUME UNCHANGED vars PROVE ReleaseInv'
    BY <1>9 DEF vars, registry, ReleaseInv
  <1> QED
    BY <1>1, <1>2, <1>3, <1>4, <1>5, <1>6, <1>7, <1>8, <1>9, InstallKeepsInv DEF Next

(* The invariant holds. *)
LEMMA ReleaseInvHolds == Spec => []ReleaseInv
  <1>1. Init => ReleaseInv
    BY InitHolds
  <1>2. ReleaseInv /\ [Next]_vars => ReleaseInv'
    BY StepHolds
  <1> QED
    BY <1>1, <1>2, PTL DEF Spec

(* Type correctness: what is listed is a publication, its openings have the *)
(* secret drawn last, and what is held came under a published capability.   *)
THEOREM ReleaseTypeCorrect == Spec => []TypeOK
  <1>1. ReleaseInv => TypeOK
    <2> SUFFICES ASSUME ReleaseInv PROVE TypeOK
      OBVIOUS
    <2>1. visit # NoVisit => visit.order \in Orders
      BY DEF ReleaseInv, Fetching
    <2>2. held # NoCopy => held.order \in Orders
            /\ held.capability \in {r.capability : r \in published}
      BY DEF ReleaseInv, Installed
    <2>3. /\ skill # NoSkill => skill \in published
            /\ \A p \in DOMAIN skill.openings : skill.openings[p].secret = drawn
          /\ drawn \in 0..MaxPublications
      BY DEF ReleaseInv
    <2> QED
      BY <2>1, <2>2, <2>3 DEF TypeOK
  <1> QED
    BY <1>1, ReleaseInvHolds, PTL

-----------------------------------------------------------------------------
(* The audit of a varied file *)

(* What a file of a publication derives to at a selection. *)
LEMMA DerivedAt ==
    ASSUME NEW doc, IsDocument(doc), NEW secret, NEW selection, ParseSlots(doc) = doc.marks
    PROVE  Derived(Opening(doc, secret), selection) = RenderedAt(doc, selection)
  <1>1. PICK holes : holes = [i \in DOMAIN doc.marks |-> Hole]
    OBVIOUS
  <1>2. PICK o : o = Opening(doc, secret)
    OBVIOUS
  <1>3. o.template = RenderedDoc(doc, holes) /\ o.slots = doc.marks
    BY <1>1, <1>2 DEF Opening
  <1>4. o.template = Page(doc, holes) /\ o.template.words = holes
    BY <1>3, Rendering DEF Page
  <1>5. PICK w : w = [i \in DOMAIN o.template.words |->
                         IF i \in DOMAIN o.slots THEN o.slots[i][selection[i]] ELSE Hole]
    OBVIOUS
  <1>6. w = [i \in DOMAIN doc.marks |-> doc.marks[i][selection[i]]]
    BY <1>1, <1>3, <1>4, <1>5
  <1>7. Derived(o, selection) = RenderedDoc(o.template, w)
    BY <1>5, Zenon DEF Derived
  <1>8. RenderedDoc(o.template, w) = Page(doc, w)
    BY <1>3, Rendering
  <1>9. RenderedAt(doc, selection) = Page(doc, w)
    BY <1>6, Rendering DEF RenderedAt
  <1> QED
    BY <1>2, <1>7, <1>8, <1>9

(* What is known of a sequence. *)
LEMMA Lengths ==
    ASSUME NEW O, NEW s \in Seq(O)
    PROVE  /\ Len(s) \in Nat /\ DOMAIN s = 1..Len(s)
           /\ \A i \in 1..Len(s) : s[i] \in O
  OBVIOUS

(* Equal intervals end alike. *)
LEMMA SameLength ==
    ASSUME NEW a \in Nat, NEW b \in Nat, 1..a = 1..b PROVE a = b
  <1>1. a \in 1..a \/ a = 0
    OBVIOUS
  <1>2. b \in 1..b \/ b = 0
    OBVIOUS
  <1>3. 1 \in 1..a => a # 0
    OBVIOUS
  <1>4. a <= b
    BY <1>1
  <1>5. b <= a
    BY <1>2
  <1> QED
    BY <1>4, <1>5

(* A content that clears has as many words as the file has marks, so that   *)
(* an opening with as many slots has them all.                             *)
LEMMA ClearedHasAllSlots ==
    ASSUME NEW doc, IsDocument(doc), NEW secret, NEW selection, NEW content, NEW own,
           own \in Seq(Seq(Phrases)), DOMAIN content.words = DOMAIN own,
           Len(selection) = Len(own), Len(selection) = Len(ParseSlots(doc)),
           Derived(Opening(doc, secret), selection) = content
    PROVE  ParseSlots(doc) = doc.marks
  <1>1. doc.marks \in Seq(Seq(Phrases))
    BY DEF IsDocument, IsSource
  <1>2. PICK holes : holes = [i \in DOMAIN doc.marks |-> Hole]
    OBVIOUS
  <1>3. PICK o : o = Opening(doc, secret)
    OBVIOUS
  <1>4. o.template = RenderedDoc(doc, holes)
    BY <1>2, <1>3 DEF Opening
  <1>5. o.template.words = holes
    BY <1>4, Rendering DEF Page
  <1>6. PICK w : w = [i \in DOMAIN o.template.words |->
                         IF i \in DOMAIN o.slots THEN o.slots[i][selection[i]] ELSE Hole]
    OBVIOUS
  <1>7. Derived(o, selection) = RenderedDoc(o.template, w)
    BY <1>6, Zenon DEF Derived
  <1>8. RenderedDoc(o.template, w) = Page(doc, w)
    BY <1>4, Rendering
  <1>9. content.words = w
    BY <1>3, <1>7, <1>8 DEF Page
  <1>10. DOMAIN w = DOMAIN doc.marks
    BY <1>2, <1>5, <1>6
  <1>11. DOMAIN doc.marks = DOMAIN own
    BY <1>9, <1>10
  <1>12. Len(doc.marks) = Len(own)
    <2>6. Len(doc.marks) \in Nat /\ DOMAIN doc.marks = 1..Len(doc.marks)
      BY <1>1, Zenon, Lengths
    <2>7. Len(own) \in Nat /\ DOMAIN own = 1..Len(own)
      BY Zenon, Lengths
    <2>2. PICK a \in Nat : a = Len(doc.marks) /\ DOMAIN doc.marks = 1..a
      BY <2>6
    <2>3. PICK b \in Nat : b = Len(own) /\ DOMAIN own = 1..b
      BY <2>7
    <2>4. 1..a = 1..b
      BY <1>11, <2>2, <2>3
    <2>5. a = b
      BY <2>2, <2>3, <2>4, SameLength
    <2> QED
      BY <2>2, <2>3, <2>5
  <1> QED
    BY <1>1, <1>12, SlotsFacts

(* The files and prices of a publication, as its capability has them. *)
LEMMA PublishedFacts ==
    ASSUME NEW r, Published(r)
    PROVE  /\ r.capability.digest = SkillContentHash(r.files)
           /\ r.capability.files = Hashes(r.files)
           /\ r.capability.priceCents = r.price
           /\ r.price > 0 => /\ r.evals \in Cards(r.files, TRUE)
                             /\ r.evals.passed = Cardinality(r.files[TASKS])
                             /\ r.capability.evals.passed = r.capability.evals.total
           /\ r.capability.derivation = Derivation(r.openings)
           /\ \E found \in Scans(Neutral(r.files)), external \in ExternalAnswers :
                 ~Merged(found, external).blocked /\ r.capability.scan = Merged(found, external)
  <1>1. PICK found \in Scans(Neutral(r.files)), external \in ExternalAnswers :
            /\ ~Merged(found, external).blocked
            /\ r.capability = BuildCapability(r.files, r.evals, Merged(found, external), r.openings)
    BY Zenon DEF Published
  <1>2. /\ r.capability.digest = SkillContentHash(r.files) /\ r.capability.files = Hashes(r.files)
        /\ r.capability.priceCents = MetaOf(r.files).price
        /\ r.capability.derivation = Derivation(r.openings)
        /\ r.capability.scan = Merged(found, external)
        /\ r.capability.evals = IF r.evals = NoCard THEN NoCard
                                   ELSE [passed |-> r.evals.passed, total |-> r.evals.total]
    BY <1>1 DEF BuildCapability
  <1>3. r.price = MetaOf(r.files).price
    BY DEF Published
  <1>4. ASSUME r.price > 0
        PROVE  /\ r.evals \in Cards(r.files, TRUE)
               /\ r.evals.passed = Cardinality(r.files[TASKS])
               /\ r.capability.evals.passed = r.capability.evals.total
    <2>1. r.evals # NoCard /\ r.evals \in Cards(r.files, TRUE) /\ r.evals.passed = r.evals.total
      BY <1>4 DEF Published
    <2>2. PICK answers : r.evals = RunEvals(r.files, answers, TRUE)
      BY <2>1 DEF Cards
    <2>3. r.evals.total = Cardinality(r.files[TASKS])
      BY <2>2 DEF RunEvals
    <2>4. r.capability.evals = [passed |-> r.evals.passed, total |-> r.evals.total]
      BY <1>2, <2>1
    <2>5. r.capability.evals.passed = r.evals.passed /\ r.capability.evals.total = r.evals.total
      BY <2>4
    <2> QED
      BY <2>1, <2>3, <2>5
  <1> QED
    BY <1>1, <1>2, <1>3, <1>4

(* What a buyer installed is what its capability says, around any number of *)
(* publications and whatever a registry mixed up: unvaried files are those  *)
(* of the publication, a varied one that clears the audit is its rendering  *)
(* at the selection recorded, and paid content has passed its own tasks.    *)
THEOREM SoldAsAdvertised == Spec => []AsAdvertised
  <1>1. ReleaseInv => AsAdvertised
    <2> SUFFICES ASSUME ReleaseInv, held # NoCopy PROVE AsAdvertised
      BY DEF AsAdvertised
    <2>1. Installed(held, published)
      BY DEF ReleaseInv
    <2>2. PICK r \in published : held.capability = r.capability
      BY <2>1 DEF Installed
    <2>3. Published(r)
      BY DEF ReleaseInv
    <2>4. PICK s \in published, d \in Drafts :
            MadeOf(held.bundle, s, d.files, held.order, held.mixedUp)
      BY <2>1 DEF Installed
    <2>5. PICK fp : fp = FingerprintOf[held.order]
      OBVIOUS
    <2>6. fp \in Fingerprints
      BY <2>1, <2>5, FingerprintOfAssumption DEF Installed
    <2>7. PICK digest, bundle : digest = s.capability.digest /\ bundle = held.bundle
      OBVIOUS
    <2>14. bundle = BundleOf(digest, d.files, fp)
      BY <2>4, <2>5, <2>7 DEF MadeOf
    <2>15. IsCopy(bundle, digest, d.files, fp)
      BY <2>4, <2>6, <2>14, BundleFacts
    <2>8. PICK e \in Drafts : r.files = e.files
      BY <2>3 DEF Published
    <2>9. PICK secret : r.openings = Openings(r.files, secret)
      BY <2>3 DEF Published
    <2>10. ASSUME NEW p \in DOMAIN held.bundle.delivered, p \in DOMAIN held.bundle.varied, Clears(r, p)
           PROVE  Stripped(held.bundle)[p] = RenderedAt(r.files[p], held.bundle.varied[p])
      <3>1. PICK doc : doc = r.files[p]
        OBVIOUS
      <3>2. p \in Slotted(r.files) /\ r.openings[p] = Opening(doc, secret)
        BY <2>9, <2>10, <3>1 DEF Clears, Openings
      <3>3. p \in DOMAIN r.files /\ p \in Markdown
        BY <3>2 DEF Slotted
      <3>4. IsDocument(doc)
        BY <2>8, <3>1, <3>3, DraftsFiles
      <3>5. PICK own : own = d.files[p]
        OBVIOUS
      <3>6. p \in DOMAIN d.files
        <4>1. p \in DOMAIN bundle.varied
          BY <2>7, <2>10
        <4> QED
          BY <2>15, <4>1 DEF IsCopy
      <3>7. IsDocument(own)
        BY <3>3, <3>5, <3>6, DraftsFiles
      <3>8. PICK selection : selection = held.bundle.varied[p]
        OBVIOUS
      <3>9. PICK content : content = Stripped(held.bundle)[p]
        OBVIOUS
      <3>10. selection = Selection(own, fp)
        <4>1. p \in DOMAIN bundle.varied /\ selection = bundle.varied[p]
          BY <2>7, <2>10, <3>8
        <4> QED
          BY <2>15, <3>5, <4>1 DEF IsCopy
      <3>11. content = StripFingerprint(EmbedFingerprint(Page(own, Rendered(own, fp)), fp))
        <4>1. content = Stripped(bundle)[p]
          BY <2>7, <3>9
        <4> QED
          BY <2>15, <3>3, <3>5, <3>6, <4>1 DEF IsCopy
      <3>12. content.words = Rendered(own, fp)
        BY <3>11, Restored
      <3>13. own.marks \in Seq(Seq(Phrases)) /\ Len(selection) = Len(own.marks)
              /\ DOMAIN content.words = DOMAIN own.marks
        BY <2>6, <3>7, <3>10, <3>12, SelectionFacts
      <3>14. VerifyDerivationOpening(Opening(doc, secret), Commitment(Opening(doc, secret)), selection, content)
        BY <2>10, <3>2, <3>8, <3>9 DEF Clears
      <3>15. Opening(doc, secret).slots = ParseSlots(doc)
        BY DEF Opening
      <3>16. Len(selection) = Len(ParseSlots(doc))
              /\ Derived(Opening(doc, secret), selection) = content
        BY <3>14, <3>15 DEF VerifyDerivationOpening
      <3>17. ParseSlots(doc) = doc.marks
        BY <3>4, <3>13, <3>16, ClearedHasAllSlots
      <3> QED
        BY <3>1, <3>4, <3>8, <3>9, <3>16, <3>17, DerivedAt
    <2>11. ASSUME NEW p \in DOMAIN held.bundle.delivered, p \notin DOMAIN held.bundle.varied
           PROVE  p \in DOMAIN r.files /\ Stripped(held.bundle)[p] = r.files[p]
      <3>1. Provenant(r.capability, held.bundle)
        BY <2>1, <2>2 DEF Installed
      <3>2. p \in DOMAIN Hashes(r.files) /\ Hashes(r.files)[p] = Sha256(Stripped(held.bundle)[p])
        BY <2>3, <2>11, <3>1, PublishedFacts DEF Provenant
      <3> QED
        BY <3>2 DEF Hashes, Sha256
    <2>12. r.capability = held.capability /\ r.price = held.capability.priceCents
      BY <2>2, <2>3, PublishedFacts
    <2>13. r.price > 0 => /\ r.evals \in Cards(r.files, TRUE)
                          /\ r.evals.passed = Cardinality(r.files[TASKS])
                          /\ held.capability.evals.passed = held.capability.evals.total
      BY <2>2, <2>3, PublishedFacts
    <2> QED
      BY <2>10, <2>11, <2>12, <2>13 DEF AsAdvertised
  <1> QED
    BY <1>1, ReleaseInvHolds, PTL

(* A registry that mixed nothing up is cleared by the opening of the        *)
(* publication under whose capability the copy is held, and the copy has    *)
(* the selection of the order's fingerprint.                                *)
THEOREM HonestSellerCleared == Spec => []HonestIsCleared
  <1>1. ReleaseInv => HonestIsCleared
    <2> SUFFICES ASSUME ReleaseInv, held # NoCopy, ~held.mixedUp PROVE HonestIsCleared
      BY DEF HonestIsCleared
    <2>1. Installed(held, published)
      BY DEF ReleaseInv
    <2>2. PICK r \in published : held.capability = r.capability
      BY <2>1 DEF Installed
    <2>3. Published(r)
      BY DEF ReleaseInv
    <2>4. PICK s \in published, d \in Drafts :
            MadeOf(held.bundle, s, d.files, held.order, held.mixedUp)
      BY <2>1 DEF Installed
    <2>5. PICK fp : fp = FingerprintOf[held.order]
      OBVIOUS
    <2>6. fp \in Fingerprints
      BY <2>1, <2>5, FingerprintOfAssumption DEF Installed
    <2>7. PICK digest, bundle : digest = s.capability.digest /\ bundle = held.bundle
      OBVIOUS
    <2>8. bundle = BundleOf(digest, d.files, fp) /\ d.files = s.files
      BY <2>4, <2>5, <2>7 DEF MadeOf
    <2>9. IsCopy(bundle, digest, d.files, fp)
      BY <2>4, <2>6, <2>8, BundleFacts
    <2>10. digest = r.capability.digest
      BY <2>1, <2>2, <2>7, <2>9 DEF Installed, Continuous, IsCopy
    <2>11. SkillContentHash(s.files) = SkillContentHash(r.files)
      <3>1. Published(s)
        BY DEF ReleaseInv
      <3>2. s.capability.digest = SkillContentHash(s.files)
        BY <3>1, PublishedFacts, Zenon
      <3>3. r.capability.digest = SkillContentHash(r.files)
        BY <2>3, PublishedFacts, Zenon
      <3> QED
        BY <2>7, <2>10, <3>2, <3>3
    <2>12. DOMAIN d.files = DOMAIN r.files /\ \A p \in DOMAIN d.files : d.files[p] = r.files[p]
      BY <2>8, <2>11, ContentTells
    <2>13. PICK secret : r.openings = Openings(r.files, secret)
      BY <2>3 DEF Published
    <2>14. ASSUME Servable(r.files), NEW p \in DOMAIN held.bundle.varied
           PROVE  /\ Clears(r, p)
                  /\ held.bundle.varied[p] = Selection(r.files[p], fp)
      <3>1. PICK doc, selection, content :
                doc = d.files[p] /\ selection = held.bundle.varied[p]
                        /\ content = Stripped(held.bundle)[p]
        OBVIOUS
      <3>2. p \in DOMAIN bundle.varied /\ selection = bundle.varied[p]
              /\ content = Stripped(bundle)[p]
        BY <2>7, <2>14, <3>1
      <3>3. p \in DOMAIN d.files /\ p \in Markdown /\ doc.marks # <<>>
        BY <2>9, <3>1, <3>2 DEF IsCopy
      <3>4. IsDocument(doc) /\ doc = r.files[p]
        BY <2>4, <2>12, <3>1, <3>3, DraftsFiles
      <3>5. selection = Selection(doc, fp)
        BY <2>9, <3>1, <3>2 DEF IsCopy
      <3>6. content = StripFingerprint(EmbedFingerprint(Page(doc, Rendered(doc, fp)), fp))
        BY <2>9, <3>1, <3>2, <3>3 DEF IsCopy
      <3>7. /\ doc.front \in {"metadata", "none"} /\ doc.style = "plain" /\ doc.license = NoLicense
            /\ ParseSlots(doc) = doc.marks
        BY <2>12, <2>14, <3>3, <3>4 DEF Servable
      <3>8. content = Page(doc, Rendered(doc, fp))
        BY <3>6, <3>7, Restored
      <3>9. p \in DOMAIN r.openings /\ r.openings[p] = Opening(doc, secret)
        <4>1. p \in Slotted(r.files)
          BY <2>12, <3>3, <3>4, <3>7 DEF Slotted
        <4> QED
          BY <2>13, <3>4, <4>1 DEF Openings
      <3>10. /\ Len(selection) = Len(doc.marks)
             /\ selection \in Seq(Nat) /\ doc.marks \in Seq(Seq(Phrases))
             /\ \A i \in DOMAIN doc.marks : selection[i] \in 1..Len(doc.marks[i])
             /\ DOMAIN Rendered(doc, fp) = DOMAIN doc.marks
             /\ \A i \in DOMAIN doc.marks : Rendered(doc, fp)[i] = doc.marks[i][selection[i]]
        BY <2>6, <3>4, <3>5, SelectionFacts, SMTT(30)
      <3>11. DOMAIN selection = DOMAIN doc.marks
              /\ \A i \in DOMAIN selection : selection[i] \in DOMAIN doc.marks[i]
        <4>1. DOMAIN doc.marks = 1..Len(doc.marks)
                /\ \A i \in 1..Len(doc.marks) : doc.marks[i] \in Seq(Phrases)
          BY <3>10, Zenon, Lengths
        <4>2. DOMAIN selection = 1..Len(selection)
          BY <3>10, Zenon, Lengths
        <4>3. \A i \in 1..Len(doc.marks) : DOMAIN doc.marks[i] = 1..Len(doc.marks[i])
          BY <4>1, Zenon, Lengths
        <4> QED
          BY <3>10, <4>1, <4>2, <4>3, Zenon
      <3>12. Derived(Opening(doc, secret), selection) = content
        <4>1. RenderedAt(doc, selection) = RenderedDoc(doc, Rendered(doc, fp))
          BY <3>5, Zenon DEF RenderedAt, Rendered
        <4> QED
          BY <3>4, <3>7, <3>8, <4>1, DerivedAt, Rendering
      <3>13. Opening(doc, secret).slots = doc.marks
        BY <3>7 DEF Opening
      <3>14. VerifyDerivationOpening(Opening(doc, secret), Commitment(Opening(doc, secret)), selection, content)
        BY <3>10, <3>11, <3>12, <3>13 DEF VerifyDerivationOpening
      <3>15. Clears(r, p)
        BY <3>1, <3>9, <3>14 DEF Clears
      <3> QED
        BY <3>1, <3>4, <3>5, <3>15
    <2> QED
      BY <2>2, <2>5, <2>14 DEF HonestIsCleared
  <1> QED
    BY <1>1, ReleaseInvHolds, PTL

-----------------------------------------------------------------------------
(* What is listed installs *)

(* Two selections within their arities, joined. *)
LEMMA JoinedWithin ==
    ASSUME NEW a \in Seq(Nat), NEW b \in Seq(Nat), NEW c \in Seq(Nat), NEW d \in Seq(Nat),
           Len(a) = Len(c), Len(b) = Len(d),
           \A i \in 1..Len(a) : a[i] \in 1..c[i], \A i \in 1..Len(b) : b[i] \in 1..d[i]
    PROVE  /\ Len(a \o b) = Len(c \o d)
           /\ \A i \in DOMAIN (a \o b) : (a \o b)[i] \in 1..(c \o d)[i]
  <1>1. Len(a \o b) = Len(c \o d) /\ DOMAIN (a \o b) = 1..(Len(a) + Len(b))
    <2>1. a \o b \in Seq(Nat) /\ Len(a \o b) = Len(a) + Len(b)
      BY ConcatProperties, Zenon
    <2>2. Len(c \o d) = Len(c) + Len(d)
      OBVIOUS
    <2>3. DOMAIN (a \o b) = 1..Len(a \o b)
      BY <2>1, Zenon, Lengths
    <2> QED
      BY <2>1, <2>2, <2>3
  <1>2. ASSUME NEW i \in 1..(Len(a) + Len(b)) PROVE (a \o b)[i] \in 1..(c \o d)[i]
    <2>1. CASE i <= Len(a)
      <3>1. (a \o b)[i] = a[i] /\ (c \o d)[i] = c[i] /\ i \in 1..Len(a)
        BY <2>1
      <3> QED
        BY <3>1
    <2>2. CASE i > Len(a)
      <3>1. (a \o b)[i] = b[i - Len(a)] /\ (c \o d)[i] = d[i - Len(a)] /\ i - Len(a) \in 1..Len(b)
        BY <2>2
      <3> QED
        BY <3>1
    <2> QED
      BY <2>1, <2>2
  <1> QED
    BY <1>1, <1>2

(* Copies of a servable package show nothing to block on that its neutral  *)
(* form does not.                                                          *)
LEMMA NoNewHits ==
    ASSUME NEW d \in Drafts, Servable(d.files), NEW fp \in Fingerprints, NEW digest, NEW b,
           IsCopy(b, digest, d.files, fp), NEW phrases, phrases \subseteq Critical \cup Distrusted,
           Hits(Neutral(d.files), phrases) = {}
    PROVE  Hits(Stripped(b), phrases) = {}
  <1>1. PICK f : f = Stripped(b)
    OBVIOUS
  <1>2. PICK n : n = Neutral(d.files)
    OBVIOUS
  <1>3. DOMAIN f = DOMAIN d.files /\ DOMAIN n = DOMAIN d.files
    BY <1>1, <1>2 DEF IsCopy, Neutral
  <1>4. SUFFICES ASSUME NEW p \in DOMAIN f, NEW q \in phrases, Shows(PhrasesIn(f[p], p), q)
                 PROVE  Shows(PhrasesIn(n[p], p), q)
    BY <1>1, <1>2, <1>3 DEF Hits
  <1>5. CASE p \notin Markdown
    <2>1. f[p] = d.files[p] /\ n[p] = d.files[p]
      BY <1>1, <1>2, <1>3, <1>5 DEF IsCopy, Neutral
    <2> QED
      BY <1>4, <2>1
  <1>6. CASE p \in Markdown
    <2>1. PICK doc : doc = d.files[p]
      OBVIOUS
    <2>2. IsDocument(doc)
      BY <1>3, <1>6, <2>1, DraftsFiles
    <2>3. f[p] = StripFingerprint(EmbedFingerprint(Page(doc, Rendered(doc, fp)), fp))
      BY <1>1, <1>3, <1>6, <2>1 DEF IsCopy
    <2>4. f[p].words = Rendered(doc, fp) /\ f[p].text = doc.text
      BY <2>3, Restored
    <2>5. n[p] = NeutralCopy(doc)
      BY <1>2, <1>3, <1>6, <2>1 DEF Neutral
    <2>6. n[p].text = doc.text
      BY <2>2, <2>5, Rendering DEF NeutralCopy, Page
    <2>7. PICK w \in doc.text \cup ToSet(Rendered(doc, fp)) : w = q \/ <<q, w>> \in Within
      BY <1>4, <1>6, <2>4 DEF Shows, PhrasesIn
    <2>8. w \in doc.text
      <3> SUFFICES ASSUME w \in ToSet(Rendered(doc, fp)) PROVE FALSE
        BY <2>7
      <3>1. PICK i \in DOMAIN Rendered(doc, fp) : w = Rendered(doc, fp)[i]
        BY DEF ToSet
      <3>2. /\ i \in DOMAIN doc.marks /\ w = doc.marks[i][Selection(doc, fp)[i]]
            /\ Selection(doc, fp)[i] \in 1..Len(doc.marks[i]) /\ doc.marks \in Seq(Seq(Phrases))
        BY <2>2, <3>1, SelectionFacts
      <3>3. DOMAIN doc.marks = 1..Len(doc.marks)
              /\ \A j \in 1..Len(doc.marks) : doc.marks[j] \in Seq(Phrases)
        BY <3>2, Zenon, Lengths
      <3>4. DOMAIN doc.marks[i] = 1..Len(doc.marks[i])
        BY <3>2, <3>3, Zenon, Lengths
      <3>5. w \in ToSet(doc.marks[i])
        BY <3>2, <3>4, Zenon DEF ToSet
      <3>6. Shows(ToSet(doc.marks[i]), q)
        BY <2>7, <3>5 DEF Shows
      <3> QED
        BY <1>3, <1>6, <2>1, <3>2, <3>6 DEF Servable
    <2> QED
      BY <1>6, <2>6, <2>7, <2>8 DEF Shows, PhrasesIn
  <1> QED
    BY <1>5, <1>6

(* An engine that let the listing pass lets a servable copy pass. *)
LEMMA CopyPassesScan ==
    ASSUME NEW d \in Drafts, Servable(d.files), NEW fp \in Fingerprints, NEW digest, NEW b,
           IsCopy(b, digest, d.files, fp), NEW found \in Scans(Neutral(d.files)), ~found.blocked,
           NEW scan \in Scans(Stripped(b)), scan.engine = found.engine
    PROVE  ~scan.blocked
  <1>1. CASE found = ScanSkill(Neutral(d.files))
    <2>1. Hits(Neutral(d.files), Critical) = {} /\ found.engine = "builtin"
      BY <1>1 DEF ScanSkill
    <2>2. Hits(Stripped(b), Critical) = {}
      BY <2>1, NoNewHits
    <2>3. scan = ScanSkill(Stripped(b))
      BY <2>1 DEF Scans, ScanSkill, NormalizeSpectorReport
    <2> QED
      BY <2>2, <2>3 DEF ScanSkill
  <1>2. CASE found = NormalizeSpectorReport(Neutral(d.files))
    <2>1. Hits(Neutral(d.files), Distrusted) = {} /\ found.engine = "skillspector"
      BY <1>2 DEF NormalizeSpectorReport
    <2>2. Hits(Stripped(b), Distrusted) = {}
      BY <2>1, NoNewHits
    <2>3. scan = NormalizeSpectorReport(Stripped(b))
      BY <2>1 DEF Scans, ScanSkill, NormalizeSpectorReport
    <2> QED
      BY <2>2, <2>3 DEF NormalizeSpectorReport
  <1> QED
    BY <1>1, <1>2 DEF Scans

(* What is not varied comes back as it was published. *)
LEMMA CopyIsProvenant ==
    ASSUME NEW d \in Drafts, Servable(d.files), NEW fp \in Fingerprints, NEW digest, NEW b,
           IsCopy(b, digest, d.files, fp), NEW capability, capability.files = Hashes(d.files)
    PROVE  Provenant(capability, b)
  <1> SUFFICES ASSUME NEW p \in DOMAIN b.delivered, p \notin DOMAIN b.varied
               PROVE  p \in DOMAIN d.files /\ Stripped(b)[p] = d.files[p]
    BY DEF Provenant, Hashes
  <1>1. p \in DOMAIN d.files
    BY DEF IsCopy
  <1>2. CASE p \notin Markdown
    BY <1>1, <1>2 DEF IsCopy
  <1>3. CASE p \in Markdown
    <2>1. PICK doc : doc = d.files[p]
      OBVIOUS
    <2>2. IsDocument(doc)
      BY <1>1, <1>3, <2>1, DraftsFiles
    <2>3. doc.marks = <<>>
      BY <1>1, <1>3, <2>1 DEF IsCopy
    <2>4. Rendered(doc, fp) = <<>>
      BY <2>3 DEF Rendered
    <2>5. Page(doc, <<>>) = doc
      BY <2>2, <2>3, Rendering
    <2>6. Stripped(b)[p] = StripFingerprint(EmbedFingerprint(Page(doc, Rendered(doc, fp)), fp))
      BY <1>1, <1>3, <2>1 DEF IsCopy
    <2>7. doc.front \in {"metadata", "none"} /\ doc.style = "plain" /\ doc.license = NoLicense
      BY <1>1, <1>3, <2>1 DEF Servable
    <2> QED
      BY <1>1, <2>1, <2>4, <2>5, <2>6, <2>7, Restored
  <1> QED
    BY <1>2, <1>3

(* The arities of a servable file are the numbers of its marks' options.    *)
LEMMA ArityFacts ==
    ASSUME NEW doc, IsDocument(doc), NEW secret, ParseSlots(doc) = doc.marks
    PROVE  LET arity == Arity(Opening(doc, secret).slots)
           IN  /\ arity \in Seq(Nat) /\ Len(arity) = Len(doc.marks)
               /\ \A i \in DOMAIN doc.marks : arity[i] = Len(doc.marks[i])
  <1>1. Opening(doc, secret).slots = doc.marks
    BY DEF Opening
  <1>2. doc.marks \in Seq(Seq(Phrases))
    BY DEF IsDocument, IsSource
  <1>3. PICK m : m = doc.marks
    OBVIOUS
  <1>4. /\ Len(m) \in Nat /\ DOMAIN m = 1..Len(m)
        /\ \A i \in 1..Len(m) : m[i] \in Seq(Phrases)
    BY <1>2, <1>3, Zenon, Lengths
  <1>5. \A i \in 1..Len(m) : Len(m[i]) \in Nat
    BY <1>4, Zenon, Lengths
  <1>6. PICK a : a = [i \in 1..Len(m) |-> Len(m[i])]
    OBVIOUS
  <1>7. Arity(m) = a
    BY <1>4, <1>6, Zenon DEF Arity
  <1>8. a \in Seq(Nat) /\ Len(a) = Len(m) /\ \A i \in 1..Len(m) : a[i] = Len(m[i])
    BY <1>4, <1>5, <1>6
  <1> QED
    BY <1>1, <1>3, <1>4, <1>7, <1>8

(* A copy's selections are within the arities of the listing. *)
LEMMA CopyWithinSlots ==
    ASSUME NEW d \in Drafts, Servable(d.files), NEW fp \in Fingerprints, NEW digest, NEW b,
           IsCopy(b, digest, d.files, fp), NEW secret, NEW capability,
           capability.derivation = Derivation(Openings(d.files, secret))
    PROVE  WithinSlots(capability, b)
  <1> SUFFICES ASSUME DOMAIN b.varied # {} PROVE WithinSlots(capability, b)
    BY DEF WithinSlots
  <1>1. PICK openings, v : openings = Openings(d.files, secret) /\ v = b.varied
    OBVIOUS
  <1>2. DOMAIN openings = Slotted(d.files)
          /\ \A p \in DOMAIN openings : openings[p] = Opening(d.files[p], secret)
    BY <1>1 DEF Openings
  <1>3. \A p \in DOMAIN d.files \cap Markdown : ParseSlots(d.files[p]) = d.files[p].marks
    BY DEF Servable
  <1>4. Slotted(d.files) = DOMAIN v
    BY <1>1, <1>3 DEF Slotted, IsCopy
  <1>5. PICK arities : arities = [p \in DOMAIN openings |-> Arity(openings[p].slots)]
    OBVIOUS
  <1>6. capability.derivation =
          [commit |-> Sha256([p \in DOMAIN openings |-> Commitment(openings[p])]),
                                 arity |-> InOrder(arities)]
    BY <1>1, <1>2, <1>4, <1>5, Zenon DEF Derivation
  <1>7. capability.derivation # NoDerivation /\ capability.derivation.arity = InOrder(arities)
    <2>1. DOMAIN capability.derivation # {}
      BY <1>6
    <2>2. DOMAIN NoDerivation = {}
      BY DEF NoDerivation
    <2>3. capability.derivation.arity = InOrder(arities)
      BY <1>6
    <2> QED
      BY <2>1, <2>2, <2>3
  <1>8. ASSUME NEW p \in DOMAIN v
        PROVE  /\ v[p] \in Seq(Nat) /\ arities[p] \in Seq(Nat) /\ Len(v[p]) = Len(arities[p])
               /\ \A i \in 1..Len(v[p]) : v[p][i] \in 1..arities[p][i]
    <2>1. PICK doc : doc = d.files[p]
      OBVIOUS
    <2>2. p \in DOMAIN d.files \cap Markdown
      BY <1>1, <1>8 DEF IsCopy
    <2>3. IsDocument(doc) /\ ParseSlots(doc) = doc.marks
      BY <1>3, <2>1, <2>2, DraftsFiles
    <2>4. v[p] = Selection(doc, fp)
      BY <1>1, <1>8, <2>1 DEF IsCopy
    <2>5. arities[p] = Arity(Opening(doc, secret).slots)
      BY <1>2, <1>4, <1>5, <1>8, <2>1
    <2>6. /\ v[p] \in Seq(Nat) /\ Len(v[p]) = Len(doc.marks) /\ doc.marks \in Seq(Seq(Phrases))
          /\ \A i \in DOMAIN doc.marks : v[p][i] \in 1..Len(doc.marks[i])
      BY <2>3, <2>4, SelectionFacts
    <2>7. /\ arities[p] \in Seq(Nat) /\ Len(arities[p]) = Len(doc.marks)
          /\ \A i \in DOMAIN doc.marks : arities[p][i] = Len(doc.marks[i])
      BY <2>3, <2>5, ArityFacts
    <2>8. DOMAIN doc.marks = 1..Len(doc.marks)
      BY <2>6, Zenon, Lengths
    <2> QED
      BY <2>6, <2>7, <2>8, Zenon
  <1>9. DOMAIN arities = DOMAIN v
    BY <1>2, <1>4, <1>5
  <1> DEFINE Part(f, p) == IF p \in DOMAIN f THEN f[p] ELSE <<>>
  <1>10. ASSUME NEW p
         PROVE  /\ Part(v, p) \in Seq(Nat) /\ Part(arities, p) \in Seq(Nat)
                /\ Len(Part(v, p)) = Len(Part(arities, p))
                /\ \A i \in 1..Len(Part(v, p)) : Part(v, p)[i] \in 1..Part(arities, p)[i]
    <2>1. CASE p \in DOMAIN v
      BY <1>8, <1>9, <2>1, Zenon
    <2>2. CASE p \notin DOMAIN v
      <3>1. Part(v, p) = <<>> /\ Part(arities, p) = <<>>
        BY <1>9, <2>2
      <3>2. <<>> \in Seq(Nat) /\ Len(<<>>) = 0 /\ 1..0 = {}
        OBVIOUS
      <3> HIDE DEF Part
      <3> QED
        BY <3>1, <3>2
    <2> QED
      BY <2>1, <2>2
  <1>11. /\ InOrder(v) = Part(v, SKILL) \o Part(v, "notes.md")
         /\ InOrder(arities) = Part(arities, SKILL) \o Part(arities, "notes.md")
    BY InOrderFacts, Zenon
  <1> HIDE DEF Part
  <1>12. PICK a1, a2, c1, c2 :
            /\ a1 = Part(v, SKILL) /\ a2 = Part(v, "notes.md")
            /\ c1 = Part(arities, SKILL) /\ c2 = Part(arities, "notes.md")
    OBVIOUS
  <1>13. /\ a1 \in Seq(Nat) /\ c1 \in Seq(Nat) /\ Len(a1) = Len(c1)
         /\ a2 \in Seq(Nat) /\ c2 \in Seq(Nat) /\ Len(a2) = Len(c2)
         /\ \A i \in 1..Len(a1) : a1[i] \in 1..c1[i]
         /\ \A i \in 1..Len(a2) : a2[i] \in 1..c2[i]
    BY <1>10, <1>12, Zenon
  <1>14. /\ Len(InOrder(v)) = Len(InOrder(arities))
         /\ \A i \in DOMAIN InOrder(v) : InOrder(v)[i] \in 1..InOrder(arities)[i]
    <2>1. InOrder(v) = a1 \o a2 /\ InOrder(arities) = c1 \o c2
      BY <1>11, <1>12, Zenon
    <2>2. /\ Len(a1 \o a2) = Len(c1 \o c2)
          /\ \A i \in DOMAIN (a1 \o a2) : (a1 \o a2)[i] \in 1..(c1 \o c2)[i]
      BY <1>13, JoinedWithin, Zenon
    <2> QED
      BY <2>1, <2>2, Zenon
  <1> QED
    BY <1>1, <1>7, <1>14 DEF WithinSlots

(* Whatever is listed, every buyer's copy of it passes the chain, if its    *)
(* files come back from stripping and no option offers what a scan blocks.  *)
THEOREM WhatIsListedInstalls == Spec => []ListedInstalls
  <1>1. ReleaseInv => ListedInstalls
    <2> SUFFICES ASSUME ReleaseInv, skill # NoSkill, Servable(skill.files), NEW o \in Orders,
                        NEW bundle, bundle = BundleFor(o, skill.files),
                        NEW scan \in Scans(Stripped(bundle)),
                        scan.engine = skill.capability.scan.engine
                 PROVE  VerifyBundleChain(skill.capability, bundle, scan)
      BY DEF ListedInstalls
    <2>1. Published(skill)
      BY DEF ReleaseInv
    <2>2. PICK d \in Drafts : skill.files = d.files
      BY <2>1 DEF Published
    <2>3. PICK fp, digest : fp = FingerprintOf[o] /\ digest = skill.capability.digest
      OBVIOUS
    <2>4. fp \in Fingerprints
      BY <2>3, FingerprintOfAssumption
    <2>5. bundle = BundleOf(digest, d.files, fp)
      BY <2>2, <2>3 DEF BundleFor, BundleOf
    <2>6. IsCopy(bundle, digest, d.files, fp)
      BY <2>2, <2>4, <2>5, BundleFacts
    <2>7. PICK secret : skill.openings = Openings(skill.files, secret)
      BY <2>1 DEF Published
    <2>8. /\ skill.capability.digest = SkillContentHash(d.files)
            /\ skill.capability.files = Hashes(d.files)
          /\ skill.capability.derivation = Derivation(Openings(d.files, secret))
      BY <2>1, <2>2, <2>7, PublishedFacts
    <2>9. PICK found \in Scans(Neutral(d.files)), external \in ExternalAnswers :
             ~Merged(found, external).blocked /\ skill.capability.scan = Merged(found, external)
      BY <2>1, <2>2, PublishedFacts
    <2>10. DOMAIN found = {"engine", "blocked", "criticals"} /\ found.blocked \in BOOLEAN
      <3>1. CASE found = ScanSkill(Neutral(d.files))
        BY <3>1, Zenon DEF ScanSkill
      <3>2. CASE found = NormalizeSpectorReport(Neutral(d.files))
        BY <3>2, Zenon DEF NormalizeSpectorReport
      <3> QED
        BY <2>9, <3>1, <3>2 DEF Scans
    <2>11. ~found.blocked /\ scan.engine = found.engine
      BY <2>9, <2>10, MergedFacts
    <2>12. ~scan.blocked
      BY <2>2, <2>4, <2>6, <2>9, <2>11, CopyPassesScan
    <2>13. PICK capability : capability = skill.capability
      OBVIOUS
    <2>14. Provenant(capability, bundle)
      BY <2>2, <2>4, <2>6, <2>8, <2>13, CopyIsProvenant
    <2>15. WithinSlots(capability, bundle)
      BY <2>2, <2>4, <2>6, <2>8, <2>13, CopyWithinSlots
    <2>16. VerifyBundle(bundle) /\ Continuous(capability, bundle)
      BY <2>3, <2>6, <2>13 DEF IsCopy, VerifyBundle, Continuous
    <2>17. SkillDigestFromHashes(capability.files) = capability.digest
      BY <2>8, <2>13 DEF SkillContentHash
    <2> QED
      BY <2>12, <2>13, <2>14, <2>15, <2>16, <2>17 DEF VerifyBundleChain
  <1> QED
    BY <1>1, ReleaseInvHolds, PTL

-----------------------------------------------------------------------------
(* Tracing a leak *)

(* What tracing answers, of what it observes. *)
Answers(t, s, fpOf, observed) ==
    LET surviving == Surviving(observed)
        count     == Cardinality(Comparable(s, observed))
    IN  /\ t.consistent =
                {c \in DOMAIN fpOf : /\ count = Cardinality(surviving) /\ count > 0
                                     /\ Cardinality(Matches(s, fpOf[c], observed)) = count}
        /\ surviving = {} => t.verdict = "no-match"
        /\ surviving # {} /\ Cardinality(surviving) < 3 => t.verdict = "insufficient-evidence"
        /\ Cardinality(surviving) >= 3 =>
              /\ Cardinality(t.consistent) = 1 => t.verdict = "identified"
              /\ Cardinality(t.consistent) > 1 => t.verdict = "inconclusive"
        /\ t.verdict = "identified" => Cardinality(t.consistent) = 1

(* TraceCanary answers so. *)
LEMMA TraceFacts ==
    ASSUME NEW doc, NEW s, NEW fpOf, IsFiniteSet(Surviving(Observed(doc, ParseSlots(s))))
    PROVE  Answers(TraceCanary(doc, s, fpOf), s, fpOf, Observed(doc, ParseSlots(s)))
  <1>0. PICK observed, count, t :
          /\ observed = Observed(doc, ParseSlots(s))
          /\ count = Cardinality(Comparable(s, observed))
          /\ t = TraceCanary(doc, s, fpOf)
    OBVIOUS
  <1>1. PICK agreeing : agreeing = [c \in DOMAIN fpOf |-> Cardinality(Matches(s, fpOf[c], observed))]
    OBVIOUS
  <1>2. PICK consistent :
            consistent = {c \in DOMAIN fpOf : /\ count = Cardinality(Surviving(observed))
                                              /\ count > 0 /\ agreeing[c] = count}
    OBVIOUS
  <1>3. consistent = {c \in DOMAIN fpOf : /\ count = Cardinality(Surviving(observed)) /\ count > 0
                                     /\ Cardinality(Matches(s, fpOf[c], observed)) = count}
    BY <1>1, <1>2
  <1>4. PICK verdict : verdict =
            CASE Surviving(observed) = {} -> "no-match"
              [] Surviving(observed) # {} /\ ~Enough(observed) -> "insufficient-evidence"
              [] Enough(observed) /\ Cardinality(consistent) = 1 -> "identified"
              [] Enough(observed) /\ Cardinality(consistent) > 1 -> "inconclusive"
              [] OTHER -> IF \E c \in DOMAIN fpOf : 5 * agreeing[c] >= 4 * count
                          THEN "inconclusive" ELSE "no-match"
    OBVIOUS
  <1>5. t.consistent = consistent /\ t.verdict = verdict
    <2>1. t = TraceCanary(doc, s, fpOf)
      BY <1>0
    <2>2. observed = Observed(doc, ParseSlots(s))
      BY <1>0
    <2>3. count = Cardinality(Comparable(s, observed))
      BY <1>0
    <2> QED
      BY <1>1, <1>2, <1>4, <2>1, <2>2, <2>3 DEF TraceCanary
  <1>6. Enough(observed) <=> Cardinality(Surviving(observed)) >= 3
    BY DEF Enough, MIN_OBSERVED_SLOTS
  <1> DEFINE n == Cardinality(Surviving(observed))
             m == Cardinality(consistent)
             some == Surviving(observed) # {}
  <1>7. n \in Nat
    BY <1>0, FS_CardinalityType
  <1>8. ~some => verdict = "no-match"
    BY <1>4, <1>6, FS_EmptySet
  <1>9. some /\ n < 3 => verdict = "insufficient-evidence"
    BY <1>4, <1>6, <1>7
  <1>10. some /\ n >= 3 /\ m = 1 => verdict = "identified"
    BY <1>4, <1>6, <1>7
  <1>11. some /\ n >= 3 /\ m > 1 => verdict = "inconclusive"
    BY <1>4, <1>6, <1>7
  <1>12. verdict = "identified" => m = 1
    BY <1>4
  <1>13. n >= 3 => some
    BY <1>0, FS_EmptySet
  <1>14. Answers(t, s, fpOf, observed)
    <2> HIDE DEF n, m
    <2> QED
      BY <1>0, <1>3, <1>5, <1>8, <1>9, <1>10, <1>11, <1>12, <1>13 DEF n, m, Answers
  <1> QED
    BY <1>0, <1>14

(* What is picked is one of the options. *)
LEMMA OwnPicked ==
    ASSUME NEW s, IsSource(s), NEW fp \in Fingerprints, NEW i \in DOMAIN s.marks
    PROVE  Picked(s, fp, i) \in DOMAIN s.marks[i] /\ Picked(s, fp, i) # 0
  <1>1. s.marks \in Seq(Seq(Phrases)) /\ s.marks[i] # <<>>
    BY DEF IsSource
  <1>2. Picked(s, fp, i) \in 1..Len(s.marks[i])
    BY <1>1, PickedInRange
  <1>3. PICK w : w = s.marks[i]
    OBVIOUS
  <1>4. w \in Seq(Phrases)
    <2> DEFINE O == Seq(Phrases)
               m == s.marks
    <2>1. m \in Seq(O)
      BY <1>1
    <2> HIDE DEF O, m
    <2>2. m[i] \in O
      BY <2>1 DEF m
    <2> QED
      BY <1>3, <2>2 DEF m, O
  <1>5. DOMAIN w = 1..Len(w) /\ Len(w) \in Nat
    BY <1>4
  <1> QED
    BY <1>2, <1>3, <1>5

(* A copy of which these marks were kept. *)
ShownOf(s, fp, kept) == s.text \cup {Rendered(s, fp)[i] : i \in kept}

(* What a document shows of its own source: the options that were picked.  *)
LEMMA OwnObserved ==
    ASSUME NEW s, IsSource(s), Legibly(s), NEW fp \in Fingerprints,
           NEW kept \in SUBSET DOMAIN s.marks,
           NEW doc, doc = ShownOf(s, fp, kept)
    PROVE  Observed(doc, ParseSlots(s)) =
              [i \in DOMAIN s.marks |-> IF i \in kept THEN Picked(s, fp, i) ELSE 0]
  <1>1. ParseSlots(s) = s.marks
    BY DEF Legibly
  <1>2. \A i \in DOMAIN s.marks : Rendered(s, fp)[i] = s.marks[i][Picked(s, fp, i)]
    BY DEF Rendered, Selection
  <1>3. \A i \in DOMAIN s.marks : Picked(s, fp, i) \in DOMAIN s.marks[i] /\ Picked(s, fp, i) # 0
    BY OwnPicked
  <1>4. ASSUME NEW i \in DOMAIN s.marks, NEW o \in DOMAIN s.marks[i]
        PROVE  Shows(doc, s.marks[i][o]) <=> i \in kept /\ o = Picked(s, fp, i)
    <2>1. ASSUME i \in kept, o = Picked(s, fp, i) PROVE Shows(doc, s.marks[i][o])
      BY <1>2, <2>1 DEF Shows, ShownOf
    <2>2. ASSUME Shows(doc, s.marks[i][o]) PROVE i \in kept /\ o = Picked(s, fp, i)
      <3>1. PICK q \in doc : s.marks[i][o] = q \/ <<s.marks[i][o], q>> \in Within
        BY <2>2 DEF Shows
      <3>2. s.marks[i][o] \in Options(s)
        BY DEF Options, ToSet
      <3>3. q \notin s.text
        BY <3>1, <3>2 DEF Legibly, Distinct
      <3>4. PICK j \in kept : q = s.marks[j][Picked(s, fp, j)]
        BY <1>2, <3>3 DEF ShownOf
      <3>5. <<i, o>> = <<j, Picked(s, fp, j)>>
        <4> SUFFICES ASSUME <<i, o>> # <<j, Picked(s, fp, j)>> PROVE FALSE
          OBVIOUS
        <4>1. Distinct(s.marks[i][o], s.marks[j][Picked(s, fp, j)])
          BY <1>3 DEF Legibly
        <4> QED
          BY <3>1, <3>4, <4>1 DEF Distinct
      <3> QED
        BY <3>5
    <2> QED
      BY <2>1, <2>2
  <1>5. ASSUME NEW i \in DOMAIN s.marks,
               NEW hits, hits = {o \in DOMAIN s.marks[i] : Shows(doc, s.marks[i][o])}
        PROVE  (IF Cardinality(hits) = 1 THEN CHOOSE o \in hits : TRUE ELSE Unknown)
                  = IF i \in kept THEN Picked(s, fp, i) ELSE 0
    <2>1. CASE i \in kept
      <3>1. hits = {Picked(s, fp, i)}
        BY <1>3, <1>4, <1>5, <2>1
      <3>2. Cardinality(hits) = 1
        BY <3>1, FS_Singleton
      <3>3. (CHOOSE o \in hits : TRUE) = Picked(s, fp, i)
        BY <3>1
      <3> QED
        BY <2>1, <3>2, <3>3
    <2>2. CASE i \notin kept
      <3>1. hits = {}
        BY <1>4, <1>5, <2>2
      <3>2. Cardinality(hits) # 1
        BY <3>1, FS_EmptySet
      <3> QED
        BY <2>2, <3>2 DEF Unknown
    <2> QED
      BY <2>1, <2>2
  <1> QED
    BY <1>1, <1>5 DEF Observed

(* A document that shows nothing of a source is no match.  *)
LEMMA OtherTrace ==
    ASSUME NEW s, s.marks \in Seq(Seq(Phrases)), NEW doc, NEW fpOf,
           \A p \in Options(s), q \in doc : Distinct(p, q)
    PROVE  TraceCanary(doc, s, fpOf).verdict = "no-match"
  <1>0. PICK slots, observed : slots = ParseSlots(s) /\ observed = Observed(doc, slots)
    OBVIOUS
  <1>1. s.marks \in Seq(Seq(Options(s)))
    <2> DEFINE O == Seq(Phrases)
               m == s.marks
    <2>1. m \in Seq(O)
      OBVIOUS
    <2>2. ASSUME NEW i \in DOMAIN m PROVE m[i] \in Seq(Options(s))
      <3>1. PICK w : w = m[i]
        OBVIOUS
      <3>2. w \in Seq(Phrases)
        <4> HIDE DEF O, m
        <4>1. m[i] \in O
          BY <2>1
        <4> QED
          BY <3>1, <4>1 DEF O
      <3>3. \A o \in 1..Len(w) : w[o] \in Options(s)
        BY <3>1, <3>2 DEF Options, ToSet
      <3> QED
        BY <3>1, <3>2, <3>3
    <2> HIDE DEF O, m
    <2>3. m \in Seq(Seq(Options(s)))
      <3> DEFINE R == Seq(Options(s))
      <3> HIDE DEF R
      <3>1. \A i \in DOMAIN m : m[i] \in R
        BY <2>2 DEF R
      <3>2. m \in Seq(R)
        BY <2>1, <3>1
      <3> QED
        BY <3>2 DEF R
    <2> QED
      BY <2>3 DEF m
  <1>2. slots \in Seq(Seq(Options(s)))
    BY <1>0, <1>1, SlotsFacts
  <1>3. ASSUME NEW i \in DOMAIN slots, NEW o \in DOMAIN slots[i]
        PROVE  ~Shows(doc, slots[i][o])
    <2>1. slots[i][o] \in Options(s)
      <3> DEFINE R == Seq(Options(s))
      <3>1. PICK w : w = slots[i]
        OBVIOUS
      <3>2. w \in R
        <4> HIDE DEF R
        <4> QED
          BY <1>2, <3>1 DEF R
      <3> QED
        BY <3>1, <3>2
    <2> QED
      BY <2>1 DEF Shows, Distinct
  <1>4. ASSUME NEW i \in DOMAIN slots,
               NEW hits, hits = {o \in DOMAIN slots[i] : Shows(doc, slots[i][o])}
        PROVE  (IF Cardinality(hits) = 1 THEN CHOOSE o \in hits : TRUE ELSE Unknown) = 0
    <2>1. hits = {}
      BY <1>3, <1>4
    <2>2. Cardinality(hits) # 1
      BY <2>1, FS_EmptySet
    <2> QED
      BY <2>2 DEF Unknown
  <1>5. observed = [i \in DOMAIN slots |-> 0]
    BY <1>0, <1>4 DEF Observed
  <1>6. Surviving(observed) = {}
    BY <1>5 DEF Surviving, Unknown
  <1>7. PICK t : t = TraceCanary(doc, s, fpOf)
    OBVIOUS
  <1>8. IsFiniteSet(Surviving(observed))
    BY <1>6, FS_EmptySet
  <1>9. Answers(t, s, fpOf, observed)
    BY <1>0, <1>7, <1>8, TraceFacts
  <1> QED
    BY <1>6, <1>7, <1>9 DEF Answers

(* Its own source answers with the orders of the same wording at what was   *)
(* kept, and names nobody else.                                             *)
LEMMA OwnTrace ==
    ASSUME NEW s, IsSource(s), Legibly(s), NEW fp \in Fingerprints,
           NEW kept \in SUBSET DOMAIN s.marks,
           NEW doc, doc = ShownOf(s, fp, kept),
           NEW fpOf, IsFiniteSet(DOMAIN fpOf), NEW leaker \in DOMAIN fpOf, fpOf[leaker] = fp,
           NEW same, same = {c \in DOMAIN fpOf : \A i \in kept :
                                Picked(s, fpOf[c], i) = Picked(s, fp, i)},
           NEW t, t = TraceCanary(doc, s, fpOf)
    PROVE  /\ kept = {} => t.verdict = "no-match"
           /\ kept # {} => /\ t.consistent = same
                           /\ t.verdict \in {"identified", "inconclusive", "insufficient-evidence"}
           /\ t.verdict = "identified" => t.consistent = {leaker}
           /\ Cardinality(kept) >= 3
                => t.verdict = IF Cardinality(same) = 1 THEN "identified" ELSE "inconclusive"
  <1>1. PICK observed : observed = Observed(doc, ParseSlots(s))
    OBVIOUS
  <1>2. observed = [i \in DOMAIN s.marks |-> IF i \in kept THEN Picked(s, fp, i) ELSE 0]
    BY <1>1, OwnObserved
  <1>3. \A i \in kept : Picked(s, fp, i) # 0
    BY OwnPicked
  <1>4. Surviving(observed) = kept
    BY <1>2, <1>3 DEF Surviving, Unknown
  <1>5. Comparable(s, observed) = kept
    BY <1>2, <1>4 DEF Comparable
  <1>6. IsFiniteSet(kept)
    <2>1. s.marks \in Seq(Seq(Phrases))
      BY DEF IsSource
    <2>2. DOMAIN s.marks = 1..Len(s.marks) /\ Len(s.marks) \in Nat
      BY <2>1
    <2>3. IsFiniteSet(DOMAIN s.marks)
      BY <2>2, FS_Interval
    <2> QED
      BY <2>3, FS_Subset
  <1>7. PICK n \in Nat : n = Cardinality(kept)
    BY <1>6, FS_CardinalityType
  <1>8. ASSUME NEW c \in DOMAIN fpOf
        PROVE  Cardinality(Matches(s, fpOf[c], observed)) = n <=> c \in same
    <2>1. Matches(s, fpOf[c], observed) = {i \in kept : Picked(s, fp, i) = Picked(s, fpOf[c], i)}
      BY <1>2, <1>4 DEF Matches, Selection
    <2>2. PICK m : m = Matches(s, fpOf[c], observed)
      OBVIOUS
    <2>3. m = kept <=> c \in same
      BY <2>1, <2>2
    <2>4. m \subseteq kept
      BY <2>1, <2>2
    <2>5. Cardinality(m) = Cardinality(kept) => m = kept
      BY <1>6, <2>4, FS_Subset
    <2> QED
      BY <1>7, <2>2, <2>3, <2>5
  <1>9. Answers(t, s, fpOf, observed)
    BY <1>1, <1>4, <1>6, TraceFacts
  <1>10. kept = {} <=> n = 0
    BY <1>6, <1>7, FS_EmptySet
  <1>11. ASSUME kept # {} PROVE t.consistent = same
    BY <1>4, <1>5, <1>7, <1>8, <1>9, <1>10, <1>11 DEF Answers
  <1>12. leaker \in same /\ IsFiniteSet(same)
    BY FS_Subset
  <1>13. Cardinality(same) \in Nat /\ Cardinality(same) # 0
    BY <1>12, FS_CardinalityType, FS_EmptySet
  <1>14. kept = {} => t.verdict = "no-match"
    BY <1>4, <1>9 DEF Answers
  <1>15. n >= 3 => t.verdict = IF Cardinality(same) = 1 THEN "identified" ELSE "inconclusive"
    <2> SUFFICES ASSUME n >= 3
                 PROVE  t.verdict = IF Cardinality(same) = 1 THEN "identified" ELSE "inconclusive"
      OBVIOUS
    <2>1. t.consistent = same
      BY <1>10, <1>11
    <2>2. CASE Cardinality(same) = 1
      BY <1>4, <1>7, <1>9, <2>1, <2>2 DEF Answers
    <2>3. CASE Cardinality(same) # 1
      <3>1. Cardinality(same) > 1
        BY <1>13, <2>3
      <3> QED
        BY <1>4, <1>7, <1>9, <2>1, <2>3, <3>1 DEF Answers
    <2> QED
      BY <2>2, <2>3
  <1>16. kept # {} => t.verdict \in {"identified", "inconclusive", "insufficient-evidence"}
    <2>1. CASE n >= 3
      BY <1>15, <2>1
    <2>2. CASE n < 3
      BY <1>4, <1>7, <1>9, <2>2 DEF Answers
    <2> QED
      BY <2>1, <2>2
  <1>17. ASSUME t.verdict = "identified" PROVE t.consistent = {leaker}
    <2>1. kept # {} /\ t.consistent = same
      BY <1>11, <1>14, <1>17
    <2>2. Cardinality(same) = 1
      BY <1>9, <1>17, <2>1 DEF Answers
    <2>3. \E x : same = {x}
      BY <1>12, <2>2, FS_Singleton
    <2> QED
      BY <1>12, <2>1, <2>3
  <1> QED
    BY <1>7, <1>11, <1>14, <1>15, <1>16, <1>17

(* Evidence: the recursion along the shelf. *)
Weighs(t, entry, best) ==
    Candidates(entry.skill) # {} /\ t.verdict # "no-match" /\ Better(t, best)

Consults(f, n) ==
    f = [i \in 0..n |-> IF i = 0 THEN NoEvidence
                        ELSE IF Weighs(Trace(shelf[i]), shelf[i], f[i - 1]) THEN Trace(shelf[i])
                        ELSE f[i - 1]]

(* If only the entries of one skill show anything, the evidence is theirs. *)
LEMMA EvidenceOfOne ==
    ASSUME NEW E, shelf \in Seq(E), NEW k, Candidates(k) # {},
           NEW own \in DOMAIN shelf, shelf[own].skill = k,
           NEW t, \A i \in DOMAIN shelf : IF shelf[i].skill = k THEN Trace(shelf[i]) = t
                                          ELSE Trace(shelf[i]).verdict = "no-match",
           t.verdict \in {"identified", "inconclusive", "insufficient-evidence", "no-match"}
    PROVE  Evidence = IF t.verdict = "no-match" THEN NoEvidence ELSE t
  <1> DEFINE D == {NoEvidence, t}
             S == {shelf[i] : i \in DOMAIN shelf}
             step == [x \in D \X S |->
                        IF Weighs(Trace(x[2]), x[2], x[1]) THEN Trace(x[2]) ELSE x[1]]
             n == Len(shelf)
  <1>1. DOMAIN shelf = 1..n /\ n \in Nat /\ shelf \in Seq(S)
    OBVIOUS
  <1>2. ASSUME NEW b \in D, NEW i \in DOMAIN shelf
        PROVE  (IF Weighs(Trace(shelf[i]), shelf[i], b) THEN Trace(shelf[i]) ELSE b)
                  = IF shelf[i].skill = k /\ t.verdict # "no-match" THEN t ELSE b
    <2>1. CASE shelf[i].skill # k
      BY <2>1 DEF Weighs
    <2>2. CASE shelf[i].skill = k /\ t.verdict = "no-match"
      BY <2>2 DEF Weighs
    <2>3. CASE shelf[i].skill = k /\ t.verdict # "no-match" /\ b = t
      BY <2>3
    <2>4. CASE shelf[i].skill = k /\ t.verdict # "no-match" /\ b = NoEvidence
      <3>1. Better(t, NoEvidence)
        BY <2>4 DEF Better, RankOf, NoEvidence
      <3> QED
        BY <2>4, <3>1 DEF Weighs
    <2> QED
      BY <2>1, <2>2, <2>3, <2>4
  <1>3. step \in [D \X S -> D]
    BY <1>2
  <1>4. PICK f \in [0..n -> D] : Along(f, NoEvidence, step, shelf, n)
    <2> HIDE DEF D, S, step
    <2>1. NoEvidence \in D
      BY DEF D
    <2> QED
      BY <1>1, <1>3, <2>1, AlongExists
  <1>5. ASSUME NEW i \in 0..n, i # 0
        PROVE  step[<<f[i - 1], shelf[i]>>] =
                 IF Weighs(Trace(shelf[i]), shelf[i], f[i - 1]) THEN Trace(shelf[i]) ELSE f[i - 1]
    <2> HIDE DEF D, S
    <2>1. f[i - 1] \in D /\ shelf[i] \in S
      BY <1>1, <1>4, <1>5
    <2> QED
      BY <2>1
  <1> HIDE DEF step
  <1>6. Consults(f, n)
    BY <1>4, <1>5 DEF Along, Consults
  <1> DEFINE g == CHOOSE g : Consults(g, n)
  <1>7. Consults(g, n)
    BY <1>6, Zenon
  <1>8. Evidence = g[n]
    BY Zenon DEF Evidence, Consults, Weighs
  <1> HIDE DEF g
  <1>9. \A i \in 0..n : g[i] = IF i = 0 THEN NoEvidence
                        ELSE IF Weighs(Trace(shelf[i]), shelf[i], g[i - 1]) THEN Trace(shelf[i])
                        ELSE g[i - 1]
    BY <1>7 DEF Consults
  <1> DEFINE Settled(i) == /\ g[i] \in D
                           /\ own <= i /\ t.verdict # "no-match" => g[i] = t
                           /\ t.verdict = "no-match" => g[i] = NoEvidence
             N == {i \in Nat : i <= n => Settled(i)}
  <1>10. 0 \in N
    <2>1. 0 \in 0..n /\ ~(own <= 0)
      BY <1>1
    <2>2. g[0] = NoEvidence
      BY <1>9, <2>1
    <2> QED
      BY <2>1, <2>2
  <1>11. ASSUME NEW i \in Nat, i \in N PROVE i + 1 \in N
    <2> SUFFICES ASSUME i + 1 <= n PROVE Settled(i + 1)
      OBVIOUS
    <2>1. /\ i + 1 \in 0..n /\ i + 1 # 0 /\ (i + 1) - 1 = i
          /\ i + 1 \in DOMAIN shelf /\ own \in Nat
      BY <1>1
    <2>2. Settled(i)
      BY <1>1, <1>11
    <2>3. g[i + 1] = IF Weighs(Trace(shelf[i + 1]), shelf[i + 1], g[i])
                     THEN Trace(shelf[i + 1]) ELSE g[i]
      BY <1>9, <2>1
    <2>4. g[i + 1] = IF shelf[i + 1].skill = k /\ t.verdict # "no-match" THEN t ELSE g[i]
      <3> HIDE DEF D
      <3> QED
        BY <1>2, <2>1, <2>2, <2>3
    <2>5. own <= i + 1 => own <= i \/ own = i + 1
      BY <2>1
    <2> QED
      BY <2>2, <2>4, <2>5
  <1> HIDE DEF N
  <1>12. Nat \subseteq N
    BY <1>10, <1>11, NatSetInduction
  <1>13. n \in N /\ own <= n
    BY <1>1, <1>12
  <1> QED
    BY <1>8, <1>13, <1>1 DEF N

(* A copy as it is delivered: of a source, for an order on record. *)
Given(c) == c.order \in OnRecord /\ c.source \in Sources

(* Zero-width characters that are left of a copy. *)
LeftHidden(z, s, fp) == z \in Remains(ZeroWidths(s, fp))

(* Where a leak comes from: of what was delivered, for an order that is     *)
(* still on record, of a skill that is still listed; and no two orders      *)
(* share a fingerprint.                                                     *)
TraceInv ==
    /\ shelf \in Seq([skill : Skills, source : Sources])
    /\ orders \in [OrderIds -> Order \cup {NoOrder}]
    /\ IsFiniteSet(OnRecord)
    /\ \A o, x \in OnRecord : o # x => orders[o].fp # orders[x].fp
    /\ \A o \in OnRecord : Listed(orders[o].skill) # {}
    /\ \A c \in copies : Given(c)
    /\ leak # NoLeak => /\ Given(leak.copy)
                        /\ leak.kept \subseteq DOMAIN leak.copy.source.marks
                        /\ LeftHidden(leak.zero, leak.copy.source, orders[leak.copy.order].fp)

(* What is on the shelf stays there, under its skill. *)
LEMMA ShelfGrows ==
    ASSUME NEW k \in Skills, NEW s \in Sources, shelf \in Seq([skill : Skills, source : Sources]),
           shelf' = Shelved(k, s)
    PROVE  /\ shelf' \in Seq([skill : Skills, source : Sources])
           /\ \A j : Listed(j) # {} => Listed(j)' # {}
  <1> DEFINE E == [skill : Skills, source : Sources]
  <1>1. CASE Listed(k) = {}
    <2>1. PICK e : e = [skill |-> k, source |-> s]
      OBVIOUS
    <2>2. e \in E
      BY <2>1
    <2>3. shelf' = Append(shelf, e)
      BY <1>1, <2>1 DEF Shelved
    <2> HIDE DEF E
    <2>4. shelf \in Seq(E)
      BY DEF E
    <2>5. shelf' \in Seq(E) /\ \A i \in DOMAIN shelf : i \in DOMAIN shelf' /\ shelf'[i] = shelf[i]
      BY <2>2, <2>3, <2>4
    <2> QED
      BY <2>5 DEF E, Listed
  <1>2. CASE Listed(k) # {}
    <2>1. PICK b : b = [i \in DOMAIN shelf |->
                          IF shelf[i].skill = k THEN [shelf[i] EXCEPT !.source = s] ELSE shelf[i]]
      OBVIOUS
    <2>2. shelf' = b
      BY <1>2, <2>1 DEF Shelved
    <2>3. ASSUME NEW i \in DOMAIN shelf PROVE b[i] \in E /\ b[i].skill = shelf[i].skill
      <3>1. shelf[i] \in E
        <4> HIDE DEF E
        <4>1. shelf \in Seq(E)
          BY DEF E
        <4> QED
          BY <2>3, <4>1
      <3> QED
        BY <2>1, <2>3, <3>1
    <2>4. DOMAIN b = DOMAIN shelf
      BY <2>1
    <2>5. b \in Seq(E)
      <3> HIDE DEF E
      <3>1. shelf \in Seq(E)
        BY DEF E
      <3>2. DOMAIN b = 1..Len(shelf) /\ Len(shelf) \in Nat
        BY <2>4, <3>1
      <3>3. b = [i \in 1..Len(shelf) |-> b[i]]
        BY <2>1, <3>2
      <3>4. \A i \in 1..Len(shelf) : b[i] \in E
        BY <2>3, <2>4, <3>2
      <3>5. b \in [1..Len(shelf) -> E]
        BY <3>3, <3>4
      <3> QED
        BY <3>2, <3>5
    <2> QED
      BY <2>2, <2>3, <2>4, <2>5 DEF Listed
  <1> QED
    BY <1>1, <1>2

(* TraceInv is inductive. *)
LEMMA TraceInvStep ==
    ASSUME TraceInv, [TracingNext]_tracingVars PROVE TraceInv'
  <1>1. ASSUME NEW k \in Skills, NEW s \in Sources, Publish(k, s) PROVE TraceInv'
    <2>1. /\ shelf' = Shelved(k, s) /\ UNCHANGED <<orders, copies, leak>>
      BY <1>1 DEF Publish
    <2>2. /\ shelf' \in Seq([skill : Skills, source : Sources])
          /\ \A j : Listed(j) # {} => Listed(j)' # {}
      BY <2>1, ShelfGrows DEF TraceInv
    <2>3. OnRecord' = OnRecord
      BY <2>1 DEF OnRecord
    <2> QED
      BY <2>1, <2>2, <2>3 DEF TraceInv, Given
  <1>2. ASSUME NEW o \in OrderIds, NEW k \in Skills, Purchase(o, k) PROVE TraceInv'
    <2>1. PICK fp \in Fingerprinted \ {orders[x].fp : x \in OnRecord} :
              orders' = [orders EXCEPT ![o] = [skill |-> k, fp |-> fp, revoked |-> FALSE]]
      BY <1>2 DEF Purchase
    <2>2. PICK r : r = [skill |-> k, fp |-> fp, revoked |-> FALSE]
      OBVIOUS
    <2>3. r \in Order /\ r # NoOrder /\ r.skill = k /\ r.fp = fp
      <3>1. fp \in Fingerprinted
        BY <2>1
      <3>2. r \in Order
        BY <1>2, <2>2, <3>1 DEF Order
      <3> QED
        BY <2>2, <3>2, NoOrderAssumption
    <2>4. /\ orders' \in [OrderIds -> Order \cup {NoOrder}]
          /\ \A x \in OrderIds : orders'[x] = IF x = o THEN r ELSE orders[x]
      BY <2>1, <2>2, <2>3 DEF TraceInv
    <2>5. OnRecord' = OnRecord \cup {o}
      BY <2>3, <2>4 DEF OnRecord
    <2>6. UNCHANGED <<shelf, copies, leak>> /\ Listed(k) # {} /\ orders[o] = NoOrder
      BY <1>2 DEF Purchase
    <2>7. IsFiniteSet(OnRecord')
      BY <2>5, FS_AddElement DEF TraceInv
    <2>8. ASSUME NEW x \in OnRecord', NEW y \in OnRecord', x # y
          PROVE  orders'[x].fp # orders'[y].fp
      <3>1. o \notin OnRecord
        BY <2>6 DEF OnRecord
      <3>2. \A z \in OnRecord : orders[z].fp # fp /\ orders'[z] = orders[z]
        BY <2>1, <2>4, <3>1 DEF OnRecord
      <3>3. orders'[o].fp = fp
        BY <2>3, <2>4
      <3> QED
        BY <2>5, <2>8, <3>2, <3>3 DEF TraceInv
    <2>9. ASSUME NEW x \in OnRecord' PROVE Listed(orders[x].skill)' # {}
      <3>1. \A j : Listed(j)' = Listed(j)
        BY <2>6 DEF Listed
      <3>2. CASE x = o
        BY <2>3, <2>4, <2>6, <3>1, <3>2
      <3>3. CASE x # o
        <4>1. x \in OnRecord /\ orders'[x] = orders[x]
          BY <2>4, <2>5, <3>3 DEF OnRecord
        <4> QED
          BY <3>1, <4>1 DEF TraceInv
      <3> QED
        BY <3>2, <3>3
    <2>10. \A x \in OnRecord : orders'[x] = orders[x]
      BY <2>4, <2>6 DEF OnRecord
    <2> QED
      BY <2>4, <2>5, <2>6, <2>7, <2>8, <2>9, <2>10 DEF TraceInv, Given
  <1>3. ASSUME NEW o \in OrderIds, Revoke(o) PROVE TraceInv'
    <2>1. /\ o \in OnRecord /\ orders' = [orders EXCEPT ![o].revoked = TRUE]
          /\ UNCHANGED <<shelf, copies, leak>>
      BY <1>3 DEF Revoke
    <2>2. PICK r : r = [orders[o] EXCEPT !.revoked = TRUE]
      OBVIOUS
    <2>3. orders[o] \in Order
      BY <2>1 DEF TraceInv, OnRecord
    <2>4. r \in Order /\ r.skill = orders[o].skill /\ r.fp = orders[o].fp
      BY <2>2, <2>3 DEF Order
    <2>5. /\ orders' \in [OrderIds -> Order \cup {NoOrder}]
          /\ \A x \in OrderIds : orders'[x] = IF x = o THEN r ELSE orders[x]
      BY <2>1, <2>2, <2>4 DEF TraceInv
    <2>6. OnRecord' = OnRecord /\ OnRecord \subseteq OrderIds
      BY NoOrderAssumption, <2>1, <2>4, <2>5 DEF OnRecord
    <2>7. \A x \in OnRecord : orders'[x].skill = orders[x].skill /\ orders'[x].fp = orders[x].fp
      BY <2>4, <2>5, <2>6
    <2>8. \A j : Listed(j)' = Listed(j)
      BY <2>1 DEF Listed
    <2>9. ASSUME NEW x \in OnRecord' PROVE Listed(orders[x].skill)' # {}
      BY <2>6, <2>7, <2>8 DEF TraceInv
    <2> QED
      BY <2>1, <2>5, <2>6, <2>7, <2>9 DEF TraceInv, Given
  <1>4. ASSUME NEW o \in OrderIds, Fetch(o) PROVE TraceInv'
    <2>1. /\ o \in OnRecord /\ UNCHANGED <<shelf, orders, leak>>
          /\ copies' = copies \cup {[order |-> o, source |-> SourceOf(orders[o].skill)]}
      BY <1>4 DEF Fetch
    <2>2. SourceOf(orders[o].skill) \in Sources
      <3>1. PICK i \in Listed(orders[o].skill) : SourceOf(orders[o].skill) = shelf[i].source
        BY <2>1 DEF TraceInv, SourceOf
      <3>2. i \in DOMAIN shelf /\ shelf[i] \in [skill : Skills, source : Sources]
        <4> DEFINE E == [skill : Skills, source : Sources]
        <4> HIDE DEF E
        <4>1. shelf \in Seq(E) /\ i \in DOMAIN shelf
          BY <3>1 DEF Listed, TraceInv, E
        <4>2. shelf[i] \in E
          BY <4>1
        <4> QED
          BY <4>1, <4>2 DEF E
      <3> QED
        BY <3>1, <3>2
    <2>3. OnRecord' = OnRecord /\ \A j : Listed(j)' = Listed(j)
      BY <2>1 DEF OnRecord, Listed
    <2>4. \A c \in copies' : Given(c)
      BY <2>1, <2>2 DEF TraceInv, Given
    <2> QED
      BY <2>1, <2>3, <2>4 DEF TraceInv, Given
  <1>5. CASE Leak
    <2>1. /\ UNCHANGED <<shelf, orders, copies>>
          /\ \E c \in copies, frontmatter \in BOOLEAN :
                \E kept \in SUBSET DOMAIN c.source.marks,
                   zero \in Laundered[c.source][orders[c.order].fp] :
                      leak' = [copy |-> c, kept |-> kept, frontmatter |-> frontmatter, zero |-> zero]
      BY <1>5 DEF Leak
    <2>2. OnRecord' = OnRecord /\ \A j : Listed(j)' = Listed(j)
      BY <2>1 DEF OnRecord, Listed
    <2>3. /\ leak'.copy \in copies /\ leak'.kept \subseteq DOMAIN leak'.copy.source.marks
          /\ leak'.zero \in Laundered[leak'.copy.source][orders[leak'.copy.order].fp]
      <3>1. PICK c \in copies, frontmatter \in BOOLEAN :
                \E kept \in SUBSET DOMAIN c.source.marks,
                   zero \in Laundered[c.source][orders[c.order].fp] :
                      leak' = [copy |-> c, kept |-> kept, frontmatter |-> frontmatter, zero |-> zero]
        BY <2>1
      <3>2. PICK kept \in SUBSET DOMAIN c.source.marks,
                 zero \in Laundered[c.source][orders[c.order].fp] :
                leak' = [copy |-> c, kept |-> kept, frontmatter |-> frontmatter, zero |-> zero]
        BY <3>1
      <3>3. leak'.copy = c /\ leak'.kept = kept /\ leak'.zero = zero
        BY <3>2
      <3> QED
        BY <3>1, <3>2, <3>3
    <2> DEFINE c == leak'.copy
    <2>4. c.source \in Sources /\ c.order \in OnRecord
      BY <2>3 DEF TraceInv, Given
    <2>5. orders[c.order].fp \in Fingerprinted
      BY <2>4 DEF TraceInv, OnRecord, Order
    <2>6. LeftHidden(leak'.zero, c.source, orders[c.order].fp)
      <3>1. \A s \in Sources, fp \in Fingerprinted : Laundered[s][fp] = Remains(ZeroWidths(s, fp))
        BY DEF Laundered
      <3> QED
        BY <2>3, <2>4, <2>5, <3>1 DEF LeftHidden
    <2> QED
      BY <2>1, <2>2, <2>3, <2>6 DEF TraceInv, Given
  <1>6. CASE UNCHANGED tracingVars
    <2>1. UNCHANGED <<shelf, orders, copies, leak>>
      BY <1>6 DEF tracingVars
    <2>2. OnRecord' = OnRecord /\ \A j : Listed(j)' = Listed(j)
      BY <2>1 DEF OnRecord, Listed
    <2> QED
      BY <2>1, <2>2 DEF TraceInv, Given
  <1> QED
    BY <1>1, <1>2, <1>3, <1>4, <1>5, <1>6 DEF TracingNext

(* What leaks is a delivered copy of an order on record, whose fingerprint  *)
(* is its own (the routes that create and revoke orders, and GET /api/bundle). *)
THEOREM Traceable == TracingSpec => []TraceInv
  <1>1. TracingInit => TraceInv
    <2> SUFFICES ASSUME TracingInit PROVE TraceInv
      OBVIOUS
    <2>1. shelf = <<>> /\ copies = {} /\ leak = NoLeak /\ orders = [o \in OrderIds |-> NoOrder]
      BY DEF TracingInit
    <2>2. OnRecord = {}
      BY <2>1 DEF OnRecord
    <2> QED
      BY <2>1, <2>2, FS_EmptySet DEF TraceInv
  <1>2. TraceInv /\ [TracingNext]_tracingVars => TraceInv'
    BY TraceInvStep
  <1> QED
    BY <1>1, <1>2, PTL DEF TracingSpec

(* Of a legible source still listed, the answer is by the marks kept. *)
LEMMA LeakTraced ==
    ASSUME TraceInv, leak # NoLeak, StillListed
    PROVE  LET s     == leak.copy.source
               mine  == leak.copy.order
               same  == {o \in Candidates(orders[mine].skill) : \A i \in leak.kept :
                            Picked(s, orders[o].fp, i) = Picked(s, orders[mine].fp, i)}
           IN  /\ Evidence.verdict = "identified" => Evidence.consistent = {mine}
               /\ Cardinality(leak.kept) >= 3
                    => /\ Evidence.consistent = same
                       /\ Evidence.verdict =
                             IF Cardinality(same) = 1 THEN "identified" ELSE "inconclusive"
  <1>1. PICK s, mine, k, fp : s = leak.copy.source /\ mine = leak.copy.order
                              /\ k = orders[mine].skill /\ fp = orders[mine].fp
    OBVIOUS
  <1>2. mine \in OnRecord /\ s \in Sources /\ leak.kept \in SUBSET DOMAIN s.marks
    BY <1>1 DEF TraceInv, Given
  <1>3. \A o \in OnRecord : orders[o] \in Order
    BY DEF TraceInv, OnRecord
  <1>4. fp \in Fingerprints
    BY <1>1, <1>2, <1>3, FingerprintedAssumption DEF Order
  <1>5. \A x \in Sources : IsSource(x)
    BY SourcesAssumption
  <1>6. IsSource(s) /\ Legibly(s)
    BY <1>1, <1>2, <1>5 DEF StillListed
  <1>7. Document = ShownOf(s, fp, leak.kept)
    BY <1>1 DEF Document, ShownOf
  <1>8. PICK fpOf : fpOf = [o \in Candidates(k) |-> orders[o].fp]
    OBVIOUS
  <1>9. /\ IsFiniteSet(DOMAIN fpOf) /\ mine \in DOMAIN fpOf /\ fpOf[mine] = fp
        /\ DOMAIN fpOf = Candidates(k)
    <2>1. Candidates(k) \subseteq OnRecord
      BY DEF Candidates
    <2>2. IsFiniteSet(Candidates(k))
      BY <2>1, FS_Subset DEF TraceInv
    <2>3. mine \in Candidates(k)
      BY <1>1, <1>2 DEF Candidates
    <2> QED
      BY <1>1, <1>8, <2>2, <2>3
  <1>10. PICK same : same = {o \in DOMAIN fpOf : \A i \in leak.kept :
                               Picked(s, fpOf[o], i) = Picked(s, fp, i)}
    OBVIOUS
  <1>11. PICK t : t = TraceCanary(Document, s, fpOf)
    OBVIOUS
  <1>12. /\ leak.kept = {} => t.verdict = "no-match"
         /\ leak.kept # {} => /\ t.consistent = same
                              /\ t.verdict \in {"identified", "inconclusive", "insufficient-evidence"}
         /\ t.verdict = "identified" => t.consistent = {mine}
         /\ Cardinality(leak.kept) >= 3
                => t.verdict = IF Cardinality(same) = 1 THEN "identified" ELSE "inconclusive"
    BY <1>2, <1>4, <1>6, <1>7, <1>9, <1>10, <1>11, OwnTrace
  <1>13. PICK own \in DOMAIN shelf : shelf[own].skill = k
    BY <1>1, <1>2 DEF TraceInv, Listed
  <1>14. ASSUME NEW i \in DOMAIN shelf
         PROVE  IF shelf[i].skill = k THEN Trace(shelf[i]) = t
                ELSE Trace(shelf[i]).verdict = "no-match"
    <2>1. CASE shelf[i].skill = k
      <3>1. shelf[i].source = s
        BY <1>1, <2>1 DEF StillListed
      <3>2. Trace(shelf[i]) = t
        BY <1>8, <1>11, <2>1, <3>1 DEF Trace
      <3> QED
        BY <2>1, <3>2
    <2>2. CASE shelf[i].skill # k
      <3>1. shelf[i].source \in Sources
        <4> DEFINE E == [skill : Skills, source : Sources]
        <4> HIDE DEF E
        <4>1. shelf \in Seq(E)
          BY DEF TraceInv, E
        <4>2. shelf[i] \in E
          BY <4>1
        <4> QED
          BY <4>2 DEF E
      <3>2. shelf[i].source.marks \in Seq(Seq(Phrases))
        BY <1>5, <3>1 DEF IsSource
      <3>3. ASSUME NEW q \in Document PROVE q \in Options(s) \cup s.text
        <4>1. CASE q \in s.text
          BY <4>1
        <4>2. CASE q \notin s.text
          <5>1. PICK j \in leak.kept : q = Rendered(s, fp)[j]
            BY <1>7, <4>2 DEF ShownOf
          <5>2. j \in DOMAIN s.marks /\ q = s.marks[j][Picked(s, fp, j)]
            BY <1>2, <5>1 DEF Rendered, Selection
          <5>3. Picked(s, fp, j) \in DOMAIN s.marks[j]
            BY <1>4, <1>6, <5>2, OwnPicked
          <5> QED
            BY <5>2, <5>3 DEF Options, ToSet
        <4> QED
          BY <4>1, <4>2
      <3>4. \A p \in Options(shelf[i].source), q \in Document : Distinct(p, q)
        BY <1>1, <2>2, <3>3 DEF StillListed
      <3>5. TraceCanary(Document, shelf[i].source,
                         [o \in Candidates(shelf[i].skill) |-> orders[o].fp]).verdict = "no-match"
        BY <3>2, <3>4, OtherTrace
      <3> QED
        BY <2>2, <3>5 DEF Trace
    <2> QED
      BY <2>1, <2>2
  <1>15. Evidence = IF t.verdict = "no-match" THEN NoEvidence ELSE t
    <2>1. t.verdict \in {"identified", "inconclusive", "insufficient-evidence", "no-match"}
      BY <1>12
    <2>2. Candidates(k) # {}
      BY <1>9
    <2> DEFINE E == [skill : Skills, source : Sources]
    <2> HIDE DEF E
    <2>3. shelf \in Seq(E)
      BY DEF TraceInv, E
    <2> QED
      BY <1>13, <1>14, <2>1, <2>2, <2>3, EvidenceOfOne
  <1>16. NoEvidence.verdict = "no-match"
    BY DEF NoEvidence
  <1>17. Evidence.verdict = "identified" => Evidence.consistent = {mine}
    BY <1>12, <1>15, <1>16
  <1>18. ASSUME Cardinality(leak.kept) >= 3
         PROVE  /\ Evidence.consistent = same
                /\ Evidence.verdict =
                      IF Cardinality(same) = 1 THEN "identified" ELSE "inconclusive"
    <2>1. leak.kept # {}
      BY <1>18, FS_EmptySet
    <2> QED
      BY <1>12, <1>15, <1>18, <2>1
  <1>19. same = {o \in Candidates(k) : \A i \in leak.kept :
                    Picked(s, orders[o].fp, i) = Picked(s, fp, i)}
    <2>1. \A o \in Candidates(k) : fpOf[o] = orders[o].fp
      BY <1>8
    <2> QED
      BY <1>9, <1>10, <2>1
  <1> QED
    BY <1>1, <1>17, <1>18, <1>19

(* NamesOnlyTheLeaker, for any number of skills, orders, slots and options: *)
(* traceCanary names a buyer of a legible source still listed only if it    *)
(* is the one whose copy leaked.                                            *)
THEOREM OnlyTheLeakerIsNamed == TracingSpec => []NamesOnlyTheLeaker
  <1>1. TraceInv => NamesOnlyTheLeaker
    BY LeakTraced DEF NamesOnlyTheLeaker
  <1> QED
    BY <1>1, Traceable, PTL

(* EnoughIsTraced: with MIN_OBSERVED_SLOTS marks left, POST /api/trace      *)
(* answers with exactly the orders that were given the same wording there.  *)
THEOREM EnoughWordingIsTraced == TracingSpec => []EnoughIsTraced
  <1>1. TraceInv => EnoughIsTraced
    BY LeakTraced DEF EnoughIsTraced, MIN_OBSERVED_SLOTS
  <1> QED
    BY <1>1, Traceable, PTL

-----------------------------------------------------------------------------
(* The covert channel *)

(* An increasing choice of m places for n. *)
Ascends(h, n, m) ==
    /\ h \in [1..n -> 1..m]
    /\ \A i, j \in 1..n : i < j => h[i] < h[j]

(* The elements of r are those of z at such places. *)
LeftOf(r, z, m) ==
    \E h \in [1..Len(r) -> 1..m] :
        Ascends(h, Len(r), m) /\ \A i \in 1..Len(r) : r[i] = z[h[i]]

(* The recursion in Remains. *)
Loses(f, z, n) ==
    f = [i \in 0..n |-> IF i = 0 THEN {<<>>}
                        ELSE f[i - 1] \cup {Append(r, z[i]) : r \in f[i - 1]}]

(* What laundering leaves is in order. *)
LEMMA RemainsInOrder ==
    ASSUME NEW E, NEW z \in Seq(E), NEW r \in Remains(z)
    PROVE  r \in Seq(E) /\ LeftOf(r, z, Len(z))
  <1> DEFINE n == Len(z)
             D == SUBSET Seq(E)
             step == [x \in D \X E |-> x[1] \cup {Append(q, x[2]) : q \in x[1]}]
  <1>1. step \in [D \X E -> D]
    OBVIOUS
  <1>2. PICK f \in [0..n -> D] : Along(f, {<<>>}, step, z, n)
    <2> HIDE DEF step, D
    <2>1. {<<>>} \in D
      BY DEF D
    <2> QED
      BY <1>1, <2>1, AlongExists
  <1>3. ASSUME NEW i \in 0..n, i # 0
        PROVE  step[<<f[i - 1], z[i]>>] = f[i - 1] \cup {Append(q, z[i]) : q \in f[i - 1]}
    <2> HIDE DEF D
    <2>1. f[i - 1] \in D /\ z[i] \in E
      BY <1>2, <1>3
    <2> QED
      BY <2>1
  <1> HIDE DEF step
  <1>4. Loses(f, z, n)
    BY <1>2, <1>3 DEF Along, Loses
  <1> DEFINE g == CHOOSE g : Loses(g, z, n)
  <1>5. Loses(g, z, n)
    BY <1>4, Zenon
  <1>6. Remains(z) = g[n]
    BY Zenon DEF Remains, Loses
  <1> HIDE DEF g
  <1>7. \A i \in 0..n : g[i] = IF i = 0 THEN {<<>>}
                               ELSE g[i - 1] \cup {Append(q, z[i]) : q \in g[i - 1]}
    BY <1>5 DEF Loses
  <1> DEFINE T == {m \in Nat : m <= n => \A q \in g[m] : q \in Seq(E) /\ LeftOf(q, z, m)}
  <1>8. 0 \in T
    <2>1. g[0] = {<<>>}
      <3>1. 0 \in 0..n
        OBVIOUS
      <3> QED
        BY <1>7, <3>1
    <2>2. LeftOf(<<>>, z, 0)
      <3> DEFINE h == [i \in 1..0 |-> 0]
      <3>1. h \in [1..Len(<<>>) -> 1..0] /\ Ascends(h, Len(<<>>), 0)
        BY DEF Ascends
      <3> QED
        BY <3>1 DEF LeftOf
    <2> QED
      BY <2>1, <2>2
  <1>9. ASSUME NEW m \in Nat, m \in T PROVE m + 1 \in T
    <2> SUFFICES ASSUME m + 1 <= n, NEW q \in g[m + 1]
                 PROVE  q \in Seq(E) /\ LeftOf(q, z, m + 1)
      OBVIOUS
    <2>1. g[m + 1] = g[m] \cup {Append(u, z[m + 1]) : u \in g[m]}
      <3>1. m + 1 \in 0..n /\ m + 1 # 0 /\ (m + 1) - 1 = m
        OBVIOUS
      <3> QED
        BY <1>7, <3>1
    <2>2. PICK u \in g[m] : q = u \/ q = Append(u, z[m + 1])
      BY <2>1
    <2>3. u \in Seq(E) /\ LeftOf(u, z, m) /\ z[m + 1] \in E
      BY <1>9
    <2>4. PICK h \in [1..Len(u) -> 1..m] :
              Ascends(h, Len(u), m) /\ \A i \in 1..Len(u) : u[i] = z[h[i]]
      BY <2>3 DEF LeftOf
    <2>5. Len(u) \in Nat
      BY <2>3
    <2>6. CASE q = u
      <3>1. h \in [1..Len(q) -> 1..(m + 1)] /\ Ascends(h, Len(q), m + 1)
        BY <2>4, <2>5, <2>6 DEF Ascends
      <3> QED
        BY <2>3, <2>4, <2>6, <3>1 DEF LeftOf
    <2>7. CASE q = Append(u, z[m + 1])
      <3> DEFINE k == Len(u)
                 e == [i \in 1..(k + 1) |-> IF i <= k THEN h[i] ELSE m + 1]
      <3>1. q \in Seq(E) /\ Len(q) = k + 1
        BY <2>3, <2>7
      <3>2. \A i \in 1..k : q[i] = u[i]
        BY <2>3, <2>7
      <3>3. q[k + 1] = z[m + 1]
        BY <2>3, <2>7
      <3>4. \A i \in 1..k : h[i] \in 1..m
        BY <2>4
      <3>5. Ascends(e, k + 1, m + 1)
        <4>1. \A i, j \in 1..k : i < j => h[i] < h[j]
          BY <2>4 DEF Ascends
        <4>2. e \in [1..(k + 1) -> 1..(m + 1)]
          BY <2>5, <3>4
        <4>3. ASSUME NEW i \in 1..(k + 1), NEW j \in 1..(k + 1), i < j PROVE e[i] < e[j]
          <5>1. i \in 1..k /\ e[i] = h[i] /\ h[i] <= m
            BY <2>5, <3>4, <4>3
          <5>2. CASE j = k + 1
            BY <2>5, <5>1, <5>2
          <5>3. CASE j # k + 1
            BY <2>5, <4>1, <4>3, <5>1, <5>3
          <5> QED
            BY <5>2, <5>3
        <4> QED
          BY <4>2, <4>3 DEF Ascends
      <3>6. \A i \in 1..(k + 1) : q[i] = z[e[i]]
        BY <2>4, <2>5, <3>2, <3>3
      <3>7. e \in [1..Len(q) -> 1..(m + 1)] /\ Ascends(e, Len(q), m + 1)
        BY <3>1, <3>5 DEF Ascends
      <3> HIDE DEF e
      <3> QED
        BY <3>1, <3>6, <3>7 DEF LeftOf
    <2> QED
      BY <2>2, <2>6, <2>7
  <1> HIDE DEF T
  <1>10. Nat \subseteq T
    BY <1>8, <1>9, NatSetInduction
  <1>11. n \in T
    BY <1>10
  <1> QED
    BY <1>6, <1>11 DEF T

(* Places that ascend are as far apart as what they are for. *)
LEMMA FarApart ==
    ASSUME NEW n \in Nat, NEW m \in Nat, NEW h, Ascends(h, n, m),
           NEW i \in 1..n, NEW j \in 1..n, i <= j
    PROVE  h[j] - h[i] >= j - i /\ h[i] \in 1..m /\ h[j] \in 1..m
  <1> DEFINE T == {d \in Nat : i + d <= n => h[i + d] - h[i] >= d}
  <1>1. \A k \in 1..n : h[k] \in 1..m
    BY DEF Ascends
  <1>2. 0 \in T
    BY <1>1
  <1>3. ASSUME NEW d \in Nat, d \in T PROVE d + 1 \in T
    <2> SUFFICES ASSUME i + (d + 1) <= n PROVE h[i + (d + 1)] - h[i] >= d + 1
      OBVIOUS
    <2>1. i + d \in 1..n /\ i + (d + 1) \in 1..n /\ i + d < i + (d + 1)
      OBVIOUS
    <2>2. h[i + d] < h[i + (d + 1)]
      BY <2>1 DEF Ascends
    <2>3. h[i + d] - h[i] >= d
      BY <1>3, <2>1
    <2> QED
      BY <1>1, <2>1, <2>2, <2>3
  <1> HIDE DEF T
  <1>4. Nat \subseteq T
    BY <1>2, <1>3, NatSetInduction
  <1>5. j - i \in T
    BY <1>4
  <1>6. h[j] - h[i] >= j - i
    BY <1>5 DEF T
  <1> QED
    BY <1>1, <1>6

(* What was embedded: the sentinels, and the bits between them. *)
Payload(z, P, fp) ==
    /\ P \in Nat \ {0} /\ P + FingerprintBits + 1 <= Len(z)
    /\ \A p \in 1..Len(z) : z[p] = MARK <=> p = P \/ p = P + FingerprintBits + 1
    /\ \A k \in 1..FingerprintBits : z[P + k] = fp[k]

LEMMA EmbeddedPayload ==
    ASSUME NEW s \in Sources, Unmarked(s), NEW fp \in Fingerprints
    PROVE  /\ ZeroWidths(s, fp) \in Seq({0, 1, MARK})
           /\ \E P \in Nat : Payload(ZeroWidths(s, fp), P, fp)
  <1> DEFINE A == Hidden[s].before
             C == Hidden[s].after
             N == FingerprintBits
             B == {0, 1, MARK}
             z == ZeroWidths(s, fp)
  <1>1. A \in Seq(B) /\ C \in Seq(B)
    BY HiddenAssumption DEF Hiding
  <1>2. N \in Nat
    BY FingerprintBitsAssumption
  <1>3. fp \in Seq(B) /\ Len(fp) = N /\ \A k \in 1..N : fp[k] \in {0, 1}
    BY <1>2 DEF Fingerprints
  <1>4. /\ \A p \in 1..Len(A) : A[p] # MARK
        /\ \A p \in 1..Len(C) : C[p] # MARK
    BY <1>1 DEF Unmarked, ToSet
  <1>5. PICK w : w = ToZeroWidth(fp)
    OBVIOUS
  <1>6. /\ w \in Seq(B) /\ Len(w) = N + 2 /\ w[1] = MARK /\ w[N + 2] = MARK
        /\ \A k \in 1..N : w[1 + k] = fp[k]
    <2>1. <<MARK>> \in Seq(B) /\ Len(<<MARK>>) = 1 /\ <<MARK>>[1] = MARK
      OBVIOUS
    <2> DEFINE v == <<MARK>> \o fp
    <2> HIDE DEF B
    <2>2. v \in Seq(B) /\ Len(v) = N + 1 /\ v[1] = MARK /\ \A k \in 1..N : v[1 + k] = fp[k]
      BY <1>2, <1>3, <2>1
    <2> HIDE DEF v
    <2>3. w = v \o <<MARK>>
      BY <1>5 DEF ToZeroWidth, v
    <2> QED
      BY <1>2, <2>1, <2>2, <2>3
  <1>7. z = (A \o w) \o C
    BY <1>5 DEF ZeroWidths
  <1> HIDE DEF A, B, C, z
  <1> DEFINE y == A \o w
  <1>8. /\ y \in Seq(B) /\ Len(y) = Len(A) + N + 2
        /\ \A p \in 1..Len(A) : y[p] = A[p]
        /\ \A k \in 1..(N + 2) : y[Len(A) + k] = w[k]
    BY <1>1, <1>2, <1>6
  <1> HIDE DEF y
  <1>9. z = y \o C
    BY <1>7 DEF y
  <1>10. /\ z \in Seq(B) /\ Len(z) = Len(y) + Len(C)
         /\ \A p \in 1..Len(y) : z[p] = y[p]
         /\ \A k \in 1..Len(C) : z[Len(y) + k] = C[k]
    <2>1. y \in Seq(B) /\ C \in Seq(B)
      BY <1>1, <1>8
    <2> QED
      BY <1>9, <2>1
  <1> DEFINE P == Len(A) + 1
  <1>11. Len(A) \in Nat /\ Len(C) \in Nat
    BY <1>1
  <1>12. P \in Nat \ {0} /\ P + N + 1 <= Len(z)
    BY <1>2, <1>8, <1>10, <1>11
  <1>13. ASSUME NEW k \in 1..N PROVE z[P + k] = fp[k] /\ z[P + k] # MARK
    <2>1. 1 + k \in 1..(N + 2) /\ Len(A) + (1 + k) = P + k /\ P + k \in 1..Len(y)
      BY <1>2, <1>8, <1>11
    <2>2. z[P + k] = y[P + k] /\ y[P + k] = w[1 + k]
      BY <1>8, <1>10, <2>1
    <2>3. w[1 + k] = fp[k] /\ fp[k] \in {0, 1}
      BY <1>3, <1>6
    <2> QED
      BY <2>2, <2>3 DEF MARK
  <1>14. ASSUME NEW p \in 1..Len(z) PROVE z[p] = MARK <=> p = P \/ p = P + N + 1
    <2>1. CASE p \in 1..Len(A)
      <3>1. z[p] = A[p] /\ p # P /\ p # P + N + 1
        BY <1>2, <1>8, <1>10, <1>11, <2>1
      <3> QED
        BY <1>4, <2>1, <3>1
    <2>2. CASE p = P \/ p = P + N + 1
      <3>1. PICK k \in {1, N + 2} : p = Len(A) + k
        BY <1>2, <1>11, <2>2
      <3>2. k \in 1..(N + 2) /\ p \in 1..Len(y)
        BY <1>2, <1>8, <1>11, <3>1
      <3>3. z[p] = y[p] /\ y[p] = w[k]
        BY <1>8, <1>10, <3>1, <3>2
      <3> QED
        BY <1>6, <2>2, <3>1, <3>3
    <2>3. CASE p \in (P + 1)..(P + N)
      <3>1. p - P \in 1..N /\ p = P + (p - P) /\ p # P /\ p # P + N + 1
        BY <1>2, <1>11, <2>3
      <3> QED
        BY <1>13, <3>1
    <2>4. CASE p > P + N + 1
      <3>1. p - Len(y) \in 1..Len(C) /\ p = Len(y) + (p - Len(y)) /\ p # P
        BY <1>2, <1>8, <1>10, <1>11, <2>4
      <3>2. z[p] = C[p - Len(y)]
        BY <1>10, <3>1
      <3>3. C[p - Len(y)] # MARK
        BY <1>4, <3>1
      <3> QED
        BY <1>2, <1>11, <2>4, <3>1, <3>2, <3>3
    <2> QED
      BY <1>2, <1>11, <2>1, <2>2, <2>3, <2>4
  <1> QED
    BY <1>10, <1>12, <1>13, <1>14 DEF Payload, B, z

(* Two sentinels that are left are the embedded ones; if as many bits are   *)
(* between them as were embedded, these are the embedded bits.              *)
LEMMA BetweenSentinels ==
    ASSUME NEW z, Len(z) \in Nat, NEW P, NEW fp \in Fingerprints, Payload(z, P, fp),
           NEW r, Len(r) \in Nat, NEW h, Ascends(h, Len(r), Len(z)),
           \A i \in 1..Len(r) : r[i] = z[h[i]],
           NEW a \in 1..Len(r), NEW b \in 1..Len(r), a < b, r[a] = MARK, r[b] = MARK
    PROVE  /\ h[a] = P /\ h[b] = P + FingerprintBits + 1
           /\ b = a + FingerprintBits + 1 => \A k \in 1..FingerprintBits : r[a + k] = fp[k]
  <1> DEFINE N == FingerprintBits
  <1>1. N \in Nat /\ P \in Nat
    BY FingerprintBitsAssumption DEF Payload
  <1>2. \A i \in 1..Len(r) : h[i] \in 1..Len(z)
    BY DEF Ascends
  <1>3. h[a] < h[b]
    BY DEF Ascends
  <1>4. \A i \in 1..Len(r) : r[i] = MARK => h[i] = P \/ h[i] = P + N + 1
    BY <1>2 DEF Payload
  <1>5. h[a] = P /\ h[b] = P + N + 1
    BY <1>1, <1>2, <1>3, <1>4
  <1>6. ASSUME b = a + N + 1, NEW k \in 1..N PROVE r[a + k] = fp[k]
    <2>1. a + k \in 1..Len(r) /\ a <= a + k /\ a + k <= b
      BY <1>1, <1>6
    <2>2. h[a + k] - h[a] >= (a + k) - a /\ h[b] - h[a + k] >= b - (a + k)
      BY <2>1, FarApart
    <2>3. PICK x : x = h[a + k]
      OBVIOUS
    <2>4. x \in Nat /\ x - P >= k /\ P + N + 1 - x >= N + 1 - k
      <3>1. (a + k) - a = k /\ b - (a + k) = N + 1 - k
        BY <1>1, <1>6
      <3>2. x \in 1..Len(z)
        BY <1>2, <2>1, <2>3
      <3> QED
        BY <1>1, <1>5, <1>6, <2>2, <2>3, <3>1, <3>2
    <2>5. x = P + k
      BY <1>1, <2>4
    <2>6. r[a + k] = z[P + k]
      BY <2>1, <2>3, <2>5
    <2> QED
      BY <1>6, <2>6 DEF Payload
  <1> QED
    BY <1>5, <1>6

(* What the covert channel reads of what is left of a payload. *)
LEMMA CovertReads ==
    ASSUME NEW s \in Sources, Unmarked(s), NEW fp \in Fingerprints,
           NEW r \in Remains(ZeroWidths(s, fp))
    PROVE  /\ Covert(r) \cap Fingerprints \subseteq {fp}
           /\ Intact(r, fp) => Covert(r) = {fp}
           /\ Cardinality({i \in DOMAIN r : r[i] = MARK}) < 2 => Covert(r) = {}
  <1> DEFINE N == FingerprintBits
             E == {0, 1, MARK}
  <1>1. PICK z : z = ZeroWidths(s, fp)
    OBVIOUS
  <1>2. z \in Seq(E) /\ Len(z) \in Nat /\ \E P \in Nat : Payload(z, P, fp)
    BY <1>1, EmbeddedPayload
  <1>3. PICK P \in Nat : Payload(z, P, fp)
    BY <1>2
  <1>4. r \in Seq(E) /\ LeftOf(r, z, Len(z))
    BY <1>1, <1>2, RemainsInOrder
  <1>5. PICK h : Ascends(h, Len(r), Len(z)) /\ \A i \in 1..Len(r) : r[i] = z[h[i]]
    BY <1>4 DEF LeftOf
  <1>6. N \in Nat \ {0} /\ N % 4 = 0 /\ Len(r) \in Nat /\ DOMAIN r = 1..Len(r)
    BY <1>4, FingerprintBitsAssumption, DigitsAssumption
  <1>7. fp \in [1..N -> {0, 1}] /\ fp \in Seq(E) /\ Len(fp) = N
    BY <1>6 DEF Fingerprints
  <1>8. ASSUME NEW a \in 1..Len(r), NEW b \in 1..Len(r), a < b, r[a] = MARK, r[b] = MARK
        PROVE  /\ h[a] = P /\ h[b] = P + N + 1
               /\ b = a + N + 1 => \A k \in 1..N : r[a + k] = fp[k]
    <2>1. Len(z) \in Nat /\ Len(r) \in Nat
      BY <1>2, <1>6
    <2>2. \A i \in 1..Len(r) : r[i] = z[h[i]]
      BY <1>5
    <2> QED
      BY <1>3, <1>5, <1>8, <2>1, <2>2, BetweenSentinels
  <1>9. ASSUME NEW a \in 1..Len(r), NEW b \in 1..Len(r), a < b
        PROVE  /\ SubSeq(r, a + 1, b - 1) \in Seq(E)
               /\ Len(SubSeq(r, a + 1, b - 1)) = b - a - 1
               /\ \A k \in 1..(b - a - 1) : SubSeq(r, a + 1, b - 1)[k] = r[a + k]
    <2>1. /\ a + 1 \in 1..(Len(r) + 1) /\ b - 1 \in 0..Len(r) /\ b - 1 - (a + 1) + 1 = b - a - 1
          /\ b - a - 1 \in Nat
      BY <1>6, <1>9
    <2>2. SubSeq(r, a + 1, b - 1) = [k \in 1..(b - a - 1) |-> r[a + k]]
      <3>1. \A k \in 1..(b - a - 1) : (a + 1) + k - 1 = a + k
        BY <1>6
      <3> QED
        BY <1>4, <1>6, <1>9, <2>1, <3>1
    <2>3. \A k \in 1..(b - a - 1) : a + k \in 1..Len(r)
      BY <1>6, <1>9
    <2>4. \A k \in 1..(b - a - 1) : r[a + k] \in E
      BY <1>4, <1>6, <2>3
    <2> HIDE DEF E
    <2> QED
      BY <2>1, <2>2, <2>4
  <1>10. ASSUME NEW a \in 1..Len(r), NEW b \in 1..Len(r), a < b, r[a] = MARK, r[b] = MARK,
                b = a + N + 1
         PROVE  SubSeq(r, a + 1, b - 1) = fp
    <2>1. \A k \in 1..N : r[a + k] = fp[k]
      BY <1>8, <1>10
    <2>2. b - a - 1 = N
      BY <1>6, <1>10
    <2>3. /\ SubSeq(r, a + 1, b - 1) \in Seq(E) /\ Len(SubSeq(r, a + 1, b - 1)) = N
          /\ \A k \in 1..N : SubSeq(r, a + 1, b - 1)[k] = fp[k]
      BY <1>9, <1>10, <2>1, <2>2
    <2> HIDE DEF E
    <2> QED
      BY <1>6, <1>7, <2>3
  <1>11. ASSUME NEW x \in Covert(r)
         PROVE  \E p \in Sentinels(r) : x = SubSeq(r, p[1] + 1, p[2] - 1)
    <2>1. PICK p \in Sentinels(r) : x \in FromZeroWidth(SubSeq(r, p[1] + 1, p[2] - 1))
      BY <1>11 DEF Covert
    <2>2. x = SubSeq(r, p[1] + 1, p[2] - 1)
      BY <2>1 DEF FromZeroWidth
    <2> QED
      BY <2>2
  <1>12. ASSUME NEW p \in Sentinels(r)
         PROVE  /\ p[1] \in 1..Len(r) /\ p[2] \in 1..Len(r) /\ p[1] < p[2]
                /\ r[p[1]] = MARK /\ r[p[2]] = MARK
    BY <1>6, <1>12 DEF Sentinels
  <1> HIDE DEF E
  <1>13. ASSUME NEW x \in Covert(r) \cap Fingerprints PROVE x = fp
    <2>1. PICK p \in Sentinels(r) : x = SubSeq(r, p[1] + 1, p[2] - 1)
      BY <1>11, <1>13
    <2>2. x \in [1..N -> {0, 1}] /\ Len(x) = p[2] - p[1] - 1
      BY <1>9, <1>12, <1>13, <2>1 DEF Fingerprints
    <2>3. Len(x) = N
      BY <1>6, <2>2
    <2>4. p[2] = p[1] + N + 1
      BY <1>6, <1>12, <2>2, <2>3
    <2> QED
      BY <1>10, <1>12, <2>1, <2>4
  <1>14. ASSUME Intact(r, fp) PROVE Covert(r) = {fp}
    <2>1. PICK i \in 1..(Len(r) - N - 1) : SubSeq(r, i, i + N + 1) = ToZeroWidth(fp)
      BY <1>14 DEF Intact
    <2> DEFINE b == i + N + 1
               w == ToZeroWidth(fp)
    <2>2. i \in 1..Len(r) /\ b \in 1..Len(r) /\ i < b
      BY <1>6
    <2>3. Len(w) = N + 2 /\ w[1] = MARK /\ w[N + 2] = MARK
      BY <1>6, <1>7 DEF ToZeroWidth, E
    <2>4. w = [k \in 1..(N + 2) |-> r[i + k - 1]]
      <3>1. b - i + 1 = N + 2
        BY <1>6
      <3> QED
        BY <1>4, <1>6, <2>1, <2>2, <3>1
    <2> HIDE DEF w
    <2>5. r[i] = MARK /\ r[b] = MARK
      <3>1. 1 \in 1..(N + 2) /\ N + 2 \in 1..(N + 2) /\ i + 1 - 1 = i /\ i + (N + 2) - 1 = b
        BY <1>6
      <3> QED
        BY <2>3, <2>4, <3>1
    <2>6. h[i] = P /\ h[b] = P + N + 1
      BY <1>8, <2>2, <2>5
    <2>7. ASSUME NEW j \in 1..Len(r), r[j] = MARK PROVE j = i \/ j = b
      <3>1. h[j] \in 1..Len(z) /\ (h[j] = P \/ h[j] = P + N + 1)
        BY <1>3, <1>5, <2>7 DEF Payload, Ascends
      <3>2. \A x, y \in 1..Len(r) : x < y => h[x] < h[y]
        BY <1>5 DEF Ascends
      <3>3. \A x \in 1..Len(r) : h[x] \in Nat
        BY <1>5 DEF Ascends
      <3> QED
        BY <1>6, <2>2, <2>6, <3>1, <3>2, <3>3
    <2>8. Sentinels(r) = {<<i, b>>}
      <3>1. ASSUME NEW p \in Sentinels(r) PROVE p = <<i, b>>
        <4>1. p \in (DOMAIN r) \X (DOMAIN r)
          BY <3>1 DEF Sentinels
        <4> QED
          BY <1>6, <1>12, <2>2, <2>7, <4>1
      <3>2. <<i, b>> \in Sentinels(r)
        <4>1. \A j \in 1..(b - 1) : r[j] = MARK => j = i
          BY <1>6, <2>2, <2>7
        <4> QED
          BY <1>6, <2>2, <2>5, <4>1 DEF Sentinels
      <3> QED
        BY <3>1, <3>2
    <2>9. SubSeq(r, i + 1, b - 1) = fp
      BY <1>10, <2>2, <2>5
    <2>10. FromZeroWidth(fp) = {fp}
      BY <1>6, <1>7 DEF FromZeroWidth
    <2> HIDE DEF b
    <2>11. PICK p : p = <<i, b>>
      OBVIOUS
    <2>12. Covert(r) = FromZeroWidth(SubSeq(r, p[1] + 1, p[2] - 1))
      BY <2>8, <2>11, Zenon DEF Covert
    <2>13. p[1] = i /\ p[2] = b
      BY <2>11
    <2> QED
      BY <2>9, <2>10, <2>12, <2>13
  <1>15. ASSUME Cardinality({i \in DOMAIN r : r[i] = MARK}) < 2 PROVE Covert(r) = {}
    <2> SUFFICES ASSUME NEW x \in Covert(r) PROVE FALSE
      OBVIOUS
    <2>1. PICK p \in Sentinels(r) : x = SubSeq(r, p[1] + 1, p[2] - 1)
      BY <1>11
    <2> DEFINE M == {i \in DOMAIN r : r[i] = MARK}
    <2>2. p[1] \in M /\ p[2] \in M /\ p[1] # p[2]
      BY <1>6, <1>12
    <2>3. IsFiniteSet(M)
      <3>1. IsFiniteSet(1..Len(r))
        BY <1>6, FS_Interval
      <3> QED
        BY <1>6, <3>1, FS_Subset
    <2>4. Cardinality(M) \in Nat /\ Cardinality(M \ {p[1]}) \in Nat
          /\ Cardinality(M \ {p[1]}) = Cardinality(M) - 1
      BY <2>2, <2>3, FS_RemoveElement, FS_CardinalityType
    <2>5. Cardinality(M \ {p[1]}) # 0
      <3>1. IsFiniteSet(M \ {p[1]}) /\ M \ {p[1]} # {}
        BY <2>2, <2>3, FS_Subset
      <3> QED
        BY <3>1, FS_EmptySet
    <2> HIDE DEF M
    <2>6. Cardinality(M) < 2
      BY <1>15 DEF M
    <2> QED
      BY <2>4, <2>5, <2>6
  <1> QED
    BY <1>13, <1>14, <1>15

(* ChannelsNameTheLeaker, for fingerprints and author's characters of any   *)
(* length and any loss: POST /api/trace, which reads the covert channel     *)
(* before the license line, names nobody but the leaker by either, and does *)
(* name the leaker unless something was lost between two sentinels.         *)
THEOREM ChannelsTraceTheLeaker == TracingSpec => []ChannelsNameTheLeaker
  <1>1. TraceInv => ChannelsNameTheLeaker
    <2> SUFFICES ASSUME TraceInv, leak # NoLeak, Unmarked(leak.copy.source)
                 PROVE  /\ Match \subseteq {leak.copy.order}
                        /\ Intact(leak.zero, orders[leak.copy.order].fp)
                              => Match = {leak.copy.order}
                        /\ (leak.frontmatter
                            /\ Cardinality({i \in DOMAIN leak.zero : leak.zero[i] = MARK}) < 2)
                              => Match = {leak.copy.order}
      BY DEF ChannelsNameTheLeaker
    <2> DEFINE mine == leak.copy.order
               fp   == orders[mine].fp
               read == IF Covert(leak.zero) # {} THEN Covert(leak.zero) ELSE Frontmatter
    <2>1. mine \in OnRecord /\ leak.copy.source \in Sources
      BY DEF TraceInv, Given
    <2>2. \A o \in OnRecord : orders[o].fp \in Fingerprints
      BY FingerprintedAssumption DEF TraceInv, OnRecord, Order
    <2>3. leak.zero \in Remains(ZeroWidths(leak.copy.source, fp))
      BY DEF TraceInv, LeftHidden
    <2>4. /\ Covert(leak.zero) \cap Fingerprints \subseteq {fp}
          /\ Intact(leak.zero, fp) => Covert(leak.zero) = {fp}
          /\ Cardinality({i \in DOMAIN leak.zero : leak.zero[i] = MARK}) < 2
                => Covert(leak.zero) = {}
      <3>1. fp \in Fingerprints
        BY <2>1, <2>2
      <3> HIDE DEF fp
      <3> QED
        BY <2>1, <2>3, <3>1, CovertReads
    <2>5. Match = {o \in OnRecord : orders[o].fp \in read}
      BY DEF Match
    <2>6. Frontmatter = IF leak.frontmatter THEN {fp} ELSE {}
      BY DEF Frontmatter
    <2>7. \A o \in OnRecord : orders[o].fp = fp => o = mine
      BY <2>1 DEF TraceInv
    <2>8. \A o \in OnRecord : orders[o].fp \in read => orders[o].fp = fp
      BY <2>2, <2>4, <2>6
    <2>9. Match \subseteq {mine}
      BY <2>5, <2>7, <2>8
    <2>10. read = {fp} => Match = {mine}
      BY <2>1, <2>5, <2>9
    <2>11. Intact(leak.zero, fp) => read = {fp}
      BY <2>4
    <2>12. leak.frontmatter /\ Covert(leak.zero) = {} => read = {fp}
      BY <2>6
    <2>13. Intact(leak.zero, fp) => Match = {mine}
      BY <2>10, <2>11
    <2>14. ASSUME leak.frontmatter, Cardinality({i \in DOMAIN leak.zero : leak.zero[i] = MARK}) < 2
           PROVE  Match = {mine}
      <3>1. Covert(leak.zero) = {}
        BY <2>4, <2>14
      <3> HIDE DEF mine, read
      <3> QED
        BY <2>10, <2>12, <2>14, <3>1
    <2> QED
      BY <2>9, <2>13, <2>14
  <1> QED
    BY <1>1, Traceable, PTL
=============================================================================
