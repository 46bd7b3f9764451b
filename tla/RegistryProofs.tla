--------------------------- MODULE RegistryProofs ---------------------------
(***************************************************************************)
(* Theorems about Registry, for every set of packages, buyers, codes and   *)
(* overlapping publications: the listing behaves as the abstract catalogue, *)
(* what was listed climbs, and a mailed code mints at most one token.      *)
(***************************************************************************)
EXTENDS Registry, WellFoundedInduction, TLAPS

(* A code that can still be redeemed has not been. *)
FreshIsUnused == \A c \in Codes : activations[c].fresh => redeemed[c] = 0

(* What a handler awaiting the scanner submitted is a package. *)
SubmittedPackage ==
    \A r \in Submissions : publishing[r] # NoSubmission => publishing[r].package \in Packages

(* The inductive invariant *)
RegistryInv == TypeOK /\ FreshIsUnused /\ SubmittedPackage /\ OneTokenPerCode

-----------------------------------------------------------------------------
LEMMA InitHolds == Init => RegistryInv
  <1> SUFFICES ASSUME Init PROVE RegistryInv
    OBVIOUS
  <1> USE DEF Init
  <1>1. TypeOK
    <2>1. history \in Seq(SemVersions) /\ drawn \in 0..MaxPublications
      BY MaxPublicationsAssumption
    <2>2. publishing \in [Submissions -> [package : Packages \cup {NoPackage}, scorecard : Scorecards]]
      BY DEF NoSubmission, Scorecards
    <2>3. activations \in [Codes -> [email : Buyers \cup {Nobody}, fresh : BOOLEAN]]
      BY DEF NoCode
    <2>4. skill \in Listings \cup {NoListing} /\ held \in [Buyers -> Listings \cup {NoListing}]
      OBVIOUS
    <2>5. orders \in [OrderIds -> Orders \cup {NoOrder}] /\ tokens \in [Tokens -> Buyers \cup {Nobody}]
      OBVIOUS
    <2>6. redeemed \in [Codes -> Nat]
      OBVIOUS
    <2> QED
      BY <2>1, <2>2, <2>3, <2>4, <2>5, <2>6 DEF TypeOK
  <1>2. FreshIsUnused /\ SubmittedPackage /\ OneTokenPerCode
    BY DEF FreshIsUnused, SubmittedPackage, OneTokenPerCode, NoCode
  <1> QED
    BY <1>1, <1>2 DEF RegistryInv

LEMMA BeginPublishKeeps ==
    ASSUME RegistryInv, NEW r \in Submissions, BeginPublish(r) PROVE RegistryInv'
  <1> USE DEF RegistryInv, BeginPublish, catalogue, access
  <1>1. PICK p \in Packages, s \in Scorecards :
            publishing' = [publishing EXCEPT ![r] = [package |-> p, scorecard |-> s]]
    OBVIOUS
  <1>2. TypeOK'
    BY <1>1 DEF TypeOK
  <1>3. SubmittedPackage'
    BY <1>1 DEF SubmittedPackage, TypeOK
  <1>4. FreshIsUnused' /\ OneTokenPerCode'
    BY DEF FreshIsUnused, OneTokenPerCode
  <1> QED
    BY <1>2, <1>3, <1>4

(* The rest of the publish handlers: the listing and its history stay typed. *)
LEMMA FinishPublishKeeps ==
    ASSUME RegistryInv, NEW r \in Submissions, FinishPublish(r) PROVE RegistryInv'
  <1> DEFINE p == publishing[r].package
  <1> USE DEF RegistryInv, FinishPublish, access
  <1>1. p \in Packages
    BY DEF SubmittedPackage
  <1>2. skill' \in Listings /\ drawn' \in 0..MaxPublications
    BY <1>1, MaxPublicationsAssumption DEF TypeOK, Listings
  <1>3. history' \in Seq(SemVersions)
    <2>1. CASE skill = NoListing \/ p.version = skill.package.version
      BY <2>1 DEF NextHistory, TypeOK
    <2>2. CASE skill # NoListing
      <3>1. skill.package.version \in SemVersions
        BY <2>2, PackagesAssumption DEF TypeOK, Listings
      <3> QED
        BY <3>1 DEF NextHistory, TypeOK
    <2> QED
      BY <2>1, <2>2
  <1>4. publishing' \in [Submissions -> [package : Packages \cup {NoPackage}, scorecard : Scorecards]]
    BY DEF TypeOK, NoSubmission, Scorecards
  <1>5. TypeOK'
    BY <1>2, <1>3, <1>4 DEF TypeOK
  <1>6. SubmittedPackage'
    BY DEF SubmittedPackage, TypeOK
  <1>7. FreshIsUnused' /\ OneTokenPerCode'
    BY DEF FreshIsUnused, OneTokenPerCode
  <1> QED
    BY <1>5, <1>6, <1>7

LEMMA SubmissionsDropped ==
    ASSUME RegistryInv,
           (\E r \in Submissions : RefusePublish(r)) \/ Restart
    PROVE  RegistryInv'
  <1> USE DEF RegistryInv, catalogue, access
  <1>1. UNCHANGED <<catalogue, access, held>>
    BY DEF RefusePublish, Restart
  <1> DEFINE Submitted == [package : Packages \cup {NoPackage}, scorecard : Scorecards]
  <1>2. publishing' \in [Submissions -> Submitted]
    <2>1. NoSubmission \in Submitted
      BY DEF NoSubmission, Scorecards
    <2>2. publishing \in [Submissions -> Submitted]
      BY DEF TypeOK
    <2> QED
      BY <2>1, <2>2 DEF RefusePublish, Restart
  <1>3. SubmittedPackage'
    BY DEF SubmittedPackage, TypeOK, RefusePublish, Restart
  <1>4. TypeOK'
    BY <1>1, <1>2 DEF TypeOK
  <1>5. FreshIsUnused' /\ OneTokenPerCode'
    BY <1>1 DEF FreshIsUnused, OneTokenPerCode
  <1> QED
    BY <1>3, <1>4, <1>5

LEMMA LicensesKeep ==
    ASSUME RegistryInv,
           \/ \E b \in Buyers : Purchase(b)
           \/ \E o \in OrderIds : Revoke(o)
           \/ \E t \in Tokens : FetchBundle(t)
    PROVE  RegistryInv'
  <1> USE DEF RegistryInv, catalogue, access
  <1>1. UNCHANGED <<catalogue, publishing, activations, redeemed>>
    BY DEF Purchase, Revoke, FetchBundle
  <1>2. orders' \in [OrderIds -> Orders \cup {NoOrder}]
    <2>1. CASE \E b \in Buyers : Purchase(b)
      BY <2>1 DEF TypeOK, Purchase, Orders
    <2>2. ASSUME NEW o \in OrderIds, Revoke(o) PROVE orders' \in [OrderIds -> Orders \cup {NoOrder}]
      <3>1. orders[o] \in Orders
        BY <2>2 DEF TypeOK, Revoke
      <3>2. [orders[o] EXCEPT !.revoked = TRUE] \in Orders
        BY <3>1 DEF Orders
      <3> QED
        BY <2>2, <3>2 DEF TypeOK, Revoke
    <2>3. CASE \E t \in Tokens : FetchBundle(t)
      BY <2>3 DEF TypeOK, FetchBundle
    <2> QED
      BY <2>1, <2>2, <2>3
  <1>3. tokens' \in [Tokens -> Buyers \cup {Nobody}]
    BY DEF TypeOK, Purchase, Revoke, FetchBundle, Minted
  <1>4. held' \in [Buyers -> Listings \cup {NoListing}]
    BY DEF TypeOK, Purchase, Revoke, FetchBundle
  <1>5. TypeOK'
    BY <1>1, <1>2, <1>3, <1>4 DEF TypeOK
  <1>6. SubmittedPackage' /\ FreshIsUnused' /\ OneTokenPerCode'
    BY <1>1 DEF SubmittedPackage, FreshIsUnused, OneTokenPerCode
  <1> QED
    BY <1>5, <1>6

(* The life of a code: issued unused, lapsed, or consumed as it is redeemed. *)
LEMMA CodesKeep ==
    ASSUME RegistryInv, NEW c \in Codes,
           \/ \E b \in Buyers : StartActivation(b, c)
           \/ Lapse(c) \/ FinishActivation(c)
    PROVE  RegistryInv'
  <1> USE DEF RegistryInv, catalogue, NoCode
  <1>1. UNCHANGED <<catalogue, publishing, orders, held>>
    BY DEF StartActivation, Lapse, FinishActivation
  <1> DEFINE Activation == [email : Buyers \cup {Nobody}, fresh : BOOLEAN]
  <1>2. activations' \in [Codes -> Activation]
    <2>1. activations \in [Codes -> Activation] /\ NoCode \in Activation
      BY DEF TypeOK
    <2>2. ASSUME NEW b \in Buyers, StartActivation(b, c) PROVE activations' \in [Codes -> Activation]
      BY <2>1, <2>2 DEF StartActivation
    <2>3. CASE Lapse(c)
      <3>1. [activations[c] EXCEPT !.fresh = FALSE] \in Activation
        BY <2>1
      <3> QED
        BY <2>1, <2>3, <3>1 DEF Lapse
    <2>4. CASE FinishActivation(c)
      BY <2>1, <2>4 DEF FinishActivation, Consumed
    <2> QED
      BY <2>2, <2>3, <2>4
  <1>3. tokens' \in [Tokens -> Buyers \cup {Nobody}]
    BY DEF TypeOK, StartActivation, Lapse, FinishActivation, Minted
  <1>4. redeemed' \in [Codes -> Nat]
    BY DEF TypeOK, StartActivation, Lapse, FinishActivation
  <1>5. TypeOK'
    BY <1>1, <1>2, <1>3, <1>4 DEF TypeOK
  <1>6. SubmittedPackage'
    BY <1>1 DEF SubmittedPackage
  <1>7. FreshIsUnused' /\ OneTokenPerCode'
    <2>1. redeemed \in [Codes -> Nat] /\ activations \in [Codes -> Activation]
      BY DEF TypeOK
    <2>2. ASSUME NEW b \in Buyers, StartActivation(b, c) PROVE FreshIsUnused' /\ OneTokenPerCode'
      <3>1. \A d \in Codes : redeemed'[d] = IF d = c THEN 0 ELSE redeemed[d]
        BY <2>1, <2>2 DEF StartActivation
      <3>2. \A d \in Codes : d # c /\ activations'[d].fresh => activations[d].fresh
        BY <2>1, <2>2 DEF StartActivation
      <3> QED
        BY <3>1, <3>2 DEF FreshIsUnused, OneTokenPerCode
    <2>3. CASE Lapse(c)
      <3>1. redeemed' = redeemed /\ \A d \in Codes : activations'[d].fresh => activations[d].fresh
        BY <2>1, <2>3 DEF Lapse
      <3> QED
        BY <3>1 DEF FreshIsUnused, OneTokenPerCode
    <2>4. CASE FinishActivation(c)
      <3>1. redeemed[c] = 0
        BY <2>4 DEF FinishActivation, FreshIsUnused
      <3>2. \A d \in Codes : redeemed'[d] = IF d = c THEN 1 ELSE redeemed[d]
        BY <2>1, <2>4, <3>1 DEF FinishActivation
      <3>3. \A d \in Codes : activations'[d].fresh => d # c /\ activations[d].fresh
        BY <2>1, <2>4 DEF FinishActivation, Consumed
      <3> QED
        BY <3>2, <3>3 DEF FreshIsUnused, OneTokenPerCode
    <2> QED
      BY <2>2, <2>3, <2>4
  <1> QED
    BY <1>5, <1>6, <1>7

LEMMA StepKeeps == RegistryInv /\ [Next]_vars => RegistryInv'
  <1> SUFFICES ASSUME RegistryInv, [Next]_vars PROVE RegistryInv'
    OBVIOUS
  <1>1. ASSUME NEW r \in Submissions, BeginPublish(r) PROVE RegistryInv'
    BY <1>1, BeginPublishKeeps
  <1>2. ASSUME NEW r \in Submissions, FinishPublish(r) PROVE RegistryInv'
    BY <1>2, FinishPublishKeeps
  <1>3. CASE (\E r \in Submissions : RefusePublish(r)) \/ Restart
    BY <1>3, SubmissionsDropped
  <1>4. CASE \/ \E b \in Buyers : Purchase(b)
             \/ \E o \in OrderIds : Revoke(o)
             \/ \E t \in Tokens : FetchBundle(t)
    BY <1>4, LicensesKeep
  <1>5. ASSUME NEW c \in Codes,
               (\E b \in Buyers : StartActivation(b, c)) \/ Lapse(c) \/ FinishActivation(c)
        PROVE  RegistryInv'
    BY <1>5, CodesKeep
  <1>6. CASE UNCHANGED vars
    BY <1>6 DEF vars, catalogue, access, RegistryInv, TypeOK, FreshIsUnused, SubmittedPackage,
                OneTokenPerCode
  <1> QED
    BY <1>1, <1>2, <1>3, <1>4, <1>5, <1>6 DEF Next

LEMMA Invariance == Spec => []RegistryInv
  <1> QED
    BY InitHolds, StepKeeps, PTL DEF Spec

(* Every reachable state of the registry is typed.                          *)
THEOREM RegistryTypeCorrect == Spec => []TypeOK
  <1>1. RegistryInv => TypeOK
    BY DEF RegistryInv
  <1> QED
    BY <1>1, Invariance, PTL

(* A mailed activation code mints at most one token, however it is retried  *)
(* and whatever is issued, swept or lapses meanwhile.                       *)
THEOREM CodesServeOnce == Spec => []OneTokenPerCode
  <1>1. RegistryInv => OneTokenPerCode
    BY DEF RegistryInv
  <1> QED
    BY <1>1, Invariance, PTL

(* The listing is the abstract catalogue: whatever publications overlap     *)
(* around the scanner, it only moves to a higher version.                   *)
THEOREM ListingOnlyRises == Spec => ImplementsCatalogue
  <1>1. Init => Cat!Init
    BY DEF Init, Cat!Init, NoListing
  <1>2. RegistryInv /\ [Next]_vars => [Cat!Next]_(skill.package)
    <2> SUFFICES ASSUME RegistryInv, [Next]_vars, skill' # skill PROVE [Cat!Next]_(skill.package)
      OBVIOUS
    <2>1. PICK r \in Submissions : FinishPublish(r)
      BY DEF Next, vars, catalogue, access, BeginPublish, RefusePublish, Purchase, StartActivation,
             Revoke, Lapse, FinishActivation, FetchBundle, Restart
    <2> DEFINE p == publishing[r].package
    <2>2. p \in Packages /\ skill'.package = p
      BY <2>1 DEF RegistryInv, SubmittedPackage, FinishPublish
    <2>3. CASE SameContent(p)
      BY <2>2, <2>3 DEF SameContent
    <2>4. CASE Rises(p)
      <3>1. skill.package = NoPackage \/ GtSemver(p.version, skill.package.version)
        BY <2>4 DEF Rises, NoListing
      <3>2. Cat!Release(p)
        BY <2>2, <3>1 DEF Cat!Release
      <3> QED
        BY <2>2, <3>2 DEF Cat!Next
    <2> QED
      BY <2>1, <2>3, <2>4 DEF FinishPublish
  <1> QED
    BY <1>1, <1>2, Invariance, PTL DEF Spec, ImplementsCatalogue, Cat!Spec

-----------------------------------------------------------------------------
(* The order of versions *)

LEMMA LeastNatural ==
    ASSUME NEW T \in SUBSET Nat, T # {}
    PROVE  \E m \in T : \A k \in T : m <= k
  <1> DEFINE R == {ss \in Nat \X Nat : ss[1] < ss[2]}
  <1>1. R = OpToRel(<, Nat)
    BY DEF OpToRel
  <1>2. IsWellFoundedOn(R, Nat)
    BY <1>1, NatLessThanWellFounded
  <1>3. PICK m \in T : \A k \in T : ~ (<<k, m>> \in R)
    <2> HIDE DEF R
    <2> QED BY <1>2, WFMin
  <1>4. \A k \in T : ~ (k < m)
    BY <1>3
  <1> QED
    BY <1>4

(* FirstDifference finds the place of a first difference, if there is one.  *)
LEMMA FirstDifferenceFacts ==
    ASSUME NEW S, NEW s \in Seq(S), NEW t \in Seq(S)
    PROVE  LET d == FirstDifference(s, t)
           IN  \/ d = 0 /\ \A i \in DOMAIN s \cap DOMAIN t : s[i] = t[i]
               \/ d # 0 /\ DifferFirst(s, t, d)
  <1> DEFINE differ == {i \in DOMAIN s \cap DOMAIN t : s[i] # t[i]}
  <1>1. CASE differ = {}
    BY <1>1 DEF FirstDifference
  <1>2. CASE differ # {}
    <2>1. differ \in SUBSET Nat /\ 0 \notin differ
      OBVIOUS
    <2>2. \E i \in differ : \A j \in differ : i <= j
      BY <1>2, <2>1, LeastNatural
    <2> DEFINE d == CHOOSE i \in differ : \A j \in differ : i <= j
    <2>3. d \in differ /\ \A j \in differ : d <= j
      BY <2>2
    <2>4. FirstDifference(s, t) = d
      BY <1>2 DEF FirstDifference
    <2> HIDE DEF d
    <2>5. d \in Nat /\ d # 0
      BY <2>1, <2>3
    <2>6. \A k \in 1..(d - 1) : s[k] = t[k]
      <3> TAKE k \in 1..(d - 1)
      <3>1. k \in DOMAIN s \cap DOMAIN t
        BY <2>3, <2>5
      <3>2. k \notin differ
        BY <2>3, <2>5
      <3> QED
        BY <3>1, <3>2
    <2> QED
      BY <2>3, <2>4, <2>5, <2>6 DEF DifferFirst
  <1> QED
    BY <1>1, <1>2

(* There is at most one place where two sequences differ first. *)
LEMMA DifferFirstUnique ==
    ASSUME NEW S, NEW s \in Seq(S), NEW t \in Seq(S), NEW i, NEW j,
           DifferFirst(s, t, i), DifferFirst(s, t, j)
    PROVE  i = j
  <1>1. i \in Nat /\ j \in Nat /\ i >= 1 /\ j >= 1
    BY DEF DifferFirst
  <1>2. ~ (i < j) /\ ~ (j < i)
    BY <1>1 DEF DifferFirst
  <1> QED
    BY <1>1, <1>2

(* Two sequences agree wherever both have an element and have one length,   *)
(* so they are one.                                                        *)
LEMMA SameSequence ==
    ASSUME NEW S, NEW s \in Seq(S), NEW t \in Seq(S), Len(s) = Len(t),
           \A i \in DOMAIN s \cap DOMAIN t : s[i] = t[i]
    PROVE  s = t
  <1> QED
    OBVIOUS

LEMMA IdentifierFacts ==
    ASSUME NEW x \in Identifiers, NEW y \in Identifiers
    PROVE  /\ CmpIdentifier(x, y) > 0 <=> IdentifierPrecedes(y, x)
           /\ x = y \/ IdentifierPrecedes(x, y) \/ IdentifierPrecedes(y, x)
           /\ ~IdentifierPrecedes(x, x)
           /\ \A z \in Identifiers :
                 IdentifierPrecedes(x, y) /\ IdentifierPrecedes(y, z) => IdentifierPrecedes(x, z)
  <1>1. x.num \in BOOLEAN /\ y.num \in BOOLEAN /\ x.val \in Nat /\ y.val \in Nat
    BY DEF Identifiers
  <1>2. (x.num <=> y.num) /\ x.val = y.val => x = y
    BY DEF Identifiers
  <1>3. CmpIdentifier(x, y) > 0 <=> IdentifierPrecedes(y, x)
    BY <1>1 DEF CmpIdentifier, IdentifierPrecedes, Sign
  <1>4. x = y \/ IdentifierPrecedes(x, y) \/ IdentifierPrecedes(y, x)
    BY <1>1, <1>2 DEF IdentifierPrecedes
  <1>5. ~IdentifierPrecedes(x, x)
    BY <1>1 DEF IdentifierPrecedes
  <1>6. ASSUME NEW z \in Identifiers, IdentifierPrecedes(x, y), IdentifierPrecedes(y, z)
        PROVE  IdentifierPrecedes(x, z)
    <2>1. z.num \in BOOLEAN /\ z.val \in Nat
      BY DEF Identifiers
    <2> QED
      BY <1>1, <1>6, <2>1 DEF IdentifierPrecedes
  <1> QED
    BY <1>3, <1>4, <1>5, <1>6

(* Identifier by identifier, a sequence below sorts below. *)
Below(s, t) ==
    Begins(s, t) \/ \E i \in DOMAIN s : DifferFirst(s, t, i) /\ IdentifierPrecedes(s[i], t[i])

LEMMA BelowTrichotomy ==
    ASSUME NEW s \in Seq(Identifiers), NEW t \in Seq(Identifiers)
    PROVE  /\ CmpIdentifiers(s, t) > 0 <=> Below(t, s)
           /\ s = t \/ Below(s, t) \/ Below(t, s)
  <1> DEFINE d == FirstDifference(s, t)
  <1>1. CASE d = 0
    <2>1. \A i \in DOMAIN s \cap DOMAIN t : s[i] = t[i]
      BY <1>1, FirstDifferenceFacts DEF DifferFirst
    <2>2. \A i : ~DifferFirst(s, t, i) /\ ~DifferFirst(t, s, i)
      BY <2>1 DEF DifferFirst
    <2>3. CmpIdentifiers(s, t) = Sign(Len(s), Len(t))
      BY <1>1 DEF CmpIdentifiers
    <2>4. Below(t, s) <=> Len(t) < Len(s)
      BY <2>1, <2>2 DEF Below, Begins
    <2>5. Below(s, t) <=> Len(s) < Len(t)
      BY <2>1, <2>2 DEF Below, Begins
    <2>6. Len(s) = Len(t) => s = t
      BY <2>1, SameSequence
    <2> QED
      BY <2>3, <2>4, <2>5, <2>6 DEF Sign
  <1>2. CASE d # 0
    <2>1. DifferFirst(s, t, d)
      BY <1>2, FirstDifferenceFacts
    <2> HIDE DEF d
    <2>2. d \in DOMAIN s /\ d \in DOMAIN t /\ d \in Nat /\ DifferFirst(t, s, d)
      BY <2>1 DEF DifferFirst
    <2>3. s[d] \in Identifiers /\ t[d] \in Identifiers /\ s[d] # t[d]
      BY <2>1, <2>2 DEF DifferFirst
    <2>4. ~Begins(s, t) /\ ~Begins(t, s)
      BY <2>2, <2>3 DEF Begins
    <2>5. \A i : DifferFirst(t, s, i) => i = d
      BY <2>2, DifferFirstUnique
    <2>6. Below(t, s) <=> IdentifierPrecedes(t[d], s[d])
      BY <2>2, <2>4, <2>5 DEF Below
    <2>7. IdentifierPrecedes(s[d], t[d]) => Below(s, t)
      BY <2>1, <2>2 DEF Below
    <2>8. CmpIdentifiers(s, t) = CmpIdentifier(s[d], t[d])
      BY <1>2 DEF CmpIdentifiers, d
    <2> QED
      BY <2>3, <2>6, <2>7, <2>8, IdentifierFacts
  <1> QED
    BY <1>1, <1>2

LEMMA BelowIrreflexive ==
    ASSUME NEW s \in Seq(Identifiers) PROVE ~Below(s, s)
  <1> QED
    BY DEF Below, Begins, DifferFirst

LEMMA BelowTransitive ==
    ASSUME NEW s \in Seq(Identifiers), NEW t \in Seq(Identifiers), NEW u \in Seq(Identifiers),
           Below(s, t), Below(t, u)
    PROVE  Below(s, u)
  <1>1. CASE Begins(s, t) /\ Begins(t, u)
    <2>1. Begins(s, u)
      BY <1>1 DEF Begins
    <2> QED
      BY <2>1 DEF Below
  <1>2. ASSUME Begins(s, t), NEW j \in DOMAIN t, DifferFirst(t, u, j), IdentifierPrecedes(t[j], u[j])
        PROVE  Below(s, u)
    <2>1. CASE j \in DOMAIN s
      <3>1. DifferFirst(s, u, j) /\ s[j] = t[j]
        BY <1>2, <2>1 DEF Begins, DifferFirst
      <3> QED
        BY <1>2, <2>1, <3>1 DEF Below
    <2>2. CASE j \notin DOMAIN s
      <3>1. Len(s) < j /\ j \in DOMAIN u /\ \A k \in 1..(j - 1) : t[k] = u[k]
        BY <1>2, <2>2 DEF DifferFirst
      <3>2. Begins(s, u)
        BY <1>2, <3>1 DEF Begins
      <3> QED
        BY <3>2 DEF Below
    <2> QED
      BY <2>1, <2>2
  <1>3. ASSUME NEW i \in DOMAIN s, DifferFirst(s, t, i), IdentifierPrecedes(s[i], t[i]), Begins(t, u)
        PROVE  Below(s, u)
    <2>1. DifferFirst(s, u, i) /\ t[i] = u[i]
      BY <1>3 DEF Begins, DifferFirst
    <2> QED
      BY <1>3, <2>1 DEF Below
  <1>4. ASSUME NEW i \in DOMAIN s, DifferFirst(s, t, i), IdentifierPrecedes(s[i], t[i]),
               NEW j \in DOMAIN t, DifferFirst(t, u, j), IdentifierPrecedes(t[j], u[j])
        PROVE  Below(s, u)
    <2>1. i \in Nat /\ j \in Nat /\ i \in DOMAIN t /\ j \in DOMAIN u
      BY <1>4 DEF DifferFirst
    <2>2. CASE i < j
      <3>1. i \in DOMAIN u /\ t[i] = u[i]
        BY <1>4, <2>1, <2>2 DEF DifferFirst
      <3>2. DifferFirst(s, u, i)
        BY <1>4, <2>1, <2>2, <3>1 DEF DifferFirst
      <3> QED
        BY <1>4, <3>1, <3>2 DEF Below
    <2>3. CASE j < i
      <3>1. j \in DOMAIN s /\ s[j] = t[j]
        BY <1>4, <2>1, <2>3 DEF DifferFirst
      <3>2. DifferFirst(s, u, j)
        BY <1>4, <2>1, <2>3, <3>1 DEF DifferFirst
      <3> QED
        BY <1>4, <3>1, <3>2 DEF Below
    <2>4. CASE i = j
      <3>1. s[i] \in Identifiers /\ t[i] \in Identifiers /\ u[i] \in Identifiers
        BY <2>1, <2>4
      <3>2. IdentifierPrecedes(s[i], u[i])
        BY <1>4, <2>4, <3>1, IdentifierFacts
      <3>3. s[i] # u[i]
        BY <3>1, <3>2, IdentifierFacts
      <3>4. DifferFirst(s, u, i)
        BY <1>4, <2>1, <2>4, <3>3 DEF DifferFirst
      <3> QED
        BY <3>2, <3>4 DEF Below
    <2> QED
      BY <2>1, <2>2, <2>3, <2>4
  <1> QED
    BY <1>1, <1>2, <1>3, <1>4 DEF Below

(* Prereleases: one is below the release, the empty sequence. *)
LEMMA PrereleaseFacts ==
    ASSUME NEW s \in Seq(Identifiers), NEW t \in Seq(Identifiers)
    PROVE  /\ CmpPrerelease(s, t) > 0 <=> PrereleasePrecedes(t, s)
           /\ s = t \/ PrereleasePrecedes(s, t) \/ PrereleasePrecedes(t, s)
           /\ ~PrereleasePrecedes(s, s)
           /\ \A u \in Seq(Identifiers) :
                 PrereleasePrecedes(s, t) /\ PrereleasePrecedes(t, u) => PrereleasePrecedes(s, u)
  <1>1. \A x, y \in Seq(Identifiers) :
            PrereleasePrecedes(x, y) <=> x # <<>> /\ (y = <<>> \/ Below(x, y))
    BY DEF PrereleasePrecedes, Below
  <1>2. \A x \in Seq(Identifiers) : Len(x) \in Nat /\ (Len(x) = 0 <=> x = <<>>)
    OBVIOUS
  <1>3. CASE s = <<>> \/ t = <<>>
    <2>1. CmpPrerelease(s, t) = Sign(Len(t), Len(s))
      BY <1>3 DEF CmpPrerelease
    <2>2. Sign(Len(t), Len(s)) > 0 <=> Len(t) > Len(s)
      BY <1>2 DEF Sign
    <2>3. PrereleasePrecedes(t, s) <=> t # <<>> /\ s = <<>>
      <3>1. s # <<>> => t = <<>>
        BY <1>3
      <3> QED
        BY <1>1, <3>1
    <2>4. Len(t) > Len(s) <=> t # <<>> /\ s = <<>>
      BY <1>2, <1>3
    <2> QED
      BY <1>1, <1>3, <2>1, <2>2, <2>3, <2>4, BelowIrreflexive
  <1>4. CASE s # <<>> /\ t # <<>>
    <2>1. CmpPrerelease(s, t) = CmpIdentifiers(s, t)
      BY <1>4 DEF CmpPrerelease
    <2> QED
      BY <1>1, <1>4, <2>1, BelowTrichotomy, BelowIrreflexive, BelowTransitive
  <1> QED
    BY <1>3, <1>4

(* The numbers of two versions, the most significant first. *)
CorePrecedes(c, d) == \E i \in 1..3 : DifferFirst(c, d, i) /\ c[i] < d[i]

CoreLess(c, d) ==
    \/ c[1] < d[1]
    \/ c[1] = d[1] /\ c[2] < d[2]
    \/ c[1] = d[1] /\ c[2] = d[2] /\ c[3] < d[3]

LEMMA CoreFacts ==
    ASSUME NEW c \in Nat \X Nat \X Nat, NEW d \in Nat \X Nat \X Nat
    PROVE  /\ CorePrecedes(c, d) <=> CoreLess(c, d)
           /\ c = d <=> c[1] = d[1] /\ c[2] = d[2] /\ c[3] = d[3]
           /\ FirstDifference(c, d) = 0 <=> c = d
           /\ FirstDifference(c, d) # 0 =>
                (Sign(c[FirstDifference(c, d)], d[FirstDifference(c, d)]) > 0 <=> CorePrecedes(d, c))
  <1>1. /\ DOMAIN c = 1..3 /\ c[1] \in Nat /\ c[2] \in Nat /\ c[3] \in Nat /\ c \in Seq(Nat)
        /\ DOMAIN d = 1..3 /\ d[1] \in Nat /\ d[2] \in Nat /\ d[3] \in Nat /\ d \in Seq(Nat)
    <2>1. ASSUME NEW x \in Nat \X Nat \X Nat
          PROVE  x[1] \in Nat /\ x[2] \in Nat /\ x[3] \in Nat /\ x \in Seq(Nat) /\ DOMAIN x = 1..3
      <3>1. PICK n \in Nat, m \in Nat, k \in Nat : x = <<n, m, k>>
        OBVIOUS
      <3>2. <<n, m, k>> \in Seq(Nat) /\ DOMAIN <<n, m, k>> = 1..3
        OBVIOUS
      <3> QED
        BY <3>1, <3>2
    <2> QED
      BY <2>1
  <1>2. c = d <=> c[1] = d[1] /\ c[2] = d[2] /\ c[3] = d[3]
    OBVIOUS
  <1>3. /\ DifferFirst(c, d, 1) <=> c[1] # d[1]
        /\ DifferFirst(c, d, 2) <=> c[1] = d[1] /\ c[2] # d[2]
        /\ DifferFirst(c, d, 3) <=> c[1] = d[1] /\ c[2] = d[2] /\ c[3] # d[3]
    <2>1. 1..(1 - 1) = {} /\ 1..(2 - 1) = {1} /\ 1..(3 - 1) = {1, 2}
      OBVIOUS
    <2>2. 1 \in 1..3 /\ 2 \in 1..3 /\ 3 \in 1..3
      OBVIOUS
    <2> QED
      BY <1>1, <2>1, <2>2 DEF DifferFirst
  <1>4. \A i : DifferFirst(c, d, i) => i \in {1, 2, 3}
    BY <1>1 DEF DifferFirst
  <1>5. CorePrecedes(c, d) <=> CoreLess(c, d)
    <2>1. ASSUME CorePrecedes(c, d)
          PROVE  \/ c[1] < d[1]
                 \/ c[1] = d[1] /\ c[2] < d[2]
                 \/ c[1] = d[1] /\ c[2] = d[2] /\ c[3] < d[3]
      <3>1. PICK i \in 1..3 : DifferFirst(c, d, i) /\ c[i] < d[i]
        BY <2>1 DEF CorePrecedes
      <3>2. \A k \in 1..(i - 1) : c[k] = d[k]
        BY <3>1 DEF DifferFirst
      <3> QED
        BY <3>1, <3>2
    <2>2. \A i \in 1..3 : DifferFirst(c, d, i) /\ c[i] < d[i] => CorePrecedes(c, d)
      BY DEF CorePrecedes
    <2>3. \A m, n \in Nat : m < n => m # n
      OBVIOUS
    <2>4. ASSUME c[1] < d[1] PROVE CorePrecedes(c, d)
      <3>1. c[1] # d[1] /\ 1 \in 1..3
        BY <1>1, <2>3, <2>4
      <3> QED
        BY <1>3, <2>2, <2>4, <3>1
    <2>5. ASSUME c[1] = d[1], c[2] < d[2] PROVE CorePrecedes(c, d)
      <3>1. c[2] # d[2] /\ 2 \in 1..3
        BY <1>1, <2>3, <2>5
      <3> QED
        BY <1>3, <2>2, <2>5, <3>1
    <2>6. ASSUME c[1] = d[1], c[2] = d[2], c[3] < d[3] PROVE CorePrecedes(c, d)
      <3>1. c[3] # d[3] /\ 3 \in 1..3
        BY <1>1, <2>3, <2>6
      <3> QED
        BY <1>3, <2>2, <2>6, <3>1
    <2>7. CorePrecedes(c, d) => CoreLess(c, d)
      BY <2>1 DEF CoreLess
    <2>8. CoreLess(c, d) => CorePrecedes(c, d)
      BY <2>4, <2>5, <2>6 DEF CoreLess
    <2> QED
      BY <2>7, <2>8
  <1> DEFINE f == FirstDifference(c, d)
  <1>6. \/ f = 0 /\ \A i \in DOMAIN c \cap DOMAIN d : c[i] = d[i]
        \/ f # 0 /\ DifferFirst(c, d, f)
    BY <1>1, FirstDifferenceFacts
  <1> HIDE DEF f
  <1>7. f = 0 <=> c = d
    BY <1>1, <1>2, <1>6 DEF DifferFirst
  <1>8. ASSUME f # 0 PROVE Sign(c[f], d[f]) > 0 <=> CorePrecedes(d, c)
    <2>1. DifferFirst(c, d, f) /\ DifferFirst(d, c, f) /\ f \in 1..3
      BY <1>1, <1>6, <1>8 DEF DifferFirst
    <2>2. c[f] \in Nat /\ d[f] \in Nat
      BY <1>1, <2>1
    <2>3. \A i : DifferFirst(d, c, i) => i = f
      BY <1>1, <2>1, DifferFirstUnique
    <2>4. CorePrecedes(d, c) <=> d[f] < c[f]
      BY <2>1, <2>3 DEF CorePrecedes
    <2> QED
      BY <2>2, <2>4 DEF Sign
  <1> QED
    BY <1>2, <1>5, <1>7, <1>8 DEF f

LEMMA CoreOrder ==
    ASSUME NEW c \in Nat \X Nat \X Nat, NEW d \in Nat \X Nat \X Nat, NEW e \in Nat \X Nat \X Nat
    PROVE  /\ CorePrecedes(c, d) /\ CorePrecedes(d, e) => CorePrecedes(c, e)
           /\ c = d \/ CorePrecedes(c, d) \/ CorePrecedes(d, c)
  <1>1. /\ c[1] \in Nat /\ c[2] \in Nat /\ c[3] \in Nat
        /\ d[1] \in Nat /\ d[2] \in Nat /\ d[3] \in Nat
        /\ e[1] \in Nat /\ e[2] \in Nat /\ e[3] \in Nat
    OBVIOUS
  <1>2. CoreLess(c, d) /\ CoreLess(d, e) => CoreLess(c, e)
    BY <1>1 DEF CoreLess
  <1>3. (c[1] = d[1] /\ c[2] = d[2] /\ c[3] = d[3]) \/ CoreLess(c, d) \/ CoreLess(d, c)
    BY <1>1 DEF CoreLess
  <1>4. c = d \/ CoreLess(c, d) \/ CoreLess(d, c)
    BY <1>3, CoreFacts
  <1> QED
    BY <1>2, <1>4, CoreFacts

(* cmpSemver decides the precedence of Semantic Versioning, for all         *)
(* versions: gtSemver is that order.                                       *)
THEOREM ComparisonIsPrecedence ==
    \A a, b \in SemVersions : GtSemver(a, b) <=> Precedes(b, a)
  <1> SUFFICES ASSUME NEW a \in SemVersions, NEW b \in SemVersions
               PROVE  GtSemver(a, b) <=> Precedes(b, a)
    OBVIOUS
  <1>1. /\ a.core \in Nat \X Nat \X Nat /\ b.core \in Nat \X Nat \X Nat
        /\ a.pre \in Seq(Identifiers) /\ b.pre \in Seq(Identifiers)
    BY DEF SemVersions
  <1>2. Precedes(b, a) <=> CorePrecedes(b.core, a.core) \/ (a.core = b.core /\ PrereleasePrecedes(b.pre, a.pre))
    BY DEF Precedes, CorePrecedes
  <1>3. CASE a.core = b.core
    <2>1. GtSemver(a, b) <=> CmpPrerelease(a.pre, b.pre) > 0
      BY <1>1, <1>3, CoreFacts DEF GtSemver, CmpSemver
    <2>2. ~CorePrecedes(b.core, a.core)
      BY <1>3 DEF CorePrecedes, DifferFirst
    <2> QED
      BY <1>1, <1>2, <1>3, <2>1, <2>2, PrereleaseFacts
  <1>4. CASE a.core # b.core
    <2>1. FirstDifference(a.core, b.core) # 0
      BY <1>1, <1>4, CoreFacts
    <2>2. CmpSemver(a, b) = Sign(a.core[FirstDifference(a.core, b.core)],
                                 b.core[FirstDifference(a.core, b.core)])
      BY <2>1 DEF CmpSemver
    <2>3. GtSemver(a, b) <=> CorePrecedes(b.core, a.core)
      BY <1>1, <2>1, <2>2, CoreFacts DEF GtSemver
    <2> QED
      BY <1>2, <1>4, <2>3
  <1> QED
    BY <1>3, <1>4

(* Versions are totally ordered: no cycle of updates, and of two distinct   *)
(* versions one is an update of the other (semver.js).                     *)
THEOREM VersionsAreOrdered ==
    \A a, b, c \in SemVersions :
        /\ ~Precedes(a, a)
        /\ Precedes(a, b) /\ Precedes(b, c) => Precedes(a, c)
        /\ a = b \/ Precedes(a, b) \/ Precedes(b, a)
  <1> SUFFICES ASSUME NEW a \in SemVersions, NEW b \in SemVersions, NEW c \in SemVersions
               PROVE  /\ ~Precedes(a, a)
                      /\ Precedes(a, b) /\ Precedes(b, c) => Precedes(a, c)
                      /\ a = b \/ Precedes(a, b) \/ Precedes(b, a)
    OBVIOUS
  <1>1. \A v \in SemVersions : v.core \in Nat \X Nat \X Nat /\ v.pre \in Seq(Identifiers)
    BY DEF SemVersions
  <1>2. ASSUME NEW v \in SemVersions, NEW w \in SemVersions
        PROVE  Precedes(v, w) <=> \/ CorePrecedes(v.core, w.core)
                                  \/ v.core = w.core /\ PrereleasePrecedes(v.pre, w.pre)
    BY DEF Precedes, CorePrecedes
  <1>3. ~CorePrecedes(a.core, a.core)
    BY DEF CorePrecedes, DifferFirst
  <1>4. ~Precedes(a, a)
    BY <1>1, <1>2, <1>3, PrereleaseFacts
  <1>5. CorePrecedes(a.core, b.core) /\ CorePrecedes(b.core, c.core) => CorePrecedes(a.core, c.core)
    BY <1>1, CoreOrder
  <1>6. PrereleasePrecedes(a.pre, b.pre) /\ PrereleasePrecedes(b.pre, c.pre) => PrereleasePrecedes(a.pre, c.pre)
    BY <1>1, PrereleaseFacts
  <1>7. Precedes(a, b) /\ Precedes(b, c) => Precedes(a, c)
    BY <1>2, <1>5, <1>6
  <1>8. a.core = b.core \/ CorePrecedes(a.core, b.core) \/ CorePrecedes(b.core, a.core)
    BY <1>1, CoreOrder
  <1>9. a.pre = b.pre \/ PrereleasePrecedes(a.pre, b.pre) \/ PrereleasePrecedes(b.pre, a.pre)
    BY <1>1, PrereleaseFacts
  <1>10. a.core = b.core /\ a.pre = b.pre => a = b
    BY DEF SemVersions
  <1>11. a = b \/ Precedes(a, b) \/ Precedes(b, a)
    <2>1. \/ a.core = b.core /\ a.pre = b.pre
          \/ a.core = b.core /\ PrereleasePrecedes(a.pre, b.pre)
          \/ b.core = a.core /\ PrereleasePrecedes(b.pre, a.pre)
          \/ CorePrecedes(a.core, b.core)
          \/ CorePrecedes(b.core, a.core)
      BY <1>8, <1>9
    <2> QED
      BY <1>2, <1>10, <2>1
  <1> QED
    BY <1>4, <1>7, <1>11

-----------------------------------------------------------------------------
(* The record of what was listed *)

Climbs(s) == \A i, j \in DOMAIN s : i < j => Precedes(s[i], s[j])

LEMMA ClimbsOn ==
    ASSUME NEW s \in Seq(SemVersions), NEW v \in SemVersions, NEW w \in SemVersions,
           Climbs(Append(s, v)), Precedes(v, w)
    PROVE  Climbs(Append(Append(s, v), w))
  <1> DEFINE t == Append(s, v)  u == Append(t, w)
  <1>1. /\ t \in Seq(SemVersions) /\ Len(t) = Len(s) + 1 /\ t[Len(t)] = v
        /\ u \in Seq(SemVersions) /\ Len(u) = Len(t) + 1 /\ u[Len(u)] = w
        /\ \A i \in DOMAIN t : u[i] = t[i]
    OBVIOUS
  <1>2. ASSUME NEW i \in DOMAIN u, NEW j \in DOMAIN u, i < j PROVE Precedes(u[i], u[j])
    <2>1. i \in DOMAIN t /\ u[i] = t[i] /\ t[i] \in SemVersions
      BY <1>1, <1>2
    <2>2. CASE j \in DOMAIN t
      <3>1. u[j] = t[j]
        BY <1>1, <2>2
      <3>2. Climbs(t)
        OBVIOUS
      <3> HIDE DEF t, u
      <3> QED
        BY <1>2, <2>1, <2>2, <3>1, <3>2 DEF Climbs
    <2>3. CASE j \notin DOMAIN t
      <3>1. j = Len(u)
        BY <1>1, <2>3
      <3>2. t[i] = v \/ Precedes(t[i], v)
        <4>1. CASE i = Len(t)
          BY <1>1, <4>1
        <4>2. CASE i # Len(t)
          <5>1. i < Len(t) /\ Len(t) \in DOMAIN t
            BY <1>1, <2>1, <4>2
          <5>2. Climbs(t)
            OBVIOUS
          <5> HIDE DEF t, u
          <5>3. Precedes(t[i], t[Len(t)])
            BY <2>1, <5>1, <5>2 DEF Climbs
          <5> QED
            BY <1>1, <5>3
        <4> QED
          BY <4>1, <4>2
      <3> HIDE DEF t, u
      <3> QED
        BY <1>1, <2>1, <3>1, <3>2, VersionsAreOrdered
    <2> QED
      BY <2>2, <2>3
  <1> HIDE DEF t, u
  <1>3. Climbs(u)
    BY <1>2 DEF Climbs
  <1> QED
    BY <1>3 DEF t, u

(* Before the first publication there is nothing on record and nothing held. *)
NothingYet ==
    skill = NoListing => history = <<>> /\ \A b \in Buyers : held[b] = NoListing

RecordInv == NothingYet /\ HistoryClimbs

LEMMA FinishPublishRecords ==
    ASSUME RegistryInv, RecordInv, NEW r \in Submissions, FinishPublish(r) PROVE RecordInv'
  <1> DEFINE p == publishing[r].package
  <1>1. p \in Packages /\ p.version \in SemVersions /\ p # NoPackage
    BY PackagesAssumption, NoPackageAssumption DEF RegistryInv, SubmittedPackage, FinishPublish
  <1>2. skill'.package = p /\ skill' # NoListing /\ history' = NextHistory(p) /\ held' = held
    BY <1>1 DEF FinishPublish, NoListing
  <1>3. NothingYet'
    BY <1>2 DEF NothingYet
  <1>4. HistoryClimbs'
    <2>1. CASE skill = NoListing
      <3>1. history' = <<>> /\ \A b \in Buyers : held'[b] = NoListing
        BY <1>2, <2>1 DEF RecordInv, NothingYet, NextHistory
      <3>2. Sold' = <<p.version>>
        BY <1>2, <3>1 DEF Sold
      <3> QED
        BY <3>1, <3>2 DEF HistoryClimbs
    <2>2. ASSUME skill # NoListing PROVE HistoryClimbs'
      <3>1. /\ skill.package \in Packages /\ skill.package.version \in SemVersions
            /\ history \in Seq(SemVersions)
        BY <2>2, PackagesAssumption DEF RegistryInv, TypeOK, Listings
      <3>2. CASE p.version = skill.package.version
        <4>1. Sold' = Sold
          BY <1>2, <3>2 DEF NextHistory, Sold
        <4> QED
          BY <1>2, <2>2, <4>1 DEF RecordInv, HistoryClimbs
      <3>3. CASE p.version # skill.package.version
        <4>1. GtSemver(p.version, skill.package.version)
          BY <2>2, <3>3 DEF FinishPublish, Rises, SameContent
        <4>2. Precedes(skill.package.version, p.version)
          BY <1>1, <3>1, <4>1, ComparisonIsPrecedence
        <4>3. history' = Sold /\ Sold' = Append(Sold, p.version)
          BY <1>2, <2>2, <3>3 DEF NextHistory, Sold
        <4>4. Climbs(Sold)
          BY <2>2 DEF RecordInv, HistoryClimbs, Climbs
        <4>5. Climbs(Append(Sold, p.version))
          BY <1>1, <3>1, <4>2, <4>4, ClimbsOn DEF Sold
        <4>6. Sold \in Seq(SemVersions)
          BY <3>1 DEF Sold
        <4>7. {Sold[i] : i \in DOMAIN Sold} \subseteq {Sold'[i] : i \in DOMAIN Sold'}
          <5>1. \A i \in DOMAIN Sold : i \in DOMAIN Sold' /\ Sold'[i] = Sold[i]
            BY <1>1, <4>3, <4>6
          <5> QED
            BY <5>1
        <4>8. \A b \in Buyers : held'[b] # NoListing =>
                 held'[b].package.version \in {Sold'[i] : i \in DOMAIN Sold'}
          BY <1>2, <2>2, <4>7 DEF RecordInv, HistoryClimbs
        <4> QED
          BY <4>3, <4>5, <4>8 DEF HistoryClimbs, Climbs
      <3> QED
        BY <3>2, <3>3
    <2> QED
      BY <2>1, <2>2
  <1> QED
    BY <1>3, <1>4 DEF RecordInv

LEMMA FetchBundleRecords ==
    ASSUME RegistryInv, RecordInv, NEW t \in Tokens, FetchBundle(t) PROVE RecordInv'
  <1>1. skill # NoListing /\ skill' = skill /\ history' = history /\ Sold' = Sold
    BY DEF FetchBundle, catalogue, Sold
  <1>2. \A b \in Buyers : held'[b] = skill \/ held'[b] = held[b]
    BY DEF FetchBundle, RegistryInv, TypeOK
  <1>3. skill.package.version \in {Sold[i] : i \in DOMAIN Sold}
    <2>1. history \in Seq(SemVersions) /\ skill.package.version \in SemVersions
      BY <1>1, PackagesAssumption DEF RegistryInv, TypeOK, Listings
    <2>2. Len(history) + 1 \in DOMAIN Sold /\ Sold[Len(history) + 1] = skill.package.version
      BY <2>1 DEF Sold
    <2> QED
      BY <2>2
  <1>4. \A b \in Buyers : held'[b] # NoListing => held'[b].package.version \in {Sold[i] : i \in DOMAIN Sold}
    BY <1>1, <1>2, <1>3 DEF RecordInv, HistoryClimbs
  <1>5. HistoryClimbs'
    BY <1>1, <1>4 DEF RecordInv, HistoryClimbs
  <1> QED
    BY <1>1, <1>5 DEF RecordInv, NothingYet

LEMMA RecordStep == RegistryInv /\ RecordInv /\ [Next]_vars => RecordInv'
  <1> SUFFICES ASSUME RegistryInv, RecordInv, [Next]_vars PROVE RecordInv'
    OBVIOUS
  <1>1. ASSUME NEW r \in Submissions, FinishPublish(r) PROVE RecordInv'
    BY <1>1, FinishPublishRecords
  <1>2. ASSUME NEW t \in Tokens, FetchBundle(t) PROVE RecordInv'
    BY <1>2, FetchBundleRecords
  <1>3. CASE UNCHANGED <<skill, history, held>>
    BY <1>3 DEF RecordInv, NothingYet, HistoryClimbs, Sold
  <1>4. \/ \E r \in Submissions : FinishPublish(r)
        \/ \E t \in Tokens : FetchBundle(t)
        \/ UNCHANGED <<skill, history, held>>
    BY DEF Next, vars, catalogue, access, BeginPublish, RefusePublish, Purchase, StartActivation,
           Revoke, Lapse, FinishActivation, Restart
  <1> QED
    BY <1>1, <1>2, <1>3, <1>4

(* However publications overlap around the scanner, what was ever listed    *)
(* climbs in the order of Semantic Versioning without repeating a version,  *)
(* and every version a buyer holds is on record.                            *)
THEOREM RecordClimbs == Spec => []HistoryClimbs
  <1>1. Init => RecordInv
    BY DEF Init, RecordInv, NothingYet, HistoryClimbs
  <1>2. RecordInv => HistoryClimbs
    BY DEF RecordInv
  <1> QED
    BY <1>1, <1>2, RecordStep, Invariance, PTL DEF Spec
=============================================================================
