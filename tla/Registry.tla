------------------------------ MODULE Registry ------------------------------
(***************************************************************************)
(* The registry around one skill (packages/server/src: index.js, store.js): *)
(* the publish gate, activation codes and bearer tokens, and the delivery  *)
(* of bundles to license holders.                                          *)
(*                                                                         *)
(* POST /api/skills is split at its one await, the external scanner:       *)
(* BeginPublish has parsed and validated the package, the rest of the      *)
(* handler runs afterwards, when other publications may have gone through. *)
(* The other handlers are one action each; their writes are one            *)
(* transaction (module Store).  Random ids and codes are assumed not to    *)
(* collide with live ones.                                                 *)
(***************************************************************************)
EXTENDS Semver, FiniteSets

CONSTANTS
    Packages,        \* the packages a seller may submit, each with canary slots
    Submissions,     \* publish requests in progress at a time
    Buyers,          \* e-mail addresses
    OrderIds, Tokens, Codes,
    MaxPublications, \* bound on the number of accepted publications
    NoPackage, NoOrder, Nobody

ASSUME PackagesAssumption == \A p \in Packages : p.version \in SemVersions /\ p.paid \in BOOLEAN
ASSUME MaxPublicationsAssumption == MaxPublications \in Nat
ASSUME NoPackageAssumption == NoPackage \notin Packages
ASSUME NobodyAssumption == Nobody \notin Buyers

(* Whether a benchmark scorecard was sent along that all tasks pass; one of *)
(* another content, or without its tasks, is refused outright.             *)
Scorecards == {"none or failing", "passing"}

(* A publication is known by its package and by the derivation secret drawn *)
(* for it: the number of secrets drawn so far.                             *)
Listings == [package : Packages, derivation : 1..MaxPublications]
NoListing == [package |-> NoPackage, derivation |-> 0]

Orders == [email : Buyers, revoked : BOOLEAN]
ASSUME NoOrderAssumption == NoOrder \notin Orders

VARIABLES
    skill,         \* store.data.skills[slug]: the package listed, its commitment and opening
    history,       \* skill.history: the versions listed before
    publishing,    \* publish handlers awaiting the scanner: what each submitted
    drawn,         \* derivation secrets drawn
    orders,        \* store.data.orders of this skill
    tokens,        \* store.data.tokens: whom each speaks for
    activations,   \* store.data.activations: the mailbox of each code and its age
    held,          \* each buyer's copy: the package and the commitment it came under
    redeemed       \* history: tokens minted since a code was last issued

catalogue == <<skill, history, drawn>>
access    == <<orders, tokens, activations, redeemed>>
vars      == <<catalogue, publishing, access, held>>

NoSubmission == [package |-> NoPackage, scorecard |-> "none or failing"]
NoCode == [email |-> Nobody, fresh |-> FALSE]

Init ==
    /\ skill = NoListing /\ history = <<>> /\ drawn = 0
    /\ publishing = [r \in Submissions |-> NoSubmission]
    /\ orders = [o \in OrderIds |-> NoOrder]
    /\ tokens = [t \in Tokens |-> Nobody]
    /\ activations = [c \in Codes |-> NoCode]
    /\ held = [b \in Buyers |-> NoListing]
    /\ redeemed = [c \in Codes |-> 0]

-----------------------------------------------------------------------------
(* Publishing *)

(* Compliance and the agreement of the request with SKILL.md have passed.  *)
BeginPublish(r) ==
    /\ publishing[r] = NoSubmission
    /\ \E p \in Packages, s \in Scorecards :
          publishing' = [publishing EXCEPT ![r] = [package |-> p, scorecard |-> s]]
    /\ UNCHANGED <<catalogue, access, held>>

NotBelow(p) ==                                          \* mutant of Rises
    skill # NoListing => CmpSemver(p.version, skill.package.version) >= 0

(* The version must increase, except for the first publication. *)
Rises(p) == skill # NoListing => GtSemver(p.version, skill.package.version)

(* A byte-identical republish of the current version. *)
SameContent(p) == p = skill.package

(* Paid skills require a passing scorecard, of this very content. *)
Benchmarked(p, scorecard) == p.paid => scorecard = "passing"

HistoryOfPackages(p) ==                                 \* mutant of NextHistory
    IF skill = NoListing THEN history ELSE Append(history, skill.package)

(* The version replaced is kept, unless it is republished. *)
NextHistory(p) ==
    IF skill = NoListing \/ p.version = skill.package.version THEN history
    ELSE Append(history, skill.package.version)

(* After the scan: the gates against the current listing, the derivation   *)
(* commitment under a fresh secret, putSkill.                              *)
FinishPublish(r) ==
    LET p == publishing[r].package
    IN  /\ publishing[r] # NoSubmission
        /\ Rises(p) \/ SameContent(p)
        /\ Benchmarked(p, publishing[r].scorecard)
        /\ drawn < MaxPublications
        /\ drawn' = drawn + 1
        /\ skill' = [package |-> p, derivation |-> drawn + 1]
        /\ history' = NextHistory(p)
        /\ publishing' = [publishing EXCEPT ![r] = NoSubmission]
        /\ UNCHANGED <<access, held>>

(* The scan, the version or the benchmark gate refuses; nothing is written. *)
RefusePublish(r) ==
    /\ publishing[r] # NoSubmission
    /\ publishing' = [publishing EXCEPT ![r] = NoSubmission]
    /\ UNCHANGED <<catalogue, access, held>>

-----------------------------------------------------------------------------
(* Licenses *)

Minted(t, b) == tokens[t] = Nobody /\ tokens' = [tokens EXCEPT ![t] = b]

(* An order is recorded: by the payment webhook, which mints no token, or   *)
(* by the instant checkout of a free skill, which mints one with it.       *)
Purchase(b) ==
    /\ skill # NoListing
    /\ \E o \in OrderIds :
          /\ orders[o] = NoOrder
          /\ orders' = [orders EXCEPT ![o] = [email |-> b, revoked |-> FALSE]]
    /\ IF skill.package.paid THEN UNCHANGED tokens ELSE \E t \in Tokens : Minted(t, b)
    /\ UNCHANGED <<catalogue, publishing, activations, redeemed, held>>

(* A full refund or the seller ends a license. *)
Revoke(o) ==
    /\ orders[o] # NoOrder
    /\ orders' = [orders EXCEPT ![o].revoked = TRUE]
    /\ UNCHANGED <<catalogue, publishing, tokens, activations, redeemed, held>>

-----------------------------------------------------------------------------
(* Activation *)

(* createActivation sweeps the codes past their 15 minutes and issues one.  *)
(* Whether the mail with it arrives is left open.                          *)
StartActivation(b, c) ==
    /\ ~activations[c].fresh
    /\ activations' = [d \in Codes |-> IF d = c THEN [email |-> b, fresh |-> TRUE]
                                      ELSE IF activations[d].fresh THEN activations[d] ELSE NoCode]
    /\ redeemed' = [redeemed EXCEPT ![c] = 0]
    /\ UNCHANGED <<catalogue, publishing, orders, tokens, held>>

(* Fifteen minutes pass. *)
Lapse(c) ==
    /\ activations[c].fresh
    /\ activations' = [activations EXCEPT ![c].fresh = FALSE]
    /\ UNCHANGED <<catalogue, publishing, orders, tokens, redeemed, held>>

NotConsumed(c) == activations                           \* mutant of Consumed

Consumed(c) == [activations EXCEPT ![c] = NoCode]

(* consumeActivation and issueToken in one transaction. *)
FinishActivation(c) ==
    /\ activations[c].fresh
    /\ \E t \in Tokens : Minted(t, activations[c].email)
    /\ activations' = Consumed(c)
    /\ redeemed' = [redeemed EXCEPT ![c] = @ + 1]
    /\ UNCHANGED <<catalogue, publishing, orders, held>>

-----------------------------------------------------------------------------
(* Delivery *)

(* entitle: the token's mailbox holds a license that is not revoked. *)
Entitled(t) ==
    /\ tokens[t] # Nobody
    /\ \E o \in OrderIds : orders[o] = [email |-> tokens[t], revoked |-> FALSE]

(* GET /api/bundle/:slug, verified by the CLI against the listing.         *)
FetchBundle(t) ==
    /\ skill # NoListing /\ Entitled(t)
    /\ held' = [held EXCEPT ![tokens[t]] = skill]
    /\ UNCHANGED <<catalogue, publishing, access>>

(* A restart: the handlers awaiting the scanner are gone. *)
Restart ==
    /\ publishing' = [r \in Submissions |-> NoSubmission]
    /\ UNCHANGED <<catalogue, access, held>>

-----------------------------------------------------------------------------
Next ==
    \/ \E r \in Submissions : BeginPublish(r) \/ FinishPublish(r) \/ RefusePublish(r)
    \/ \E b \in Buyers : Purchase(b) \/ \E c \in Codes : StartActivation(b, c)
    \/ \E o \in OrderIds : Revoke(o)
    \/ \E c \in Codes : Lapse(c) \/ FinishActivation(c)
    \/ \E t \in Tokens : FetchBundle(t)
    \/ Restart

Spec == Init /\ [][Next]_vars

-----------------------------------------------------------------------------
TypeOK ==
    /\ skill \in Listings \cup {NoListing}
    /\ history \in Seq(SemVersions)
    /\ drawn \in 0..MaxPublications
    /\ publishing \in [Submissions -> [package : Packages \cup {NoPackage}, scorecard : Scorecards]]
    /\ orders \in [OrderIds -> Orders \cup {NoOrder}]
    /\ tokens \in [Tokens -> Buyers \cup {Nobody}]
    /\ activations \in [Codes -> [email : Buyers \cup {Nobody}, fresh : BOOLEAN]]
    /\ held \in [Buyers -> Listings \cup {NoListing}]
    /\ redeemed \in [Codes -> Nat]

Cat == INSTANCE Catalogue WITH listed <- skill.package, Above <- GtSemver

(* However publications overlap around the scanner's await, the listing     *)
(* moves only to a higher version, and the content of a version is never    *)
(* swapped (index.js, the version gate of POST /api/skills).                *)
ImplementsCatalogue == Cat!Spec

(* A code serves once: of all the tries to redeem what was mailed, at most  *)
(* one mints a token (index.js activate/finish, consumeActivation).         *)
OneTokenPerCode == \A c \in Codes : redeemed[c] <= 1

(* Whatever publications overlap, what was ever listed climbs in the order  *)
(* of Semantic Versioning without repeating a version, and every version a  *)
(* buyer holds is on record in the listing (putSkill, semver.js).           *)
Sold == Append(history, skill.package.version)

HistoryClimbs == skill # NoListing =>
    /\ \A i, j \in DOMAIN Sold : i < j => Precedes(Sold[i], Sold[j])
    /\ \A b \in Buyers : held[b] # NoListing => held[b].package.version \in {Sold[i] : i \in DOMAIN Sold}
=============================================================================
