------------------------------- MODULE Release -------------------------------
(***************************************************************************)
(* From the seller's directory to the buyer's agent: `allodic publish`     *)
(* (packages/cli/bin/allodic.js), other clients of POST /api/skills, its   *)
(* gates and the signed capability (packages/server/src/index.js), and the *)
(* buyer who fetches a listing and a bundle, in either order and possibly  *)
(* around a publication, and runs the chain of checks over the two.        *)
(*                                                                         *)
(* A publication is one step from the seller's directory on: the files are *)
(* read once, nothing of the registry is read before the request, and POST *)
(* /api/skills reads only the request until the scanner has answered, from *)
(* where on it does not yield (module Registry splits it).  Licenses are   *)
(* Registry's, too; here every order is entitled.  Buyers share nothing    *)
(* but the registry, which they only read, so that one visit and one held  *)
(* copy at a time are enough.                                              *)
(***************************************************************************)
EXTENDS Package

CONSTANTS
    Drafts,             \* the seller's directories over time: their names and files
    Transcripts,        \* what an agent may answer to a task
    FingerprintOf,      \* per order, the fingerprint its id derives to
    ExternalAnswers,    \* of the external scanner: whether it answered, its severities
    MaxExtFindings,     \* MAX_EXT_FINDINGS
    MaxPublications,    \* bound on publications
    NoSkill, NoVisit, NoCopy, Missing

Orders == DOMAIN FingerprintOf

Fields(files) == [slug |-> SlugOf(MetaOf(files)), version |-> MetaOf(files).version,
                  priceCents |-> MetaOf(files).price]

ASSUME DraftsAssumption ==
    \A d \in Drafts : /\ SKILL \in DOMAIN d.files
                      /\ \A p \in DOMAIN d.files \cap Markdown : IsDocument(d.files[p])
ASSUME FingerprintOfAssumption == \A o \in Orders : FingerprintOf[o] \in Fingerprints
ASSUME BoundsAssumption == {MaxExtFindings, MaxPublications} \subseteq Nat

VARIABLES
    skill,      \* store.data.skills[slug]
    published,  \* history: the files, price and capability of every publication
    drawn,      \* derivation secrets drawn
    visit,      \* an add, update or verify under way: what it has fetched, and
                \* whether its bundle was made from the files of another package
    held        \* the copy a buyer installed last, and the capability it came under

registry == <<skill, published, drawn>>
vars == <<registry, visit, held>>

Init ==
    /\ skill = NoSkill /\ published = {} /\ drawn = 0
    /\ visit = NoVisit /\ held = NoCopy

-----------------------------------------------------------------------------
(* POST /api/skills *)

(* Findings of the external scanner, up to the limit, block if critical. If *)
(* it fails, the scan stands.                                              *)
Merged(scan, external) ==
    LET kept == {i \in DOMAIN external.severities :
                    i <= MaxExtFindings /\ external.severities[i] = "critical"}
        criticals == scan.criticals + Cardinality(kept)
    IN  IF ~external.answered THEN scan
        ELSE [scan EXCEPT !.criticals = criticals, !.blocked = @ \/ criticals > 0]

(* SKILL.md is the source of what is sold; the request must agree with it. *)
Agrees(r) ==
    /\ r.fields.slug = MetaOf(r.files).name
    /\ r.fields.version = MetaOf(r.files).version
    /\ r.fields.priceCents = MetaOf(r.files).price

Rises(files) == skill # NoSkill => MetaOf(files).version > skill.version
SameContent(files) ==
    skill # NoSkill /\ MetaOf(files).version = skill.version /\ SkillContentHash(files) = skill.capability.digest

(* Paid skills need a passing scorecard; one that is sent is of this very   *)
(* content, whose tasks ship with it.                                      *)
Benchmarked(r) ==
    /\ MetaOf(r.files).price > 0 =>
          r.card # NoCard /\ r.card.passed = r.card.total /\ r.card.explicit
    /\ r.card # NoCard => TASKS \in DOMAIN r.files /\ r.card.content = SkillContentHash(r.files)

Passes(r) ==
    /\ Agrees(r) /\ CheckCompliance(r.files, r.fields.slug)
    /\ Rises(r.files) \/ SameContent(r.files)
    /\ Benchmarked(r)
    /\ HasTerms(MetaOf(r.files))

ListingUnderOneSecret(r, scan, secret) ==               \* mutant of Listing
    LET openings == Openings(r.files, 1)
    IN  [version |-> MetaOf(r.files).version, price |-> MetaOf(r.files).price, files |-> r.files, evals |-> r.card,
         capability |-> BuildCapability(r.files, r.card, scan, openings), openings |-> openings]

(* Every publication draws its own secret for the commitment. *)
Listing(r, scan, secret) ==
    LET openings == Openings(r.files, secret)
    IN  [version |-> MetaOf(r.files).version, price |-> MetaOf(r.files).price, files |-> r.files, evals |-> r.card,
         capability |-> BuildCapability(r.files, r.card, scan, openings), openings |-> openings]

(* A request that a gate refuses changes nothing. *)
PostSkill(r) ==
    /\ drawn < MaxPublications
    /\ Passes(r)
    /\ \E found \in Scans(Neutral(r.files)), external \in ExternalAnswers :
          LET scan == Merged(found, external)
          IN  ~scan.blocked /\ skill' = Listing(r, scan, drawn + 1)
    /\ published' = published \cup {skill'}
    /\ drawn' = drawn + 1

-----------------------------------------------------------------------------
(* The clients that publish *)

Cards(files, explicit) ==
    IF TASKS \notin DOMAIN files THEN {}
    ELSE {RunEvals(files, answers, explicit) : answers \in [files[TASKS] -> Transcripts]}

Post(fields, files, card) == PostSkill([fields |-> fields, files |-> files, card |-> card])

(* cmdPublish: compliance and benchmarks come before the request.          *)
CliPublish(d) ==
    /\ CheckCompliance(d.files, d.dir)
    /\ \/ TASKS \notin DOMAIN d.files /\ MetaOf(d.files).price = 0
          /\ Post(Fields(d.files), d.files, NoCard)
       \/ \E card \in Cards(d.files, TRUE) :
             card.passed = card.total /\ Post(Fields(d.files), d.files, card)
    /\ UNCHANGED <<visit, held>>

(* Other clients: benchmarks run on their own, by older versions as well,  *)
(* and requests put together from parts of different age.                  *)
AllCards == UNION {Cards(d.files, TRUE) \cup Cards(d.files, FALSE) : d \in Drafts}

OtherClient(d, e) ==
    /\ drawn < MaxPublications          \* of PostSkill: not once for every card
    /\ \E card \in AllCards \cup {NoCard} : Post(Fields(d.files), e.files, card)
    /\ UNCHANGED <<visit, held>>

-----------------------------------------------------------------------------
(* A buyer *)

Begin(o) ==
    /\ visit = NoVisit /\ skill # NoSkill
    /\ visit' = [order |-> o, capability |-> Missing, bundle |-> Missing, mixedUp |-> FALSE]
    /\ UNCHANGED <<registry, held>>

FetchListing ==
    /\ visit # NoVisit /\ visit.capability = Missing
    /\ visit' = [visit EXCEPT !.capability = skill.capability]
    /\ UNCHANGED <<registry, held>>

Arrives(bundle, mixed) ==
    /\ visit # NoVisit /\ visit.bundle = Missing
    /\ visit' = [visit EXCEPT !.bundle = bundle, !.mixedUp = mixed]
    /\ UNCHANGED <<registry, held>>

BundleFor(o, files) ==
    LET fp == FingerprintOf[o]
    IN  BuildBuyerBundle(MasterFiles(files, fp), Varied(files, fp), skill.capability.digest, fp)

Served(files) == BundleFor(visit.order, files)

FetchBundle ==
    /\ visit # NoVisit
    /\ Arrives(Served(skill.files), FALSE)

(* Two faults the chain is there for: a registry that serves the files of  *)
(* another package under the digest it advertises, and files exchanged on  *)
(* the way.                                                                *)
FetchMixedUp(d) ==
    /\ visit # NoVisit /\ CheckCompliance(d.files, d.dir)
    /\ Arrives(Served(d.files), TRUE)

FetchGarbled(d) ==
    /\ visit # NoVisit /\ CheckCompliance(d.files, d.dir)
    /\ Arrives([Served(skill.files) EXCEPT !.delivered = Served(d.files).delivered], TRUE)

(* The scan is of what arrived, by whichever engine the buyer has. *)
Accepted == \E scan \in Scans(Stripped(visit.bundle)) :
    VerifyBundleChain(visit.capability, visit.bundle, scan)

Fetched == visit # NoVisit /\ Missing \notin {visit.capability, visit.bundle}

Install ==
    /\ Fetched /\ Accepted
    /\ held' = visit /\ visit' = NoVisit
    /\ UNCHANGED registry

(* The chain refuses, or the command is killed: nothing was written. *)
GiveUp ==
    /\ visit # NoVisit
    /\ visit' = NoVisit
    /\ UNCHANGED <<registry, held>>

Next ==
    \/ \E d \in Drafts : CliPublish(d) \/ FetchMixedUp(d) \/ FetchGarbled(d)
    \/ \E d, e \in Drafts : OtherClient(d, e)
    \/ \E o \in Orders : Begin(o)
    \/ FetchListing \/ FetchBundle \/ Install \/ GiveUp

Spec == Init /\ [][Next]_vars

-----------------------------------------------------------------------------
TypeOK ==
    /\ skill # NoSkill => skill \in published
    /\ drawn \in 0..MaxPublications
    /\ skill # NoSkill => \A p \in DOMAIN skill.openings : skill.openings[p].secret = drawn
    /\ visit # NoVisit => visit.order \in Orders
    /\ held # NoCopy => held.order \in Orders /\ held.capability \in {r.capability : r \in published}

(* The audit of a varied file against the openings of a publication. *)
Clears(r, p) ==
    /\ p \in DOMAIN r.openings
    /\ VerifyDerivationOpening(r.openings[p], Commitment(r.openings[p]),
                               held.bundle.varied[p], Stripped(held.bundle)[p])

RenderedAt(doc, selection) ==
    RenderedDoc(doc, [i \in DOMAIN doc.marks |-> doc.marks[i][selection[i]]])

(* docs/trust-model.md: what a buyer installed is what its capability says, *)
(* even if listing and bundle were fetched around a publication, or were    *)
(* mixed up: the capability is that of a publication; the unvaried files    *)
(* are its files; a varied file is its rendering at the selection recorded, *)
(* or the opening convicts the seller; and if it is paid, someone ran the   *)
(* tasks that ship with it on these very files and all of them passed.      *)
AsAdvertised ==
    held # NoCopy => \E r \in published :
        /\ r.capability = held.capability /\ r.price = held.capability.priceCents
        /\ \A p \in DOMAIN held.bundle.delivered :
              IF p \in DOMAIN held.bundle.varied
              THEN Clears(r, p) => Stripped(held.bundle)[p] = RenderedAt(r.files[p], held.bundle.varied[p])
              ELSE p \in DOMAIN r.files /\ Stripped(held.bundle)[p] = r.files[p]
        /\ r.price > 0 => /\ r.evals \in Cards(r.files, TRUE)
                          /\ r.evals.passed = Cardinality(r.files[TASKS])
                          /\ held.capability.evals.passed = held.capability.evals.total

(* Files that come back unchanged from embedding and stripping, whose marks *)
(* are slots and offer nothing that a scan would block on.                  *)
Servable(files) == \A p \in DOMAIN files \cap Markdown :
    /\ files[p].front \in {"metadata", "none"} /\ files[p].style = "plain"
    /\ files[p].license = NoLicense
    /\ ParseSlots(files[p]) = files[p].marks
    /\ \A i \in DOMAIN files[p].marks : \A q \in Critical \cup Distrusted :
          ~Shows(ToSet(files[p].marks[i]), q)

(* docs/trust-model.md: the opening of the commitment that a buyer holds    *)
(* clears a seller whose registry mixed nothing up, whatever was published  *)
(* between the buyer's two calls, and the copy is the one for this order,   *)
(* by which a leak of it is traced.                                         *)
HonestIsCleared ==
    held # NoCopy /\ ~held.mixedUp => \E r \in published :
        /\ r.capability = held.capability
        /\ Servable(r.files) => \A p \in DOMAIN held.bundle.varied :
              /\ Clears(r, p)
              /\ held.bundle.varied[p] = Selection(r.files[p], FingerprintOf[held.order])

(* What the gates let through can be installed: whatever is listed, every   *)
(* buyer's copy of it passes the chain, scanned by the engine that scanned  *)
(* the listing.                                                             *)
ListedInstalls ==
    skill # NoSkill /\ Servable(skill.files) => \A o \in Orders :
        LET bundle == BundleFor(o, skill.files)
        IN  \A scan \in Scans(Stripped(bundle)) : scan.engine = skill.capability.scan.engine
                => VerifyBundleChain(skill.capability, bundle, scan)
=============================================================================
