------------------------------- MODULE Tracing -------------------------------
(***************************************************************************)
(* Leaks and what POST /api/trace answers about them (packages/server/src/  *)
(* index.js), over publications, purchases, deliveries and revocations.    *)
(*                                                                         *)
(* A buyer gets copies of what was listed at the time; a laundered copy of  *)
(* one of them turns up at some time.  Laundering loses phrasings, the      *)
(* license line and zero-width characters, and adds nothing.  Tracing       *)
(* changes no state, so the answer is an operator, and the properties hold  *)
(* of it whenever it is asked for.                                         *)
(***************************************************************************)
EXTENDS Canary

CONSTANTS
    Skills, Sources,   \* slugs, and the contents published under them
    OrderIds,
    Fingerprinted,     \* the fingerprints that ids may derive to
    MaxListings,       \* bound on publications
    Hidden,            \* of a source, the author's own zero-width characters on either
                       \* side of the end of the first body line
    Mixed,             \* bound: may a leak keep both wording and some of the channels
    NoOrder, NoLeak

MARK == 2              \* the word joiner; 0 and 1 are the zero-width characters for bits
Hiding == [before : Seq({0, 1, MARK}), after : Seq({0, 1, MARK})]

ASSUME SourcesAssumption == \A s \in Sources : IsSource(s)
ASSUME FingerprintedAssumption == Fingerprinted \subseteq Fingerprints
ASSUME DigitsAssumption == FingerprintBits % 4 = 0
ASSUME HiddenAssumption == Hidden \in [Sources -> Hiding]
ASSUME MixedAssumption == Mixed \in BOOLEAN
ASSUME MaxListingsAssumption == MaxListings \in Nat

VARIABLES
    shelf,         \* store.data.skills, in the order of their keys
    orders,        \* store.data.orders; fp: the fingerprint its id derives to
    copies,        \* copies delivered: the order and the source it was rendered from
    leak,          \* the suspect document: a copy, the phrasings kept, whether the license
                   \* line is, and the zero-width characters that are left
    publications

tracingVars == <<shelf, orders, copies, leak, publications>>

Order == [skill : Skills, fp : Fingerprinted, revoked : BOOLEAN]
Copy  == [order : OrderIds, source : Sources]
ASSUME NoOrderAssumption == NoOrder \notin Order \cup OrderIds

OnRecord == {o \in OrderIds : orders[o] # NoOrder}
Listed(k) == {i \in DOMAIN shelf : shelf[i].skill = k}
SourceOf(k) == shelf[CHOOSE i \in Listed(k) : TRUE].source

TracingInit ==
    /\ shelf = <<>> /\ copies = {} /\ leak = NoLeak /\ publications = 0
    /\ orders = [o \in OrderIds |-> NoOrder]

(* A publication replaces the skill's record, in place. *)
Shelved(k, s) ==
    IF Listed(k) = {} THEN Append(shelf, [skill |-> k, source |-> s])
    ELSE [i \in DOMAIN shelf |-> IF shelf[i].skill = k THEN [shelf[i] EXCEPT !.source = s]
                                 ELSE shelf[i]]

Publish(k, s) ==
    /\ publications < MaxListings
    /\ shelf' = Shelved(k, s)
    /\ publications' = publications + 1
    /\ UNCHANGED <<orders, copies, leak>>

(* Ids are random, and their fingerprints (64 bits of an HMAC) differ.      *)
Purchase(o, k) ==
    /\ orders[o] = NoOrder /\ Listed(k) # {}
    /\ \E fp \in Fingerprinted \ {orders[x].fp : x \in OnRecord} :
          orders' = [orders EXCEPT ![o] = [skill |-> k, fp |-> fp, revoked |-> FALSE]]
    /\ UNCHANGED <<shelf, copies, leak, publications>>

Revoke(o) ==
    /\ o \in OnRecord /\ ~orders[o].revoked
    /\ orders' = [orders EXCEPT ![o].revoked = TRUE]
    /\ UNCHANGED <<shelf, copies, leak, publications>>

(* GET /api/bundle/:slug: the choices, then both fingerprint channels.      *)
Fetch(o) ==
    /\ o \in OnRecord /\ ~orders[o].revoked
    /\ copies' = copies \cup {[order |-> o, source |-> SourceOf(orders[o].skill)]}
    /\ UNCHANGED <<shelf, orders, leak, publications>>

(* The covert channel: the bits between two sentinels, which embedding puts *)
(* after the first line of the body.                                        *)
ToZeroWidth(fp) == <<MARK>> \o fp \o <<MARK>>
ZeroWidths(s, fp) == Hidden[s].before \o ToZeroWidth(fp) \o Hidden[s].after

(* What may be left of them: each is lost or not. *)
Remains(z) ==
    LET left[i \in 0..Len(z)] ==
            IF i = 0 THEN {<<>>} ELSE left[i - 1] \cup {Append(r, z[i]) : r \in left[i - 1]}
    IN  left[Len(z)]
Laundered == [s \in Sources |-> [fp \in Fingerprinted |-> Remains(ZeroWidths(s, fp))]]

(* Bound: one leak. *)
Leak ==
    /\ leak = NoLeak
    /\ \E c \in copies, frontmatter \in BOOLEAN :
          \E kept \in SUBSET DOMAIN c.source.marks,
             zero \in Laundered[c.source][orders[c.order].fp] :
             /\ Mixed \/ kept = {} \/ (zero = <<>> /\ ~frontmatter)
             /\ leak' = [copy |-> c, kept |-> kept, frontmatter |-> frontmatter, zero |-> zero]
    /\ UNCHANGED <<shelf, orders, copies, publications>>

TracingNext ==
    \/ \E k \in Skills, s \in Sources : Publish(k, s)
    \/ \E o \in OrderIds, k \in Skills : Purchase(o, k)
    \/ \E o \in OrderIds : Revoke(o) \/ Fetch(o)
    \/ Leak

TracingSpec == TracingInit /\ [][TracingNext]_tracingVars

-----------------------------------------------------------------------------
(* What POST /api/trace answers *)

Document ==
    LET wording == Rendered(leak.copy.source, orders[leak.copy.order].fp)
    IN  leak.copy.source.text \cup {wording[i] : i \in leak.kept}

SentinelOrEnd(z) ==                                       \* mutant of Sentinels
    {p \in (DOMAIN z) \X (2..(Len(z) + 1)) :
        /\ p[1] < p[2] /\ z[p[1]] = MARK /\ (p[2] = Len(z) + 1 \/ z[p[2]] = MARK)
        /\ \A i \in 1..(p[2] - 1) : z[i] = MARK => i = p[1]}

(* extractFingerprint: the first two sentinels, if there are two. *)
Sentinels(z) ==
    {p \in (DOMAIN z) \X (DOMAIN z) :
        /\ p[1] < p[2] /\ z[p[1]] = MARK /\ z[p[2]] = MARK
        /\ \A i \in 1..(p[2] - 1) : z[i] = MARK => i = p[1]}

(* What is read is a set: of no fingerprint (null), or of one, which may be *)
(* empty.  Bits make hexadecimal digits, or nothing.                        *)
FromZeroWidth(bits) == IF Len(bits) % 4 = 0 THEN {bits} ELSE {}
Covert(z) == UNION {FromZeroWidth(SubSeq(z, p[1] + 1, p[2] - 1)) : p \in Sentinels(z)}
Frontmatter == IF leak.frontmatter THEN {orders[leak.copy.order].fp} ELSE {}

(* Whatever the covert channel reads hides the frontmatter. *)
Match ==
    LET fp == IF Covert(leak.zero) # {} THEN Covert(leak.zero) ELSE Frontmatter
    IN  {o \in OnRecord : orders[o].fp \in fp}

CandidatesInForce(k) ==                                   \* mutant of Candidates
    {o \in OnRecord : orders[o].skill = k /\ ~orders[o].revoked}

(* Every order of the skill, revoked ones too. *)
Candidates(k) == {o \in OnRecord : orders[o].skill = k}

RankOf(verdict) ==
    CASE verdict = "identified" -> 3 [] verdict = "inconclusive" -> 2
      [] verdict = "insufficient-evidence" -> 1 [] verdict = "no-match" -> 0

Better(t, best) ==
    \/ RankOf(t.verdict) > RankOf(best.verdict)
    \/ RankOf(t.verdict) = RankOf(best.verdict) /\ t.bits > best.bits

(* What the wording says against the orders of a listed skill. *)
Trace(entry) ==
    TraceCanary(Document, entry.source, [o \in Candidates(entry.skill) |-> orders[o].fp])

(* The best evidence over all listed skills that have orders; the first of  *)
(* equals.  "no-match" is no evidence.                                      *)
Evidence ==
    LET Counts(t, entry, best) ==
            Candidates(entry.skill) # {} /\ t.verdict # "no-match" /\ Better(t, best)
        best[i \in 0..Len(shelf)] ==
            IF i = 0 THEN NoEvidence
            ELSE IF Counts(Trace(shelf[i]), shelf[i], best[i - 1]) THEN Trace(shelf[i])
            ELSE best[i - 1]
    IN  best[Len(shelf)]

-----------------------------------------------------------------------------
(* Phrases that cannot be taken for one another. *)
Distinct(p, q) == p # q /\ <<p, q>> \notin Within /\ <<q, p>> \notin Within

Options(s) == UNION {ToSet(s.marks[i]) : i \in DOMAIN s.marks}

(* Each option of a source can be told from all others and from the text.   *)
Legibly(s) ==
    /\ ParseSlots(s) = s.marks
    /\ \A i, j \in DOMAIN s.marks : \A a \in DOMAIN s.marks[i], b \in DOMAIN s.marks[j] :
          <<i, a>> # <<j, b>> => Distinct(s.marks[i][a], s.marks[j][b])
    /\ \A p \in Options(s), t \in s.text : Distinct(p, t)

(* The leak is of what is still listed, and shows nothing of other skills.  *)
StillListed ==
    /\ \A i \in DOMAIN shelf :
          IF shelf[i].skill = orders[leak.copy.order].skill
          THEN shelf[i].source = leak.copy.source
          ELSE \A p \in Options(shelf[i].source), t \in Options(leak.copy.source) \cup leak.copy.source.text :
                  Distinct(p, t)
    /\ Legibly(leak.copy.source)

(* docs/trust-model.md: a buyer is named only when exactly one order is     *)
(* consistent with every surviving slot.  Of a legible source still listed, *)
(* the buyer named is the one who leaked, whatever was lost in laundering,  *)
(* whoever collides, and whether or not the order was revoked since.        *)
NamesOnlyTheLeaker ==
    (leak # NoLeak /\ StillListed /\ Evidence.verdict = "identified")
        => Evidence.consistent = {leak.copy.order}

(* A copy that kept enough of its wording is never cleared: its order is    *)
(* among the consistent ones, and named if nobody else was given the same   *)
(* wording at these slots.                                                  *)
EnoughIsTraced ==
    (leak # NoLeak /\ Cardinality(leak.kept) >= MIN_OBSERVED_SLOTS /\ StillListed)
        => LET same == {o \in Candidates(orders[leak.copy.order].skill) :
                          \A i \in leak.kept :
                             Picked(leak.copy.source, orders[o].fp, i)
                                = Picked(leak.copy.source, orders[leak.copy.order].fp, i)}
           IN  Evidence.consistent = same
                  /\ Evidence.verdict = IF Cardinality(same) = 1 THEN "identified" ELSE "inconclusive"

(* The author's own characters have no sentinel among them. *)
Unmarked(s) == MARK \notin ToSet(Hidden[s].before) \cup ToSet(Hidden[s].after)

(* The payload is still there, as it was embedded. *)
Intact(z, fp) ==
    \E i \in 1..(Len(z) - FingerprintBits - 1) :
        SubSeq(z, i, i + FingerprintBits + 1) = ToZeroWidth(fp)

(* fingerprint.js: the covert channel backs the frontmatter up.  Whatever   *)
(* laundering leaves of either, the two name nobody but the leaker; and     *)
(* they do name the leaker if the payload is intact, or one of its          *)
(* sentinels is gone and the license line is left.  Bits that are lost      *)
(* between two sentinels leave another fingerprint, which hides the line.   *)
ChannelsNameTheLeaker ==
    (leak # NoLeak /\ Unmarked(leak.copy.source)) =>
        /\ Match \subseteq {leak.copy.order}
        /\ Intact(leak.zero, orders[leak.copy.order].fp) => Match = {leak.copy.order}
        /\ leak.frontmatter /\ Cardinality({i \in DOMAIN leak.zero : leak.zero[i] = MARK}) < 2
              => Match = {leak.copy.order}

(* docs/trust-model.md: "Partial paraphrase degrades to inconclusive rather *)
(* than misattributing", here of the version still listed.                  *)
ParaphraseNeverMisattributes ==
    (leak # NoLeak /\ leak.copy.source = SourceOf(orders[leak.copy.order].skill)
        /\ Evidence.verdict = "identified")
        => Evidence.consistent = {leak.copy.order}
=============================================================================
