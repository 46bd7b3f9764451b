------------------------------- MODULE Package -------------------------------
(***************************************************************************)
(* What is done with the files of a skill (packages/core/src): the release *)
(* requirements on SKILL.md, benchmarks, the safety scan, hashes, the      *)
(* capability, a buyer's bundle and the chain of checks it has to pass.    *)
(*                                                                         *)
(* A package maps paths to contents.  A Markdown file is a source in the   *)
(* sense of Canary with its frontmatter; the phrases at its marks, once    *)
(* they are rendered, are its words.  Whatever is signed is signed with    *)
(* the publisher's key, so that signatures are left out.                   *)
(***************************************************************************)
EXTENDS Canary

CONSTANTS
    ValidNames,     \* skill names that the standard allows
    PlainNames,     \* of these, the names that the CLI's slug leaves as they are
    OtherSlug,      \* the slug of any other name
    Critical,       \* phrases that match a critical rule of the builtin scan
    Distrusted,     \* phrases for which SkillSpector recommends DO_NOT_INSTALL
    NoLicense, NoCard,
    Hole            \* {{slot:i}} in a template

ASSUME NamesAssumption == PlainNames \subseteq ValidNames /\ OtherSlug \notin ValidNames
ASSUME HoleAssumption == Hole \notin Phrases

SKILL == "SKILL.md"
TASKS == "evals/tasks.json"

(* The order of the files in a request, which its JSON keeps. *)
MarkdownOrder == <<SKILL, "notes.md">>
Markdown == ToSet(MarkdownOrder)

SPEC_ALLOWED_FIELDS == {"name", "description", "license", "allowed-tools", "metadata", "compatibility"}

MetaOf(files) == files[SKILL].meta

(* A Markdown file as a seller writes it: nothing rendered yet. *)
IsDocument(doc) ==
    /\ doc = [meta |-> doc.meta, front |-> doc.front, style |-> doc.style, marks |-> doc.marks,
              words |-> <<>>, text |-> doc.text, license |-> doc.license]
    /\ IsSource([marks |-> doc.marks, text |-> doc.text])

-----------------------------------------------------------------------------
(* Release requirements *)

(* The official validator, if it is installed, applies the same rules. *)
ValidateName(name, dirName) == name \in ValidNames /\ name = dirName

ValidateSpec(meta, dirName) ==
    /\ {"name", "description"} \subseteq meta.fields
    /\ meta.fields \subseteq SPEC_ALLOWED_FIELDS
    /\ ValidateName(meta.name, dirName)

(* Version 0 is none, or one that is not semver; price -1 is unreadable.   *)
(* The fields that moved under metadata are none of the standard's either. *)
CheckCompliance(files, dirName) ==
    LET meta == MetaOf(files)
    IN  ValidateSpec(meta, dirName) /\ meta.version > 0 /\ meta.price >= 0 /\ meta.body

(* payout_splits, in percent, must leave the author something: looked at   *)
(* only when the terms are built.                                          *)
HasTerms(meta) == meta.splits < 100

SlugOf(meta) == IF meta.name \in PlainNames THEN meta.name ELSE OtherSlug

-----------------------------------------------------------------------------
(* Hashes and renderings *)

(* Without collisions: what is hashed can be told from its hash. *)
Sha256(x) == <<"sha256", x>>
Hashes(files) == [p \in DOMAIN files |-> Sha256(files[p])]
SkillDigestFromHashes(hashes) == Sha256(hashes)
SkillContentHash(files) == SkillDigestFromHashes(Hashes(files))

RenderedDoc(doc, words) == [doc EXCEPT !.marks = <<>>, !.words = words]

NeutralCopy(doc) == RenderedDoc(doc, [i \in DOMAIN doc.marks |-> doc.marks[i][1]])
Neutral(files) ==
    [p \in DOMAIN files |-> IF p \in Markdown THEN NeutralCopy(files[p]) ELSE files[p]]

(* The license line goes below "metadata:", which is added, or expanded, if *)
(* need be, and is taken out again.  A style is plain unless the newlines   *)
(* are mixed, which embedding makes alike, or there are zero-width          *)
(* characters of the author's, which go with those of the covert payload.   *)
EmbedFingerprint(doc, fp) ==
    [doc EXCEPT !.license = fp,
                !.front = CASE @ = "none" -> "license-only" [] @ = "without-metadata" -> "metadata-of-the-license"
                            [] @ = "inline-metadata" -> "metadata" [] OTHER -> @]

StripTheMarks(doc) == [doc EXCEPT !.license = NoLicense, !.style = "plain"]   \* mutant of StripFingerprint

StripFingerprint(doc) ==
    [doc EXCEPT !.license = NoLicense,
                !.front = CASE @ = "license-only" -> "none" [] @ = "metadata-of-the-license" -> "empty-metadata"
                            [] OTHER -> @,
                !.style = "plain"]

-----------------------------------------------------------------------------
(* Benchmarks and the scan *)

GradeTranscript(task, transcript) ==
    /\ \A p \in task.mustMention : Shows(transcript, p)
    /\ \A p \in task.mustNotMention : ~Shows(transcript, p)

(* answers: the agent's transcript for each task, which nothing determines.*)
RunEvals(files, answers, explicit) ==
    [content |-> SkillContentHash(files), explicit |-> explicit,
     total  |-> Cardinality(files[TASKS]),
     passed |-> Cardinality({t \in files[TASKS] : GradeTranscript(t, answers[t])})]

PhrasesIn(content, path) ==
    IF path \in Markdown THEN content.text \cup ToSet(content.words)
    ELSE UNION {t.mustMention \cup t.mustNotMention : t \in content}

Hits(files, phrases) ==
    {hit \in (DOMAIN files) \X phrases : Shows(PhrasesIn(files[hit[1]], hit[1]), hit[2])}

(* The builtin rules block on what they find critical; SkillSpector blocks *)
(* on its overall recommendation, whatever its findings.                   *)
ScanSkill(files) ==
    [engine |-> "builtin", blocked |-> Hits(files, Critical) # {},
     criticals |-> Cardinality(Hits(files, Critical))]
NormalizeSpectorReport(files) ==
    [engine |-> "skillspector", blocked |-> Hits(files, Distrusted) # {},
     criticals |-> Cardinality(Hits(files, Critical))]

(* SkillSpector may be missing, switched off or fail: then the builtin scan.*)
Scans(files) == {ScanSkill(files), NormalizeSpectorReport(files)}

-----------------------------------------------------------------------------
(* The capability *)

Slotted(files) == {p \in DOMAIN files \cap Markdown : ParseSlots(files[p]) # <<>>}

(* The selections, or arities, of the varied files one after another. *)
InOrder(f) == FlattenSeq([i \in DOMAIN MarkdownOrder |->
                            IF MarkdownOrder[i] \in DOMAIN f THEN f[MarkdownOrder[i]] ELSE <<>>])

(* The salts derive from the secret.  Every mark leaves a hole, those with *)
(* a single option too.                                                    *)
Opening(doc, secret) ==
    [template |-> RenderedDoc(doc, [i \in DOMAIN doc.marks |-> Hole]),
     slots |-> ParseSlots(doc), secret |-> secret]
Commitment(opening) == Sha256(opening)

Openings(files, secret) == [p \in Slotted(files) |-> Opening(files[p], secret)]

Arity(slots) == [i \in DOMAIN slots |-> Len(slots[i])]

NoDerivation == <<>>

Derivation(openings) ==
    IF DOMAIN openings = {} THEN NoDerivation
    ELSE [commit |-> Sha256([p \in DOMAIN openings |-> Commitment(openings[p])]),
          arity |-> InOrder([p \in DOMAIN openings |-> Arity(openings[p].slots)])]

BuildCapability(files, card, scan, openings) ==
    [priceCents |-> MetaOf(files).price, version |-> MetaOf(files).version,
     digest |-> SkillContentHash(files), files |-> Hashes(files),
     evals |-> IF card = NoCard THEN NoCard ELSE [passed |-> card.passed, total |-> card.total],
     scan |-> scan, derivation |-> Derivation(openings)]

-----------------------------------------------------------------------------
(* A buyer's bundle and what it has to pass *)

(* Every file with a mark is varied, whether or not the mark is a slot.    *)
Varied(files, fp) ==
    [p \in {q \in DOMAIN files \cap Markdown : files[q].marks # <<>>} |-> Selection(files[p], fp)]

MasterFiles(files, fp) ==
    [p \in DOMAIN files |->
        IF p \in Markdown THEN RenderedDoc(files[p], Rendered(files[p], fp)) ELSE files[p]]

BuildBuyerBundle(masterFiles, varied, digest, fp) ==
    LET out == [p \in DOMAIN masterFiles |->
                   IF p \in Markdown THEN EmbedFingerprint(masterFiles[p], fp) ELSE masterFiles[p]]
    IN  [digest |-> digest, varied |-> varied, delivered |-> out, files |-> Hashes(out)]

Stripped(bundle) ==
    [p \in DOMAIN bundle.delivered |->
        IF p \in Markdown THEN StripFingerprint(bundle.delivered[p]) ELSE bundle.delivered[p]]

VerifyBundle(bundle) == bundle.files = Hashes(bundle.delivered)

SameFiles(capability, bundle) ==                        \* mutant of Continuous
    DOMAIN bundle.delivered = DOMAIN capability.files

Continuous(capability, bundle) == bundle.digest = capability.digest

ProvenantIfListed(capability, bundle) ==                \* mutant of Provenant
    \A p \in (DOMAIN bundle.delivered \ DOMAIN bundle.varied) \cap DOMAIN capability.files :
        capability.files[p] = Sha256(Stripped(bundle)[p])

(* What is not varied is what was published. *)
Provenant(capability, bundle) ==
    \A p \in DOMAIN bundle.delivered \ DOMAIN bundle.varied :
        p \in DOMAIN capability.files /\ capability.files[p] = Sha256(Stripped(bundle)[p])

WithinSlots(capability, bundle) ==
    DOMAIN bundle.varied # {} =>
        LET selection == InOrder(bundle.varied)
        IN  /\ capability.derivation # NoDerivation
            /\ Len(selection) = Len(capability.derivation.arity)
            /\ \A i \in DOMAIN selection : selection[i] \in 1..capability.derivation.arity[i]

VerifyBundleChain(capability, bundle, scan) ==
    /\ SkillDigestFromHashes(capability.files) = capability.digest
    /\ VerifyBundle(bundle)
    /\ Continuous(capability, bundle)
    /\ Provenant(capability, bundle)
    /\ WithinSlots(capability, bundle)
    /\ ~scan.blocked

(* The audit of one file in a dispute. *)
Derived(opening, selection) ==
    RenderedDoc(opening.template,
        [i \in DOMAIN opening.template.words |->
            IF i \in DOMAIN opening.slots THEN opening.slots[i][selection[i]] ELSE Hole])

VerifyDerivationOpening(opening, commitment, selection, content) ==
    /\ Commitment(opening) = commitment
    /\ Len(selection) = Len(opening.slots)
    /\ \A i \in DOMAIN selection : selection[i] \in DOMAIN opening.slots[i]
    /\ Derived(opening, selection) = content
=============================================================================
