# Allodic in TLA+

Allodic is a self-hosted registry that sells agent skills, and the CLI that
publishes, buys and installs them. This directory holds TLA+ models of the parts
where orders, files and processes interleave, TLC configurations that check
them, and TLAPS proofs of what matters most. Paths below are relative to the
repository; `index.js`, `store.js`, `payments.js` and `limiter.js` are in
`packages/server/src`, `allodic.js` is `packages/cli/bin/allodic.js`,
`telemetry.js` is `packages/cli/lib/telemetry.js`, and `bundle.js`, `semver.js`
and the other modules named without a directory are in `packages/core/src`.

To check: `tlc -config X.cfg MCY.tla` for the runs, `tlapm YProofs.tla` for the
proofs.

## 1. The system

| component | state | operations | hard about it |
|---|---|---|---|
| Checkout and Stripe fulfillment (`index.js`, `payments.js`, `store.js`) | checkout intents, orders, parked refunds, processed webhook events | checkout, webhook, manual revocation | Stripe delivers events late, twice, in any order and under several ids; refunds may come before the order; the listing is repriced meanwhile; intents and event records are pruned |
| Store (`store.js`) | `this.data` in memory, rows in SQLite | mutators, reentrant `#tx`, resync | memory is written first: any row or the COMMIT may fail, the process may die |
| Publish gate and catalogue (`index.js`, `semver.js`, `spec.js`, `compliance.js`, `price.js`, `capability.js`) | listing, capability, history, derivation openings | `POST /api/skills` | the handler awaits an external scanner before it judges against the current listing; clients send fields, files and scorecards of different age |
| Evals and safety scan (`evals.js`, `scan.js`, `allodic.js`) | none | run, grade, scan | evidence has to be about the very files that are sold; seller and buyer may scan with different engines, and scan different renderings |
| Entitlement, activation, tokens (`index.js`, `store.js`) | codes, tokens, orders | activate start/finish, entitle, bundle, updates | one-shot codes tried several times; revocation in between |
| Installs and updates (`allodic.js`, `bundle.js`, `verifychain.js`) | agent directories, `installs.json`, `credentials.json` | add, update | kills between removal, rename and record; publications and new identities between calls; overlapping invocations |
| Usage reporting of the CLI (`telemetry.js`, `allodic.js`) | preference, queue, lock directory | record, flush, enable, disable, notice | processes share files; a lock that may be stale; opt-out against stale copies |
| Store boot (`store.js`) | JSON store, schema version, backups | import, schema ladder, rotation | import and rename are two steps; backups rotate before the new one is known to be good |
| Telemetry intake and totals (`index.js`, `store.js`) | buffers, totals | reports, events, insights | trimming a buffer must not lose or double totals |
| Rate limiter (`limiter.js`) | hits per key | check, sweep, evict | table at its limit, hits that expired and are still in it |
| Identity and server boot (`index.js`) | key pair | load, refuse or create | a new key beside old orders, after partial restores |
| Canaries, fingerprints, tracing (`canary.js`, `fingerprint.js`, `index.js`) | listing, orders; copies outside | render, trace | a leak is of a version that may be gone, buyers collide in their choices, slots share phrases, laundering loses parts |
| Signing, verification chain (`sign.js`, `verifychain.js`, `bundle.js`, `fingerprint.js`) | none | build, strip, verify, open a commitment | copies differ per buyer and still have to be what was published; listing and bundle are two calls |
| Local usage reports, web pages, scripts | none of interest | - | text, rendering and external programs |

How they interact. The CLI calls the registry over HTTP. The registry's handlers
run on one Node process: between two awaits a handler runs alone, so the only
points where handlers interleave are the awaits, namely Stripe's session creation in
checkout and the external scanner in publish (the mail transport comes after the
last write of its handler). All handlers write through the one Store. Stripe
calls the webhook. CLI invocations are separate processes that share files under
`~/.allodic` and the agents' skill directories.

What makes each correct:

- fulfillment: one payment, one order, on the agreed terms; refunds booked as
  reported, whatever their order; full refund ends the license; replays change
  nothing;
- store: a request's writes are durable together or not at all, memory is the
  committed disk whenever no handler runs;
- catalogue: the listing only moves to a higher version and a version's content
  is never swapped, so that `update` never offers a downgrade;
- release: what a buyer installs is what its capability says, benchmarked as it
  is; the chain refuses everything else and lets every listed skill through; a
  dispute clears an honest seller;
- rate limiter: a bounded table whose laziness and evictions nobody can tell
  from a sliding window that forgets only when it must, and then the key idle
  for longest;
- activation: a code mints one token;
- installs: a record is never ahead of the files it stands for, nor of the token
  that updates them; no update leaves the key a skill was added under;
- boot: what a legacy store held is served after any sequence of killed boots;
  the latest backup outlives failing boots; no identity is put over data signed
  under another one;
- tracing: a trace names a buyer only if that buyer leaked, and never clears a
  copy that kept enough;
- intake: totals count every report and event once, however the buffers are trimmed;
- usage reporting: no event lost through concurrency, disclosure before
  transmission, opt-out that holds, no invocation waits for ever.

## 2. The modules

    Semver ---------> Registry --- implements ---> Catalogue
                         |  its listing is what Fulfillment!Publish and Installs!Publish move
    Fulfillment ------- its deliveries are requests of ---> Store --- implements ---> AtomicStore
    Canary ---------> Tracing     over the listings and orders of Registry and Fulfillment
      +-> Package --> Release     what Registry's packages are, and Installs!Verified
    Limiter --- implements ---> SlidingWindow
    Installs            TelemetryClient             Boot ------- between two runs of the server

The models are composed by assumption and guarantee, not by a product that TLC
would have to explore: `Store` shows that a handler's writes form one atomic
step, which is why a webhook delivery (`Fulfillment`) and an activation
(`Registry`) are one action each; `Catalogue` is what `Registry` guarantees
about the listing, and `Installs` only lets the published version rise;
`Release` opens the packages that `Registry` takes as given, and shows for
`Installs` that a bundle passes only against the capability it was built for.

`MCX.tla` instantiates `X` for TLC (symmetry sets, the plan of requests, the
packages), `XProofs.tla` holds the theorems of `X`. A definition with
the comment "mutant of" is a deliberately wrong variant, used to see that a
property can fail; nothing else uses it.

### Fulfillment

State: `listing` (the price and version on sale), `calling` (checkout handlers
awaiting Stripe), `intents`, `orders`, `pending` and `recorded` are the tables
`skills`, `checkoutIntents`, `orders`, `pendingRefunds` and `webhookEvents`.
`stage`, `agreed`, `captured`, `refunds`, `channels` and `sent` are Stripe and
the buyer. `told` and `orphaned` are history.

Actions: `Publish` reprices; `BeginCheckout` / `FinishCheckout` are
`POST /api/checkout/:slug` before and after its await, the second with the
pruning of old intents; `FreeCheckout` is the instant order of a free skill;
`DeliverIgnored`, `DeliverRejected`, `DeliverPaid`, `DeliverRefund` are
`POST /api/webhook/stripe` for an event already recorded or not settled, one
whose amount fits no terms, a payment, a refund; each includes
`markEventProcessed` and its pruning. `RevokeOrder` is the seller's;
`Restart` drops the waiting handlers. `Pay`, `PayLater`, `Settle`, `Resend`,
`Refund`, `RefundFails` are Stripe's. `ApplyRefund` and `MergeRefund` follow
`applyRefund` and `addPendingRefund`, per-refund ids, cumulative totals and
clamping included.

### Store and AtomicStore

A request is its `Plan`: whether it runs in `transaction()` and which mutators
it calls. `mem` is `this.data`, `disk` the committed rows, `view` the rows as the
connection sees them, `depth` is `#txDepth`. `Mutate` changes memory,
`WriteRow` writes a row, `LeaveInner` and `Commit` leave a `#tx`, `Fail`
is a throw at any of these steps with rollback and resync (which may fail in
turn: `suspect`), `Crash` and `Boot` lose and reload memory. `AtomicStore`
has one step per request; the refinement maps its data to `disk` and "applied,
not yet answered" to the moment between COMMIT and return.

### Registry, Semver and Catalogue

`Semver` is `semver.js` on parsed versions: `CmpSemver` and its helpers as the code computes them, and
`Precedes`, the precedence rule of Semantic Versioning stated without them. `Registry` is one
skill: `BeginPublish` is the publish handler up to its await, `FinishPublish`
and `RefusePublish` the gates, the derivation commitment and `putSkill`
after it. `StartActivation`, `Lapse` and `FinishActivation` are the codes
(15 minutes pass in `Lapse`), `Purchase` and `Revoke` the licenses,
`Entitled` and `FetchBundle` the delivery. The derivation secret is a number
that every publication draws anew.

### Package and Release

`Package` is what is done with files, as operators: `CheckCompliance` and
`ValidateSpec`, `RunEvals` and `GradeTranscript`, `ScanSkill` and
`NormalizeSpectorReport`, `BuildCapability`, `BuildBuyerBundle`,
`EmbedFingerprint` and `StripFingerprint`, the checks of `VerifyBundleChain`,
and `VerifyDerivationOpening`. A Markdown file is a source of `Canary` with what its
frontmatter says (`meta`), the form of the frontmatter (`front`) and whether it
has mixed newlines or zero-width characters (`style`); a phrase stands for a
match of a scan rule or a task. Hashes can be told from one another and hold
what was hashed. `IsDocument` is what the parser yields of a Markdown file; `NoDerivation`
is the record of a publication without marks.

`Release` runs them: `CliPublish` is `cmdPublish` up to and with
`POST /api/skills` (`PostSkill`), `OtherClient` any other request, with fields, files and
a scorecard from different drafts. `skill` is the record that `putSkill` writes, `published`
the history of these. `Begin`, `FetchListing` and `FetchBundle` are the calls of
add, update and verify in either order, with publications in between;
`FetchMixedUp` is a registry that serves other files under the digest it advertises and
`FetchGarbled` files exchanged on the way, the two faults that the head of
`verifychain.js` and the bundle's signature are for. `Install` is the chain passing, `GiveUp`
the chain refusing. A refused request is a step that changes nothing and is left
out of `Next`.

### Limiter and SlidingWindow

`hits` is the Map (per key the times of its hits, numbered when they are of one tick),
`before` its order of insertion, `lastSweep` the last sweep, `answer` what the last request was
told. `Pass`, `Refuse` and `Serve` are the three ways through the middleware, each
with the sweep in front; `Tick` is the clock, `Restart` the process. `SlidingWindow` has only the
unexpired hits: time takes them away, and one key, idle for longest, is forgotten
when more than `MaxKeys` keys have some.

### Installs

One process per invocation, with a program counter over the calls and file
operations of `cmdAdd` and `cmdUpdate`. `dirs` is what each agent directory
holds (a version, nothing, or `Broken`: part of a removed copy), `installs` the
recorded versions, or `Torn`. Staging writes into a directory of the
invocation's own and is not a step, its failure is (`StagingFails`). Removal and
rename are separate steps, as are the truncation and the write of
`installs.json`. `creds` are the skills with a token in `credentials.json` (each skill
has a registry of its own): `License` is `acquireLicense` and the second
`tryBundle`, `SaveCreds` the read and the rename of `saveCreds`. `origin` is the key
the installed bundle was signed with, `pins` the recorded `keyId`. On the registries' side
`Publish` moves the listing and signs with the current `identity`, `NewIdentity` is a server that
starts over with `ALLODIC_ACCEPT_NEW_IDENTITY`, `Republish` the re-signing its warning asks for: until
then the listing shows the new key over a capability signed with the old one and does
not verify (`ServedListing`). `Verified` stands for the verification chain: bundle and
listing have to be of the same content and key; `Pinned` is update's comparison with its record.
The history variable `trusted` holds the skills and keys that an `add` has verified.

### TelemetryClient

One process per invocation, with the commands "use", "publish", "enable" and
"disable". `state` is `telemetry.json`, `queue` the queue file, `lock` the lock
directory (`Dead` when its creator was killed). The actions follow
`maybeShowFirstUseNotice`, `ensureState`, `recordEvent`, `withQueueLock`
(waiting, giving up, taking a stale lock), `flushTelemetry`, `clearQueue` and
`cmdTelemetry`; `Kill` ends a process anywhere.

### Canary and Tracing

`Canary` is `canary.js` as operators: `ParseSlots`, `Picked` (the next bits of
the fingerprint select an option), `Rendered`, `Observed`, `TraceCanary` with
its verdicts. A document is the set of phrases it shows; `Within` says which phrase is
part of another one's text. `Tracing` puts it to work: `Publish`, `Purchase`,
`Revoke`, `Fetch` (`GET /api/bundle/:slug`), and `Leak`, by which a copy delivered at some
time turns up with any part of its wording, its license line and its zero-width
characters lost. The zero-width characters are a sequence: the payload between its two
sentinels (`ToZeroWidth`), among those the author's text had before
(`ZeroWidths`, `Hidden`), of which laundering leaves any subsequence (`Remains`).
`POST /api/trace` changes no state, so it is the operators `Match` and `Evidence` (the best
over all listed skills), of which the properties hold whenever it is asked. `Match` reads the
channels as `extractFingerprint` and the handler do: what is between the first two sentinels,
damaged or not, empty or not, counts as the covert fingerprint unless its bits make no whole digits
(`Sentinels`, `FromZeroWidth`, `Covert`), and only if nothing counts is the license line read.

### Boot

One data directory over several boots. `json` is `store.json`, `disk` the
committed rows, `mem` is `this.data`, `backups` the `.bak` files, `key` the
identity, `pc` the step of the boot. `Ladder` is `#initSchema` (which refuses the database of a
newer server), `Import`, `Save` and `Rename` are `#migrateFromJson`, `Rotate` (two renames),
`Vacuum` and `Vacuumed` are `#backupRotate`, `BackupFails` its catch; `Identify` and `Mint` are the
identity step of `createApp`, which goes on, refuses, or mints. `Publish` and `Receive`
are the handlers whose rows matter here: `Clean` is what the routes of reports and events keep of
an item, `Added` is `addReport` and `addEvent`, `FoldReport` and `FoldEvent` are the
folds, with `ClampCount` and `FoldKey`. An import folds what has not been folded, each buffer by its own flag.
`Kill` stops the server anywhere; `LoseIdentity`, `RestoreIdentity` and
`Restore` are the operator's, as `docs/DEPLOY.md` describes them. `legacy`, `received`,
`latest`, `torn` and `accepted` are history.

## 3. The runs

| run | question | bounds |
|---|---|---|
| `fulfillment_orders` | Is every payment fulfilled exactly once and as agreed, and does a full refund end the license? | two sessions, one of them paying, one refund, two order ids, prices 0..2, two publications |
| `fulfillment_refunds` | Are refunds booked as reported, in any order, early and repeated? | one session, two refunds, both kinds of refund event, prices 0..2 |
| `partial_refund` | Does only a full refund revoke? (violated) | as above |
| `store` | Do memory and disk agree, is a request atomic? | the webhook's transaction, `createCheckoutIntent` and `revokeOrder`, over five rows |
| `registry` | Does the listing only rise, does a code mint once? | two publications in progress, three accepted, five packages of four versions out of the ten of the repository's own ordering test (a paid one with two contents), two codes, two tokens, one buyer |
| `release` | Is what a buyer installs what was advertised, is the honest seller cleared, can what is listed be installed? | eleven drafts of one skill (reworded, reworded with an option more, harmful in the second option or in the notes, a mark with one option, odd frontmatter, four that some gate refuses), two publications, two buyers, two transcripts, one external finding kept |
| `limiter` | Does the bounded, lazily swept table answer as a sliding window would? | three keys in a table of two, two hits a window, windows of two ticks |
| `installs` | Is a record ever ahead of the files or the token, does an update ever leave the pinned key? | two invocations at a time after any earlier adds, two skills, one of which may get a second key, two agents, two versions |
| `telemetry` | Is no event lost, does an undisturbed opt-out hold, does the notice come first, can everybody go on? | three invocations, two at a time, queue of two, batches of one |
| `tracing` | Is a buyer named only for a copy that buyer leaked, and found when enough is left? | two skills, two publications, four sources with one to four options a mark, two with zero-width characters of the author's (one of them a word joiner), two orders, three fingerprints of four bits, one leak, of which only wording or only channels are left (`Mixed`) |
| `tracing_paraphrase` | Does a paraphrase never misattribute? (violated) | one skill whose slots share phrases, two orders |
| `boot` | Is what was imported, counted and backed up still there after killed boots, and is the identity the one the data was signed under? | four boots, two identities, two agents of which one gets a key, two reports or events, buffers of one, counts from -1 to one over the cap |

Why the bounds are enough to be interesting. One paying session with two order
ids lets a duplicate order exist; the second session keeps the pruning and the
repricing of one sale apart from another. Two refunds are needed for a partial refund followed by
another, and for both event forms to disagree. The plan of `MCStore` has one
request of each shape: wrapped with a nested `#tx`, several rows in a `#tx` of
their own, a single row outside any. Three accepted publications give the
history two entries. `MCRegistry!Table` is the table of `update-semantics.test.js`, and
`TableAssumption` has TLC compare `Precedes` with it for every pair (numeric prereleases, release
above prerelease). Two invocations at
a time are the least that interfere; in `telemetry` a third one sees what they left, in `installs`
any skills may have been added before. A queue
of two is reached and overflows. Four boots are one more than backups are kept, so
that the latest can be pushed out; a second item of a kind trims its buffer and, from
the second agent, lands in the reserve. In `tracing` the wording and the channels are answered for apart, so a leak
keeps one or the other (`Mixed`); of four bits a damaged payload is the empty
fingerprint or none, and the shorter ones that 64 bits leave are covered by the proof.

Symmetry is used only in runs whose properties are safety properties.
Deadlock is not checked where the bounds stop the system (invocations are used
up, ids run out); `store` checks it.

### What the properties say

- `OneOrderPerPayment`, `SettledAsAgreed`, `PendingOnlyBeforeOrder`,
  `BooksWhatStripeReported`, `ReplayIsHarmless`, `OrdersOnlyMoveForward`:
  safety of fulfillment. `PaidIsFulfilled` and `FullRefundRevokes` are its
  liveness. They except sessions whose intent had been pruned when the payment
  settled: the code then compares with the current listing and logs the
  mismatch for manual reconciliation. `BooksWhatStripeReported` asks for
  equality when the endpoint subscribes to one kind of refund event only, and
  for "no less" with both, see the first finding.
- `MemoryIsDisk` excepts the case the code logs, a resync that failed as well.
- `ImplementsCatalogue`: the refinement. `HistoryClimbs` ties the
  recorded history, the listing and buyers' copies to `Precedes`, not to the comparison the gate uses.
- `NeverBehindRecord` and `RecordedIsInstalled` except overlapping invocations:
  the code takes no lock around `installs.json`, nor around `credentials.json`, where two adds
  may lose one of the tokens. `PinHolds` excepts nothing: an update whose listing and bundle
  come from before and after a new identity is refused as one against the pin is.
- `ExactTotals` ties totals, buffer and history in the store and in every
  backup. `BackupSurvives`: the latest complete backup outlives two further
  boots, and more if they leave no incomplete one behind; each incomplete one
  pushes the others on, so three in a row lose it.
- `IdentityContinues` excepts a directory for which the operator has set
  `ALLODIC_ACCEPT_NEW_IDENTITY`.
- `NamesOnlyTheLeaker` and `EnoughIsTraced` are about sources that are still
  listed and whose phrases cannot be taken for one another or for another skill's; the
  code promises the same of all sources, which `tracing_paraphrase` refutes.
- `ChannelsNameTheLeaker` has no such premise; it is about authors that use no word joiner
  (`Unmarked`). Whatever laundering leaves, the license line and the covert channel name
  nobody but the leaker; a payload left `Intact` names the leaker, with and without the line; and with at most
  one sentinel left the line does. It leaves out bits that are lost between two sentinels, which
  hide the line, see below.
- `AsAdvertised`: an installed copy came under the capability of a publication; its unvaried files are
  that publication's; a varied one is the publication's text rendered at the selection the bundle records,
  or the opening convicts the seller; and a paid skill's tasks were run on these very files. It does not say that
  the selection is this order's: a bundle mixed up with one of another wording that has more
  options (the draft `Widened`) is not told apart by an opening, and `docs/trust-model.md` promises
  only the reproduction from the recorded selection.
  `HonestIsCleared` asks the converse of a registry that mixed nothing up, there with the selection of this
  order's fingerprint, and `ListedInstalls` that
  whatever is listed passes the chain under the engine it was scanned with. The last two are about
  files that are `Servable`: the code fails them for others, see below.
- `ImplementsSlidingWindow`: the refinement; `Bounded`: the table's limit.
- `NoEventLost` excepts the two ways in which `withQueueLock` knowingly goes on
  without the lock, and the removal of a live lock taken for stale.

### Fairness

`Fulfillment!FairSpec`: some event not yet answered 200 is eventually delivered
again. Stripe retries for days with growing gaps; the store's failures are assumed not to
outlast that. Nothing is assumed about the order. `TelemetryClient` states no
liveness but its safety part, `NeverWaits`: every running invocation can take
its next step, and since the attempts on the lock are counted and every other step
leads forward, it ends. `Store`, `Registry`,
`Installs` and `Boot` claim no liveness: the CLI's calls to the registry have no timeout, and a
server that refuses to start waits for its operator.

### Disagreements between the code and what it says

1. `partial_refund`. `applyRefund` raises `amountRefunded` to the cumulative
   total of `charge.refunded` without noting which refund ids it covers. The
   `refund.created` of the same refund, arriving afterwards, is added on top, so
   a half refund is booked as a full one and the license revoked, against the
   doc comment of `applyRefund`.
2. `tracing_paraphrase`. `traceCanary` looks for each slot's options in the
   whole document. If two slots share phrases, as two slots of the example skill
   do, and one of them is lost, the other's phrase counts for both, and another
   buyer may be identified; `docs/trust-model.md` says that partial paraphrase
   degrades to inconclusive.

More show in the models without a run of their own. `POST /api/trace` takes the covert fingerprint whenever one is read
and the license line only otherwise (`index.js:752`). If laundering loses some of the bits between the
sentinels and a multiple of four is left, none included, what is read is a shorter fingerprint or the empty one, no order has
it, and the answer is no match beside an intact license line. A word joiner of the author's before the
end of the first body line has the same effect even on an unaltered copy, because the first two sentinels are
then not those of the payload; of a document that was published with a payload in it (a buyer's copy)
the older payload is read. `fingerprint.js:5` presents the covert channel as what is left when
the frontmatter is stripped, which holds of intact payloads; that it also overrules the frontmatter is
said nowhere. The first-use notice and the
publication counter write back a preference read earlier, so that a
`telemetry disable` in between is undone, where `docs/telemetry.md` promises an
immediate persistent opt-out (`LoneOptOutHolds` holds with nothing else running).
A mark with a single option is rendered but is no slot, so `traceCanary`
pairs the marks behind it with the wrong slots (`Canary!Comparable`), and an
unaltered copy is not identified. The removal of
`flushTelemetry`, which goes on without the lock, can overwrite an event that another
invocation has just appended, where the comment of `withQueueLock` speaks of
re-sending only (`NoEventLost` excepts it). And a server killed while it writes its
backup leaves an incomplete `.bak` (`Boot!Partial`), where `docs/DEPLOY.md`
calls these files consistent by construction.

Others come with `Registry`, `Installs` and `Release`, whose properties leave them out:

- A publication replaces the derivation openings, also a byte-identical one,
  and the history keeps versions and dates. A dispute over a copy delivered
  before cannot be opened, where `docs/trust-model.md` says that
  `GET /api/skills/:slug/derivation` yields the opening.
- `installBundle` removes the old copy before it renames the new one into place;
  a kill in between leaves no copy (`Installs!RemoveOld`, `Swap`), where the comment says "atomically".
- A mark with a single option leaves a hole in the template and a choice in the
  manifest but no slot in the commitment: the chain refuses such a skill for
  every buyer, and the opening would convict the seller (`WithinSlots`, `Derived`).
- Publication scans the neutral render, which the comment calls "what buyers'
  agents will see"; a buyer's copy has other options, and the buyer's scan may refuse it.
- `stripFingerprint` is called the inverse of `embedFingerprint`. It is not for
  inline `metadata: {}`, for frontmatter without `metadata:`, for mixed newlines
  and for zero-width characters of the author's; such files, unvaried, fail provenance for every buyer.
- Tasks `[]` give 0 of 0, which passes the gates of `cmdPublish` and of the server, where the comment
  says that no path publishes without benchmark evidence. A free skill may be
  listed with a scorecard that does not pass (`OtherClient`).
- Findings of the external scanner beyond the limit are dropped, critical ones
  included (`Merged`); SkillSpector's critical findings block only if an external scanner answered.
- The chain does not notice files of the capability that are missing from the bundle (`Provenant`
  looks at what was delivered), and which files are varied is the bundle's word.
- A non-ASCII name that the standard allows is mangled by the CLI's slug, and
  the server then refuses it (`SlugOf`, `Agrees`).
- The limiter forgets the key that was *served* least recently: a refused request
  is not stored and does not move its key, where the comments say "least-recently-seen" and
  "re-inserted on touch". A key that goes on being refused ages like an idle one.

## 4. The proofs

All are safety, for every value of the constants, from the named assumptions in the
modules: bounds are naturals, "none" values are outside the sets they
complement; `PlanAssumption`: a mutator without a `#tx` writes one row;
`SomethingToInstall`: there is a skill and an agent directory; `PackagesAssumption`: a package
has a parsed version; `SentAssumption`: an event lists an agent with count one;
`DraftsAssumption`: a draft has a `SKILL.md`, and its Markdown files are what the parser
yields; `FingerprintOfAssumption`: an order's fingerprint is one of the fingerprints;
`NamesAssumption` and `HoleAssumption`: a plain name is a valid one and what `OTHER` stands for is not,
and the hole of a template is no phrase.

- `FulfillmentProofs`: `TypeCorrect`; `OneLicensePerPayment`,
  `NoRefundLeftPending` and `SaleAsAgreed` from the inductive `SettlementInv`.
  Uniqueness of orders is not inductive alone: it needs that the session of an
  order has been captured for its terms and that an intent, while it exists,
  holds what the session was created with.
  `BooksKept` from `BooksInv`: what is parked while there is no order is what was told (`Parked`); what an
  order shows is the refunds told, each once, and at least the larger of their sum and the highest cumulative
  total, exactly that when one kind of event is subscribed (`Booked`); and Stripe reports only refunds it
  made, within what was captured (`RefundsReported`, `RefundsCovered`). `ReplayChangesNothing` and
  `OrdersClimb` are action properties from the same invariant.
- `StoreProofs`: `StoreTypeCorrect`, `MemoryFollowsDisk`, `StoreIsAtomic`, from
  `StoreInv`. Its heart is `Ahead` (memory is ahead of the connection by exactly
  the rows still due) and `Written` (the open transaction holds the request's
  rows as far as they are written); `Nesting` ties `#txDepth` to the mutator's own
  transaction, `Bare` covers requests outside any. At COMMIT, with nothing due, the view is
  the whole effect of the request, which is the refinement step.
- `RegistryProofs`: `RegistryTypeCorrect`; `CodesServeOnce`, which needs
  `FreshIsUnused` (a live code has minted nothing) to be inductive;
  `ListingOnlyRises`, the refinement to `Catalogue`: because the gate reads the
  current listing after the await, no invariant about the waiting submissions is needed beyond
  their being packages. `ComparisonIsPrecedence`: `gtSemver` decides `Precedes`, for all versions;
  `VersionsAreOrdered`: that order is total and strict, so no chain of updates leads
  back. `RecordClimbs` rests on both, and on nothing being held before the first publication (`RecordInv`).
- `ReleaseProofs`: `ReleaseTypeCorrect`, `SoldAsAdvertised`, `HonestSellerCleared` and
  `WhatIsListedInstalls`, from `ReleaseInv`, which says where everything a buyer may hold comes from:
  what is published passed the gates (`Published`), what a visit has fetched is the capability
  of one publication and a bundle built under that or another one, possibly of other files or garbled
  (`Fetching`), and what is installed passed the chain (`Installed`). The rest is about the operators. A
  garbled bundle passes only if nothing in it changed. Stripping undoes embedding
  on servable files, so provenance fixes the unvaried files. A file that clears the
  audit has as many slots as marks, so the slots are the marks (`ParseSlots` drops some and adds none),
  and the opening reproduces it from the publication's text. A rendering shows nothing that its options
  and text do not, so a buyer's scan hits nothing that the publication's did not.
- `ReleaseProofs` extends `Tracing` too, since both rest on `Canary`, whence the names `TracingInit`, `TracingNext`
  and `TracingSpec` there. Its theorems are `OnlyTheLeakerIsNamed`, `EnoughWordingIsTraced` and
  `ChannelsTraceTheLeaker`; they assume that fingerprints and sources are well formed and `NoOrder` is no order. `TraceInv` says where a leak comes from:
  a copy of a source, delivered for an order that is on record, of a skill that is
  listed, and the fingerprints of the finitely many orders differ; and that its zero-width characters
  are what is left of that copy's. For the channels, `RemainsInOrder`: what is left stands at ascending places
  of what was embedded, so two elements that are left are at most as far apart as they were (`FarApart`). Without word joiners of the author's
  the embedded sentinels are the only ones (`EmbeddedPayload`), so the first two that are left are
  these, and if as many bits are left between them as a fingerprint has, none was lost
  (`BetweenSentinels`). Any other number makes no order's fingerprint (`CovertReads`). For the wording, `OwnObserved`: of a legible source a document shows, slot by slot, the
  option picked where the mark was kept and nothing elsewhere. Hence the marks that count are those kept, and an
  order is consistent just if its copy agrees on all of them (`OwnTrace`; a part of a finite set that
  has as many elements is all of it). Of another listed source it shows nothing, so no slot survives
  (`OtherTrace`), and the best evidence along the shelf is that of the leak's own skill (`EvidenceOfOne`).
- `TelemetryProofs`: `TypeCorrect`, `LockInvariant`, `NothingLost`, `OptOutIsComplete` and
  `NoticeComesFirst`. `NoticeInv`: until someone has been informed every preference, in the file or in a
  process, is the fresh one, every queue is empty and nobody is on the way to queue or transmit.
  `LockInv`: while nobody has gone round the lock, whoever is in the critical section
  holds it, the queue it read covers the file, the file covers what is owed, and nothing
  is owed that was answered. `LoneInv`: from a `disable` with nothing else running
  on, everything is off, or that invocation is still at it.
- `LimiterProofs`: `LimiterTypeCorrect`, `LimiterIsBounded`, `LimiterImplements`, from
  an invariant that ties `before` to the newest hits: of two keys in the table the one inserted first was
  served first. The evicted key is therefore the one idle for longest, and if some
  key has expired, so has the evicted one.
- `InstallsProofs`: `InstallsTypeCorrect`, `RecordNeverAhead`, `PinAlwaysHolds` and
  `RecordIsHonoured`, from three inductive invariants. `InstallsInv`: nothing known is above what is
  published, and of an invocation alone (`Ahead`) the bundle at hand is no older than any record and nothing older
  is left where it has been placed. `PinInv` needs no premise about overlap: an invocation carries
  only keys that an `add` has verified, and update looks only at skills it has a record, hence a pin, of.
  `SteadyInv` holds until something overlaps or is killed: what is recorded, or about to be, is
  in every directory but the one being replaced (`Hole`), which is why update's targets are all of them.
- `BootProofs`: `LegacyIsServed`, `IdentityAlwaysContinues` and `BackupAlwaysSurvives`, from `BootInv`.
  `Kept`: until the JSON file is gone the rows are empty or hold all of it, and so does every
  backup. `OneIdentity`: rows and JSON file are of the identity in place or of the lost one, and a boot that mints
  has no rows, or was told to. `Places`: the latest backup is at most as far down as there
  were boots since, with nothing above it unless a later one was left incomplete. Rows are known by their
  shape alone there (`Rows`), which needs nothing of what the folds compute.
- `BootProofs` also has `BootTypeCorrect` and `TotalsStayExact`, from `TotalsInv` beside `BootInv`. `Ledger`:
  the rows and those in memory are typed and exact (`Sound`), and the JSON file still holds every
  item in its buffers, counted where a buffer's flag says so and not elsewhere (`Whole`), so that an
  import may be repeated after any kill and counts each item once. `Archive`: so are the rows of every complete
  backup, whichever is restored. Under it lies what the operators compute. A fold is shown
  to be a run of single steps (`FoldAgentsRun`, `ClampedRun`, `FoldItemsRun`), a sum not to
  depend on the order of its summands (`AddsAny`), one entry to add its count under a key that keeps the table within
  its limit (`FoldAgentAdds`), one item to add what it counts for to its own part of
  the totals only (`ItemCounts`), a trimmed buffer to hold the latest items (`TrimmedIsRecent`). Premises:
  finitely many agents, `MaxCount` at least 1, and each agent of an event counts one (`SentAssumption`).

What recursive functions compute (`ParseSlots`, `Number`, the comparison of prereleases, the
rewriting of the queue, sums over sets of refunds) and what `FoldLeft` and `SumFunction` compute is proved by induction over a set: a lemma such as
`NatSetInduction` says that a subset of the naturals with 0 and every successor is all of them, and each use
names the set of numbers for which its claim holds. The library's induction theorems, which
take an operator, cannot be used here.

Only model-checked:

- `NeverWaits`, which is about ENABLED, and the liveness of `Fulfillment`, `PaidIsFulfilled` and
  `FullRefundRevokes`: out of the prover's reach.

## 5. Assumptions and what is left out

- SQLite: a deferred BEGIN does no I/O and does not fail; ROLLBACK leaves no
  transaction open; a committed transaction is durable.
- Random ids, codes, tokens and secrets do not collide with live ones.
- Telemetry: a malformed preference or queue file, which the code renames
  away, does not occur; files are replaced by an atomic rename.
- Publishing: compliance demands a valid version, so the fallback for
  unparseable ones is not modelled, nor `ALLODIC_ALLOW_VERSION_ROLLBACK`;
  the packages of `Registry` have canary slots. Scorecards are of runs that were made: the server has
  no means to tell. Hashes do not collide, signatures are the publisher's; a package is two Markdown files and its
  tasks, YAML is taken as parsed, and the official validator agrees with the port of it.
- Limiter: the clock does not step back.
- Checkout: a failing `createCheckout` leaves what `Restart` leaves; the
  development provider is not modelled; currencies are not distinguished.
- Installs: the agent directories are fixed; update visits the skills in any
  order; a removal fails only on interference; each skill has a registry of its own; the
  delivery event, which is best effort and which nothing reads, is left out.
- Boot: SQLite's exclusive lock admits one server per directory; reports and events are of one
  skill; names are short and a report does not name an agent twice; totals stay below 2^53, where the code
  lets those of an agent saturate;
  the operator restores a backup only beside the identity it belongs to.
- Tracing: fingerprints of different orders differ; the suspect is one copy that
  lost phrases, its license line and zero-width characters and gained none, not a mixture of several; the
  author wrote no license line of their own; a fingerprint is a whole number of hexadecimal digits; case and white space are normalised away; marks have at
  least one option.
- Cryptography, scan patterns, agents and the text of prices enter as
  outcomes. Rendering, logging, HTTP statuses and mail are left out.

## 6. Plan

Done: `Fulfillment`, `Store`, `Registry`, `TelemetryClient`, `Installs`, `Boot`,
`Canary`, `Tracing`, `Limiter`, `Package` and `Release`; and every safety property of
the passing runs but `NeverWaits` is proved. What a continuation could take up:

- `cmdUpdate` writing back the installs it read before its network calls, and a torn
  `installs.json`: `Installs` has the interleavings and the torn file, and a
  property of its own would say which installs may be forgotten;
- a kill between the removal of the prior install and the rename of the staged one:
  what is left under the agent directory, and whether a next `add` or
  `update` repairs it;
- a payment that settles after its intent was pruned, compared with
  the listing of the day: the amount a late buyer must have paid for an order;
- the malformed preference file, renamed away, after which reporting is on again;
- `allodic verify --evals`, which runs the published tasks again with the buyer's agent;
- a CLI call to a registry that never answers: the code sets no timeout, so nothing
  can be promised until it does.
