------------------------------ MODULE Installs ------------------------------
(***************************************************************************)
(* `allodic add` and `allodic update` (packages/cli/bin/allodic.js, with   *)
(* installBundle of packages/core/src/bundle.js): several invocations over *)
(* the same agent directories and the same installs.json, each killable    *)
(* between any two of its steps, against registries that go on publishing  *)
(* (module Registry: a listing only moves to a higher version) and whose   *)
(* operators may start over with a new identity (module Boot).             *)
(*                                                                         *)
(* A version stands for its content, and each skill has a registry of its  *)
(* own.  Every network call, every removal, rename, truncation and write   *)
(* is a step; staging the files is not, the staging directory being the    *)
(* invocation's own.                                                       *)
(***************************************************************************)
EXTENDS Integers, FiniteSets

CONSTANTS
    Procs,          \* invocations, each runs one command
    MaxConcurrent,  \* bound on invocations running at a time
    Slugs,          \* skills
    Agents,         \* the agent directories on this machine
    MaxVersion,     \* bound on publications of a skill
    MaxKey,         \* bound on the identities of a registry
    Rekeyed         \* the skills whose registry may get a new one

ASSUME MaxVersionAssumption == MaxVersion \in Nat \ {0}
ASSUME MaxKeyAssumption == MaxKey \in Nat \ {0}
ASSUME SomethingToInstall == Slugs # {} /\ Agents # {}

Versions == 0..MaxVersion       \* 0: none
Keys     == 0..MaxKey           \* publisher keys; 0: none
Broken   == -1                  \* a directory whose removal has begun, a torn file

Absent == [s \in Slugs |-> 0]
Torn   == [s \in Slugs |-> Broken]

VARIABLES
    published,   \* the registries: the version each skill is listed at
    signedBy,    \*   the key its capability is signed with
    identity,    \*   the key the registry has now
    dirs,        \* agent directory, skill -> the version installed
    origin,      \*   the key its bundle was signed with
    installs,    \* installs.json: the version recorded of each skill
    pins,        \*   the publisher's key, keyId
    creds,       \* credentials.json: the skills whose registry gave a token
    proc,        \* the invocations
    overlapped,  \* history: two invocations have run at a time
    killed,      \* history: an invocation has been killed
    trusted      \* history: skills and keys that an `add` has verified

registry == <<published, signedBy, identity>>
folders  == <<dirs, origin>>
records  == <<installs, pins>>
history  == <<overlapped, killed, trusted>>
vars     == <<registry, folders, records, creds, proc, history>>

PCs == {"idle", "next", "license", "bundle", "listing", "verify", "creds", "token",
        "place", "remove", "removing", "swap", "read", "save", "saving", "done"}

(* One invocation: its command and step, the skill at hand, the installs it *)
(* read with their pins, those still to look at, the credentials it read,   *)
(* the bundle and the listing it fetched, each with its key, and where it   *)
(* goes.                                                                    *)
Invocation == [cmd : {"add", "update"}, pc : PCs, slug : Slugs, list : [Slugs -> Versions],
               pins : [Slugs -> Keys], todo : SUBSET Slugs, creds : SUBSET Slugs,
               bundle : Versions, bundleKey : Keys, listing : Versions, key : Keys,
               targets : SUBSET Agents, agent : Agents]

Unpinned == [s \in Slugs |-> 0]

Blank(pc) == [cmd |-> "add", pc |-> pc, slug |-> CHOOSE s \in Slugs : TRUE, list |-> Absent,
              pins |-> Unpinned, todo |-> {}, creds |-> {},
              bundle |-> 0, bundleKey |-> 0, listing |-> 0, key |-> 0,
              targets |-> {}, agent |-> CHOOSE a \in Agents : TRUE]

(* Some skills have been added before. *)
Init ==
    /\ published = [s \in Slugs |-> 1] /\ signedBy = published /\ identity = published
    /\ \E S \in SUBSET Slugs :
          LET one == [s \in Slugs |-> IF s \in S THEN 1 ELSE 0]
          IN  /\ dirs = [a \in Agents |-> one] /\ origin = dirs
              /\ installs = one /\ pins = one
              /\ creds = S /\ trusted = S \X {1}
    /\ proc = [p \in Procs |-> Blank("idle")]
    /\ overlapped = FALSE /\ killed = FALSE

Running(p) == proc[p].pc \notin {"idle", "done"}
Quiet == \A p \in Procs : ~Running(p)
At(p, pc) == proc[p].pc = pc

Become(p, r) == proc' = [proc EXCEPT ![p] = r]
Goto(p, pc) == Become(p, [proc[p] EXCEPT !.pc = pc])
Ends(p) == Become(p, Blank("done"))

FilesKept == UNCHANGED <<folders, records, creds>>

-----------------------------------------------------------------------------
(* The registries *)

Publish(s) ==
    /\ published[s] < MaxVersion
    /\ published' = [published EXCEPT ![s] = @ + 1]
    /\ signedBy' = [signedBy EXCEPT ![s] = identity[s]]
    /\ UNCHANGED <<identity, proc, history>> /\ FilesKept

(* The same files at the same version are signed again. *)
Republish(s) ==
    /\ signedBy[s] # identity[s]
    /\ signedBy' = [signedBy EXCEPT ![s] = identity[s]]
    /\ UNCHANGED <<published, identity, proc, history>> /\ FilesKept

NewIdentity(s) ==
    /\ s \in Rekeyed /\ identity[s] < MaxKey
    /\ identity' = [identity EXCEPT ![s] = @ + 1]
    /\ UNCHANGED <<published, signedBy, proc, history>> /\ FilesKept

-----------------------------------------------------------------------------
(* Starting a command: update reads installs.json, and dies of a torn one, *)
(* has nothing to do for an empty one, or reads the credentials.           *)

ReadAnyway == TRUE                                        \* mutant of Readable

Readable == installs # Torn

Start(p) ==
    /\ At(p, "idle")
    /\ Cardinality({q \in Procs : Running(q)}) < MaxConcurrent
    /\ \/ \E s \in Slugs : Become(p, [Blank("listing") EXCEPT !.slug = s])
       \/ /\ Readable /\ installs # Absent
          /\ Become(p, [Blank("next") EXCEPT !.cmd = "update", !.list = installs, !.pins = pins,
                                             !.todo = {s \in Slugs : installs[s] > 0},
                                             !.creds = creds])
       \/ (~Readable \/ installs = Absent) /\ Ends(p)
    /\ overlapped' = (overlapped \/ \E q \in Procs : Running(q))
    /\ UNCHANGED <<registry, killed, trusted>> /\ FilesKept

-----------------------------------------------------------------------------
(* The network calls *)

(* What a call brings: the bundle is signed as it is served, the capability *)
(* was signed when it was published, so that a listing of an identity that  *)
(* has gone does not verify (0).                                            *)
ServedBundle(i) == [i EXCEPT !.bundle = published[i.slug], !.bundleKey = identity[i.slug]]
ServedListing(i) ==
    [i EXCEPT !.listing = IF signedBy[i.slug] = identity[i.slug] THEN published[i.slug] ELSE 0,
              !.key = identity[i.slug]]

(* update's loop: without a token, on an error or for a version that is not *)
(* above the recorded one the skill is skipped; after the last one the list *)
(* is written back.  What was fetched for a skill is forgotten.             *)
NextInstall(p) ==
    /\ At(p, "next")
    /\ \/ proc[p].todo = {} /\ Goto(p, "save")
       \/ \E s \in proc[p].todo :
             LET rest == [proc[p] EXCEPT !.todo = @ \ {s}, !.bundle = 0, !.bundleKey = 0,
                                         !.listing = 0, !.key = 0]
             IN  \/ Become(p, rest)
                 \/ /\ s \in proc[p].creds /\ published[s] > proc[p].list[s]
                    /\ Become(p, [rest EXCEPT !.slug = s, !.pc = "bundle"])
    /\ UNCHANGED <<registry, history>> /\ FilesKept

(* tryBundle answers null on any failure: update fetches the listing all   *)
(* the same, add asks for a license if the skill is free, and else dies.   *)
FetchBundle(p) ==
    /\ At(p, "bundle")
    /\ IF proc[p].cmd = "add"
       THEN \/ Become(p, [ServedBundle(proc[p]) EXCEPT !.pc = "verify"])
            \/ Goto(p, "license") \/ Ends(p)
       ELSE \/ Become(p, [ServedBundle(proc[p]) EXCEPT !.pc = "listing"])
            \/ Goto(p, "listing")
    /\ UNCHANGED <<registry, history>> /\ FilesKept

(* acquireLicense, then the bundle again with the new token. *)
License(p) ==
    /\ At(p, "license")
    /\ \/ Become(p, [ServedBundle(proc[p]) EXCEPT !.pc = "creds"])
       \/ Ends(p)
    /\ UNCHANGED <<registry, history>> /\ FilesKept

(* saveCreds reads the credentials, and replaces them in one rename. *)
SaveCreds(p) ==
    /\ \/ /\ At(p, "creds")
          /\ Become(p, [proc[p] EXCEPT !.creds = creds \cup {proc[p].slug}, !.pc = "token"])
          /\ UNCHANGED creds
       \/ /\ At(p, "token")
          /\ creds' = proc[p].creds
          /\ Goto(p, "verify")
    /\ UNCHANGED <<registry, folders, records, history>>

(* add then looks for its token. *)
FetchListing(p) ==
    /\ At(p, "listing")
    /\ \/ Become(p, [ServedListing(proc[p]) EXCEPT
                        !.pc = IF proc[p].cmd = "update" THEN "verify"
                               ELSE IF proc[p].slug \in creds THEN "bundle" ELSE "license"])
       \/ Ends(p)
    /\ UNCHANGED <<registry, history>> /\ FilesKept

-----------------------------------------------------------------------------
(* Verification: the chain binds the bundle to the listing's capability    *)
(* and key, and update the listing to the key it has pinned.               *)

Verified(p) ==
    /\ proc[p].bundle # 0 /\ proc[p].bundle = proc[p].listing
    /\ proc[p].bundleKey = proc[p].key

PinIgnored(p) == TRUE                                     \* mutant of Pinned

Pinned(p) == proc[p].cmd = "update" => proc[p].pins[proc[p].slug] \in {0, proc[p].key}

(* add installs everywhere, update where the skill is.                     *)
FirstTarget(p) ==                                         \* mutant of Targets
    IF proc[p].cmd = "add" THEN Agents ELSE {CHOOSE a \in Agents : TRUE}

Targets(p) ==
    {a \in Agents : proc[p].cmd = "update" => dirs[a][proc[p].slug] # 0}

Verify(p) ==
    /\ At(p, "verify")
    /\ IF Pinned(p) /\ Verified(p)
       THEN /\ Become(p, [proc[p] EXCEPT !.pc = "place", !.targets = Targets(p)])
            /\ trusted' = IF proc[p].cmd = "add" THEN trusted \cup {<<proc[p].slug, proc[p].key>>}
                          ELSE trusted
       ELSE /\ IF proc[p].cmd = "add" THEN Ends(p) ELSE Goto(p, "next")
            /\ UNCHANGED trusted
    /\ UNCHANGED <<registry, overlapped, killed>> /\ FilesKept

-----------------------------------------------------------------------------
(* installBundle: stage, remove the prior install, rename into place       *)

Here(p) == dirs[proc[p].agent][proc[p].slug]
PutHere(p, v, k) ==
    /\ dirs' = [dirs EXCEPT ![proc[p].agent][proc[p].slug] = v]
    /\ origin' = [origin EXCEPT ![proc[p].agent][proc[p].slug] = k]

StagingSkipped(p) ==                                      \* mutant of StagingFails
    \E a \in proc[p].targets : Become(p, [proc[p] EXCEPT !.targets = @ \ {a}])

(* A write of the staged files fails (a full disk): the command dies.      *)
StagingFails(p) == proc[p].targets # {} /\ Ends(p)

(* Next target, or on: add records the install, update its new version.    *)
Place(p) ==
    /\ At(p, "place")
    /\ \/ /\ proc[p].targets = {}
          /\ IF proc[p].cmd = "add" THEN Goto(p, "read")
             ELSE Become(p, [proc[p] EXCEPT !.list[proc[p].slug] = proc[p].bundle, !.pc = "next"])
       \/ \E a \in proc[p].targets :
             Become(p, [proc[p] EXCEPT !.agent = a, !.targets = @ \ {a}, !.pc = "remove"])
       \/ StagingFails(p)
    /\ UNCHANGED <<registry, history>> /\ FilesKept

RemoveOld(p) ==
    /\ At(p, "remove")
    /\ IF Here(p) = 0 THEN Goto(p, "swap") /\ UNCHANGED folders
       ELSE Goto(p, "removing") /\ PutHere(p, Broken, 0)
    /\ UNCHANGED <<registry, records, creds, history>>

(* The removal takes what is there; of a directory another invocation has  *)
(* just renamed into place it may leave all or a part, and fail.           *)
RemovedOld(p) ==
    /\ At(p, "removing")
    /\ \/ Goto(p, "swap") /\ PutHere(p, 0, 0)
       \/ Here(p) > 0 /\ Ends(p) /\ (UNCHANGED folders \/ PutHere(p, Broken, 0))
    /\ UNCHANGED <<registry, records, creds, history>>

(* rename replaces an empty directory and refuses one that is not. *)
Swap(p) ==
    /\ At(p, "swap")
    /\ \/ /\ Here(p) <= 0
          /\ Goto(p, "place") /\ PutHere(p, proc[p].bundle, proc[p].bundleKey)
       \/ Here(p) # 0 /\ Ends(p) /\ UNCHANGED folders
    /\ UNCHANGED <<registry, records, creds, history>>

-----------------------------------------------------------------------------
(* installs.json *)

(* recordInstall reads the file, and dies of a torn one. *)
ReadInstalls(p) ==
    /\ At(p, "read")
    /\ IF ~Readable THEN Ends(p)
       ELSE Become(p, [proc[p] EXCEPT !.list = [installs EXCEPT ![proc[p].slug] = proc[p].bundle],
                                      !.pins = [pins EXCEPT ![proc[p].slug] = proc[p].key],
                                      !.pc = "save"])
    /\ UNCHANGED <<registry, history>> /\ FilesKept

(* writeFileSync truncates, then writes. *)
Save(p) ==
    /\ At(p, "save")
    /\ installs' = Torn /\ pins' = Unpinned
    /\ Goto(p, "saving")
    /\ UNCHANGED <<registry, folders, creds, history>>

(* Written over what another invocation wrote meanwhile, the file may end  *)
(* in the tail of the longer text.                                         *)
Saved(p) ==
    /\ At(p, "saving")
    /\ \/ installs' = proc[p].list /\ pins' = proc[p].pins
       \/ installs # Torn /\ installs' = Torn /\ pins' = Unpinned
    /\ Ends(p)
    /\ UNCHANGED <<registry, folders, creds, history>>

Kill(p) ==
    /\ Running(p)
    /\ Ends(p)
    /\ killed' = TRUE
    /\ UNCHANGED <<registry, overlapped, trusted>> /\ FilesKept

-----------------------------------------------------------------------------
Step(p) ==
    \/ Start(p)
    \/ NextInstall(p) \/ FetchBundle(p) \/ FetchListing(p)
    \/ License(p) \/ SaveCreds(p) \/ Verify(p)
    \/ Place(p) \/ RemoveOld(p) \/ RemovedOld(p) \/ Swap(p)
    \/ ReadInstalls(p) \/ Save(p) \/ Saved(p)
    \/ Kill(p)

Next ==
    \/ \E s \in Slugs : Publish(s) \/ Republish(s) \/ NewIdentity(s)
    \/ \E p \in Procs : Step(p)

Spec == Init /\ [][Next]_vars

-----------------------------------------------------------------------------
TypeOK ==
    /\ published \in [Slugs -> Versions]
    /\ signedBy \in [Slugs -> Keys] /\ identity \in [Slugs -> Keys]
    /\ dirs \in [Agents -> [Slugs -> Versions \cup {Broken}]]
    /\ origin \in [Agents -> [Slugs -> Keys]]
    /\ installs \in [Slugs -> Versions] \cup {Torn} /\ pins \in [Slugs -> Keys]
    /\ creds \subseteq Slugs
    /\ proc \in [Procs -> Invocation]
    /\ overlapped \in BOOLEAN /\ killed \in BOOLEAN /\ trusted \subseteq Slugs \X Keys

(* While invocations do not overlap, and however they are killed, no whole  *)
(* install is ever older than its record: `update` never calls an old copy  *)
(* current (cmdAdd, cmdUpdate, recordInstall).                              *)
NeverBehindRecord ==
    ~overlapped =>
        \A a \in Agents, s \in Slugs : dirs[a][s] > 0 => dirs[a][s] >= installs[s]

(* Undisturbed, a recorded skill is on every agent directory, at the        *)
(* recorded version or above, and there is a token to update it with,       *)
(* whatever was published between the calls and whichever call or staging   *)
(* failed.                                                                  *)
RecordedIsInstalled ==
    (~overlapped /\ ~killed /\ Quiet) =>
        \A s \in Slugs : installs[s] > 0 =>
            s \in creds /\ \A a \in Agents : dirs[a][s] >= installs[s]

(* docs/trust-model.md, Signing and key pinning: whatever is killed or    *)
(* overlaps, whichever identity a registry takes on between two calls, what *)
(* is installed was signed with a key the user has once added the skill     *)
(* under; update brings in no other.                                        *)
PinHolds ==
    \A a \in Agents, s \in Slugs : dirs[a][s] > 0 => <<s, origin[a][s]>> \in trusted
=============================================================================
