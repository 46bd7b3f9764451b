--------------------------- MODULE InstallsProofs ---------------------------
(***************************************************************************)
(* Theorems about Installs, for any number of invocations, skills, agent   *)
(* directories, versions and keys.                                         *)
(***************************************************************************)
EXTENDS Installs, TLAPS

Fetched == {"listing", "creds", "token", "verify", "place", "remove", "removing", "swap", "read"}
Placing == {"place", "remove", "removing", "swap", "read"}

(* Nothing is recorded, or about to be, above what is published. *)
Known(p) ==
    /\ \A s \in Slugs : proc[p].list[s] <= published[s]
    /\ proc[p].pc \in Fetched => proc[p].bundle <= published[proc[p].slug]
    /\ proc[p].pc = "bundle" /\ proc[p].cmd = "update" => proc[p].bundle = 0

Listed ==
    /\ \A s \in Slugs : installs[s] <= published[s]
    /\ \A p \in Procs : Known(p)

(* Where an invocation has not yet put the bundle it is placing. *)
Waiting(i) ==
    IF i.pc = "read" THEN {}
    ELSE IF i.pc = "place" THEN i.targets
    ELSE i.targets \cup {i.agent}

Pending(p) == Waiting(proc[p])

(* No whole install is older than the versions in f. *)
NoneOlder(f) == \A a \in Agents, s \in Slugs : dirs[a][s] > 0 => dirs[a][s] >= f[s]

(* A bundle at hand is no older than what is recorded, and where it has     *)
(* been placed nothing older is left.                                       *)
Ahead(p) ==
    /\ NoneOlder(proc[p].list)
    /\ (proc[p].pc \in Fetched /\ proc[p].bundle # 0) =>
          proc[p].bundle >= installs[proc[p].slug] /\ proc[p].bundle >= proc[p].list[proc[p].slug]
    /\ proc[p].pc \in Placing =>
          /\ proc[p].bundle # 0
          /\ \A a \in Agents \ Pending(p) :
                dirs[a][proc[p].slug] > 0 => dirs[a][proc[p].slug] >= proc[p].bundle

Alone == \A p, q \in Procs : Running(p) /\ Running(q) => p = q

Undisturbed ==
    /\ Alone
    /\ NoneOlder(installs)
    /\ \A p \in Procs : Running(p) => Ahead(p)

(* The inductive invariant. *)
InstallsInv == TypeOK /\ Listed /\ (~overlapped => Undisturbed)

-----------------------------------------------------------------------------
(* An invocation that starts or ends is well typed. *)
LEMMA BlankTyped ==
    ASSUME NEW pc \in PCs
    PROVE  /\ Blank(pc) \in Invocation
           /\ Blank(pc).cmd = "add" /\ Blank(pc).pc = pc /\ Blank(pc).list = Absent
           /\ Blank(pc).pins = Unpinned /\ Blank(pc).todo = {} /\ Blank(pc).bundle = 0
  <1>1. Absent \in [Slugs -> Versions] /\ Unpinned \in [Slugs -> Keys]
    BY MaxVersionAssumption, MaxKeyAssumption DEF Absent, Unpinned, Versions, Keys
  <1>2. 0 \in Versions /\ 0 \in Keys
    BY MaxVersionAssumption, MaxKeyAssumption DEF Versions, Keys
  <1>3. (CHOOSE s \in Slugs : TRUE) \in Slugs /\ (CHOOSE a \in Agents : TRUE) \in Agents
    BY SomethingToInstall
  <1> QED
    BY <1>1, <1>2, <1>3 DEF Blank, Invocation

(* Versions are numbers, at every place. *)
LEMMA Numbers ==
    ASSUME InstallsInv
    PROVE  /\ \A s \in Slugs : published[s] \in Int /\ installs[s] \in Int
           /\ \A a \in Agents, s \in Slugs : dirs[a][s] \in Int
           /\ \A p \in Procs : /\ proc[p] \in Invocation
                               /\ proc[p].slug \in Slugs /\ proc[p].agent \in Agents
                               /\ proc[p].bundle \in Nat
                               /\ proc[p].bundleKey \in Keys /\ proc[p].key \in Keys
                               /\ \A s \in Slugs : proc[p].list[s] \in Int
  BY MaxVersionAssumption DEF InstallsInv, TypeOK, Invocation, Versions, Torn, Broken

(* A step of an invocation is its own. *)
LEMMA BecomeTyped ==
    ASSUME TypeOK, NEW p \in Procs, NEW r \in Invocation, Become(p, r)
    PROVE  /\ proc' \in [Procs -> Invocation]
           /\ proc'[p] = r
           /\ \A q \in Procs \ {p} : proc'[q] = proc[q]
  BY DEF TypeOK, Become

LEMMA EndsTyped ==
    ASSUME TypeOK, NEW p \in Procs, Ends(p)
    PROVE  /\ proc' \in [Procs -> Invocation]
           /\ proc'[p] = Blank("done") /\ ~Running(p)'
           /\ \A q \in Procs \ {p} : proc'[q] = proc[q]
  <1>1. Blank("done") \in Invocation /\ Blank("done").pc = "done"
    BY BlankTyped DEF PCs
  <1> QED
    BY <1>1, BecomeTyped DEF Ends, Running

LEMMA GotoTyped ==
    ASSUME TypeOK, NEW p \in Procs, NEW pc \in PCs, Goto(p, pc)
    PROVE  /\ proc' \in [Procs -> Invocation]
           /\ proc'[p] = [proc[p] EXCEPT !.pc = pc]
           /\ \A q \in Procs \ {p} : proc'[q] = proc[q]
  <1>1. proc[p] \in Invocation
    BY DEF TypeOK
  <1>2. [proc[p] EXCEPT !.pc = pc] \in Invocation
    BY <1>1 DEF Invocation
  <1> QED
    BY <1>2, BecomeTyped DEF Goto

(* What a step of a running invocation has to establish. *)
LEMMA OwnStep ==
    ASSUME InstallsInv, NEW p \in Procs, Running(p),
           TypeOK', \A q \in Procs \ {p} : proc'[q] = proc[q],
           \A s \in Slugs : installs'[s] <= published'[s], Known(p)',
           UNCHANGED <<published, overlapped>>,
           Undisturbed => NoneOlder(installs)' /\ (Running(p)' => Ahead(p)')
    PROVE  InstallsInv'
  <1>1. Listed'
    BY DEF InstallsInv, Listed, Known
  <1>2. ASSUME ~overlapped' PROVE Undisturbed'
    <2>1. Undisturbed
      BY <1>2 DEF InstallsInv
    <2>2. \A q \in Procs : Running(q)' => q = p
      BY <2>1 DEF Undisturbed, Alone, Running
    <2>3. Alone'
      BY <2>2 DEF Alone
    <2>4. \A q \in Procs : Running(q)' => Ahead(q)'
      <3> TAKE q \in Procs
      <3>1. CASE q = p BY <3>1, <2>1
      <3>2. CASE q # p BY <3>2, <2>2
      <3> QED BY <3>1, <3>2
    <2> QED
      BY <2>1, <2>3, <2>4 DEF Undisturbed
  <1> QED
    BY <1>1, <1>2 DEF InstallsInv

(* Ending, killed or not, whatever the rest of the step does to dirs.      *)
LEMMA Ending ==
    ASSUME InstallsInv, NEW p \in Procs, Running(p), Ends(p),
           UNCHANGED <<published, signedBy, identity, creds, overlapped, trusted>>,
           killed' \in BOOLEAN,
           dirs' \in [Agents -> [Slugs -> Versions \cup {Broken}]],
           origin' \in [Agents -> [Slugs -> Keys]],
           installs' \in [Slugs -> Versions] \cup {Torn}, pins' \in [Slugs -> Keys],
           \A s \in Slugs : installs'[s] <= published[s],
           Undisturbed => NoneOlder(installs)'
    PROVE  InstallsInv'
  <1>1. TypeOK' /\ ~Running(p)' /\ \A q \in Procs \ {p} : proc'[q] = proc[q]
    BY EndsTyped DEF InstallsInv, TypeOK
  <1>2. Known(p)'
    <2>1. proc'[p].list = Absent /\ proc'[p].pc = "done"
      BY EndsTyped, BlankTyped DEF InstallsInv, PCs
    <2> QED
      BY <2>1, MaxVersionAssumption DEF Known, Absent, Fetched, InstallsInv, TypeOK, Versions
  <1> QED
    BY <1>1, <1>2, OwnStep

-----------------------------------------------------------------------------
LEMMA InitInv == Init => InstallsInv
  <1> SUFFICES ASSUME Init PROVE InstallsInv
    OBVIOUS
  <1>1. /\ Blank("idle") \in Invocation /\ Blank("idle").pc = "idle"
        /\ Blank("idle").list = Absent
    BY BlankTyped DEF PCs
  <1>2. \A p \in Procs : proc[p] = Blank("idle") /\ ~Running(p)
    BY <1>1 DEF Init, Running
  <1>3. 0 \in Versions /\ 1 \in Versions /\ 0 \in Keys /\ 1 \in Keys
    BY MaxVersionAssumption, MaxKeyAssumption DEF Versions, Keys
  <1>4. PICK S \in SUBSET Slugs :
           LET one == [s \in Slugs |-> IF s \in S THEN 1 ELSE 0]
           IN  /\ dirs = [a \in Agents |-> one] /\ origin = dirs
               /\ installs = one /\ pins = one
               /\ creds = S /\ trusted = S \X {1}
    BY DEF Init
  <1> DEFINE one == [s \in Slugs |-> IF s \in S THEN 1 ELSE 0]
  <1>5. one \in [Slugs -> Versions] /\ one \in [Slugs -> Keys] /\ \A s \in Slugs : one[s] \in {0, 1}
    BY <1>3
  <1>6. /\ dirs = [a \in Agents |-> one] /\ origin = dirs /\ installs = one /\ pins = one
        /\ creds \subseteq Slugs /\ trusted = S \X {1}
    BY <1>4
  <1>7. /\ published = [s \in Slugs |-> 1] /\ signedBy = published /\ identity = published
        /\ proc = [p \in Procs |-> Blank("idle")]
        /\ overlapped = FALSE /\ killed = FALSE
    BY DEF Init
  <1> HIDE DEF one
  <1>8. TypeOK
    <2>1. trusted \subseteq Slugs \X Keys
      BY <1>3, <1>6
    <2>2. published \in [Slugs -> Versions] /\ signedBy \in [Slugs -> Keys] /\ identity \in [Slugs -> Keys]
      BY <1>3, <1>7
    <2>3. proc \in [Procs -> Invocation]
      BY <1>1, <1>7
    <2>4. /\ dirs \in [Agents -> [Slugs -> Versions \cup {Broken}]]
          /\ origin \in [Agents -> [Slugs -> Keys]]
      <3>1. dirs \in [Agents -> [Slugs -> Versions]] /\ dirs \in [Agents -> [Slugs -> Keys]]
        BY <1>5, <1>6
      <3> QED BY <1>6, <3>1
    <2> QED
      BY <1>5, <1>6, <1>7, <2>1, <2>2, <2>3, <2>4 DEF TypeOK
  <1>9. Listed
    <2>1. \A s \in Slugs : installs[s] <= published[s]
      BY <1>5, <1>6, <1>7
    <2>2. \A p \in Procs : Known(p)
      BY <1>1, <1>2, <1>7 DEF Known, Absent, Fetched
    <2> QED BY <2>1, <2>2 DEF Listed
  <1>10. Undisturbed
    <2>1. NoneOlder(installs)
      BY <1>5, <1>6 DEF NoneOlder
    <2> QED
      BY <1>2, <2>1 DEF Undisturbed, Alone
  <1> QED
    BY <1>8, <1>9, <1>10 DEF InstallsInv

(* What a registry does: publish, sign again, start over. *)
LEMMA RegistryInv ==
    ASSUME InstallsInv, NEW s \in Slugs, Publish(s) \/ Republish(s) \/ NewIdentity(s)
    PROVE  InstallsInv'
  <1>1. /\ published' \in [Slugs -> Versions] /\ \A t \in Slugs : published[t] <= published'[t]
        /\ signedBy' \in [Slugs -> Keys] /\ identity' \in [Slugs -> Keys]
    <2>1. /\ published \in [Slugs -> Versions]
          /\ signedBy \in [Slugs -> Keys] /\ identity \in [Slugs -> Keys]
      BY DEF InstallsInv, TypeOK
    <2>2. CASE Publish(s)
      <3>1. published[s] + 1 \in Versions /\ identity[s] \in Keys
        BY <2>1, <2>2, MaxVersionAssumption DEF Publish, Versions
      <3> QED
        BY <2>1, <2>2, <3>1, MaxVersionAssumption DEF Publish, Versions
    <2>3. CASE Republish(s)
      BY <2>1, <2>3, MaxVersionAssumption DEF Republish, Versions
    <2>4. CASE NewIdentity(s)
      <3>1. identity[s] + 1 \in Keys
        BY <2>1, <2>4, MaxKeyAssumption DEF NewIdentity, Keys
      <3> QED
        BY <2>1, <2>4, <3>1, MaxVersionAssumption DEF NewIdentity, Versions
    <2> QED
      BY <2>2, <2>3, <2>4
  <1>2. UNCHANGED <<dirs, origin, installs, pins, creds, proc, overlapped, killed, trusted>>
    BY DEF Publish, Republish, NewIdentity, FilesKept, folders, records, history
  <1>3. TypeOK'
    BY <1>1, <1>2 DEF InstallsInv, TypeOK
  <1>4. \A t \in Slugs : installs'[t] <= published'[t]
    <2> TAKE t \in Slugs
    <2>1. installs[t] <= published[t] /\ installs[t] \in Int
      BY MaxVersionAssumption DEF InstallsInv, Listed, TypeOK, Versions, Torn, Broken
    <2> QED
      BY <1>1, <1>2, <2>1, MaxVersionAssumption DEF InstallsInv, TypeOK, Versions
  <1>5. ASSUME NEW p \in Procs PROVE Known(p)'
    <2>1. /\ proc[p] \in Invocation /\ Known(p)
      BY DEF InstallsInv, TypeOK, Listed
    <2>2. /\ proc[p].slug \in Slugs /\ proc[p].bundle \in Int
          /\ \A t \in Slugs : proc[p].list[t] \in Int
      BY <2>1, MaxVersionAssumption DEF Invocation, Versions
    <2>3. \A t \in Slugs : published[t] \in Int /\ published'[t] \in Int
      BY <1>1, MaxVersionAssumption DEF InstallsInv, TypeOK, Versions
    <2> QED
      BY <1>1, <1>2, <2>1, <2>2, <2>3 DEF Known
  <1>6. (~overlapped => Undisturbed)'
    BY <1>2 DEF InstallsInv, Undisturbed, Alone, Running, NoneOlder, Ahead, Pending, Waiting
  <1> QED
    BY <1>3, <1>4, <1>5, <1>6 DEF InstallsInv, Listed

LEMMA KillInv == ASSUME InstallsInv, NEW p \in Procs, Kill(p) PROVE InstallsInv'
  <1>1. /\ UNCHANGED <<published, signedBy, identity, dirs, origin, installs, pins, creds, overlapped, trusted>>
        /\ killed' = TRUE /\ Running(p) /\ Ends(p)
    BY DEF Kill, FilesKept, registry, folders, records
  <1> QED
    BY <1>1, Ending DEF InstallsInv, TypeOK, Listed, Undisturbed, NoneOlder

(* An invocation starts with nothing at hand; another one running makes it *)
(* an overlap.                                                             *)
LEMMA StartInv == ASSUME InstallsInv, NEW p \in Procs, Start(p) PROVE InstallsInv'
  <1>1. /\ UNCHANGED <<published, signedBy, identity, dirs, origin, installs, pins, creds, killed, trusted>>
        /\ overlapped' = (overlapped \/ \E q \in Procs : Running(q))
    BY DEF Start, FilesKept, registry, folders, records
  <1>2. PICK r \in Invocation :
           /\ Become(p, r)
           /\ r.pc \in {"listing", "next", "done"} /\ r.bundle = 0
           /\ r.list = Absent \/ (installs \in [Slugs -> Versions] /\ r.list = installs)
    <2>1. CASE \E s \in Slugs : Become(p, [Blank("listing") EXCEPT !.slug = s])
      <3>1. PICK s \in Slugs : Become(p, [Blank("listing") EXCEPT !.slug = s])
        BY <2>1
      <3>2. /\ Blank("listing") \in Invocation /\ Blank("listing").pc = "listing"
            /\ Blank("listing").bundle = 0 /\ Blank("listing").list = Absent
        BY BlankTyped DEF PCs
      <3>3. /\ [Blank("listing") EXCEPT !.slug = s] \in Invocation
            /\ [Blank("listing") EXCEPT !.slug = s].pc = "listing"
            /\ [Blank("listing") EXCEPT !.slug = s].bundle = 0
            /\ [Blank("listing") EXCEPT !.slug = s].list = Absent
        BY <3>2 DEF Invocation
      <3> QED BY <3>1, <3>3
    <2>2. CASE /\ Readable
               /\ Become(p, [Blank("next") EXCEPT !.cmd = "update", !.list = installs, !.pins = pins,
                                                  !.todo = {s \in Slugs : installs[s] > 0},
                                                  !.creds = creds])
      <3> DEFINE todo == {s \in Slugs : installs[s] > 0}
                 r == [Blank("next") EXCEPT !.cmd = "update", !.list = installs, !.pins = pins,
                                            !.todo = todo, !.creds = creds]
      <3>1. installs \in [Slugs -> Versions] /\ pins \in [Slugs -> Keys] /\ creds \subseteq Slugs
        BY <2>2 DEF Readable, InstallsInv, TypeOK
      <3>2. Blank("next") \in Invocation /\ Blank("next").pc = "next" /\ Blank("next").bundle = 0
        BY BlankTyped DEF PCs
      <3>3. todo \subseteq Slugs
        OBVIOUS
      <3>4. r \in Invocation /\ r.pc = "next" /\ r.bundle = 0 /\ r.list = installs
        <4> HIDE DEF todo
        <4> QED BY <3>1, <3>2, <3>3 DEF Invocation
      <3> QED BY <2>2, <3>1, <3>4
    <2>3. CASE Ends(p)
      BY <2>3, BlankTyped DEF Ends, PCs
    <2> QED
      BY <2>1, <2>2, <2>3 DEF Start
  <1>3. /\ proc' \in [Procs -> Invocation] /\ proc'[p] = r
        /\ \A q \in Procs \ {p} : proc'[q] = proc[q]
    BY BecomeTyped, <1>2 DEF InstallsInv
  <1>4. TypeOK'
    BY <1>1, <1>3 DEF InstallsInv, TypeOK
  <1>5. Known(p)'
    <2>1. \A s \in Slugs : r.list[s] <= published[s]
      BY <1>2, MaxVersionAssumption DEF Absent, InstallsInv, Listed, TypeOK, Versions
    <2>2. 0 <= published[r.slug]
      BY MaxVersionAssumption DEF InstallsInv, TypeOK, Versions, Invocation
    <2> QED
      BY <1>1, <1>2, <1>3, <2>1, <2>2 DEF Known
  <1>6. Listed'
    BY <1>1, <1>3, <1>5 DEF InstallsInv, Listed, Known
  <1>7. ASSUME ~overlapped' PROVE Undisturbed'
    <2>1. Undisturbed /\ \A q \in Procs : ~Running(q)
      BY <1>1, <1>7 DEF InstallsInv
    <2>2. \A q \in Procs : Running(q)' => q = p
      BY <2>1, <1>3 DEF Running
    <2>3. Ahead(p)'
      <3>1. NoneOlder(r.list)'
        BY <1>1, <1>2, <2>1, Numbers DEF Undisturbed, NoneOlder, Absent
      <3> QED
        BY <1>2, <1>3, <3>1 DEF Ahead, Placing
    <2> QED
      BY <1>1, <2>1, <2>2, <2>3 DEF Undisturbed, Alone, NoneOlder
  <1> QED
    BY <1>4, <1>6, <1>7 DEF InstallsInv

-----------------------------------------------------------------------------
(* The network calls and the verification leave the files alone. *)

(* update goes to its next install, or to its end. *)
Turned(i, r) ==
    /\ r.list = i.list /\ r.pins = i.pins /\ r.cmd = i.cmd
    /\ \/ r.pc = "save" /\ r.todo = i.todo
       \/ r.pc = "next" /\ r.todo \subseteq i.todo
       \/ r.pc = "bundle" /\ r.todo \subseteq i.todo /\ r.slug \in i.todo /\ r.bundle = 0

LEMMA NextInstallTurns ==
    ASSUME InstallsInv, NEW p \in Procs, NextInstall(p)
    PROVE  \E r \in Invocation : Become(p, r) /\ Turned(proc[p], r)
  <1>1. proc[p] \in Invocation /\ proc[p].pc = "next"
    BY DEF InstallsInv, TypeOK, NextInstall, At
  <1>2. CASE Goto(p, "save")
    <2> DEFINE r == [proc[p] EXCEPT !.pc = "save"]
    <2>1. r \in Invocation /\ Turned(proc[p], r)
      BY <1>1 DEF Invocation, PCs, Turned
    <2> QED
      BY <1>2, <2>1 DEF Goto
  <1>3. CASE \E s \in proc[p].todo :
                LET rest == [proc[p] EXCEPT !.todo = @ \ {s}, !.bundle = 0, !.bundleKey = 0,
                                            !.listing = 0, !.key = 0]
                IN  \/ Become(p, rest)
                    \/ Become(p, [rest EXCEPT !.slug = s, !.pc = "bundle"])
    <2>1. PICK s \in proc[p].todo :
                LET rest == [proc[p] EXCEPT !.todo = @ \ {s}, !.bundle = 0, !.bundleKey = 0,
                                            !.listing = 0, !.key = 0]
                IN  \/ Become(p, rest)
                    \/ Become(p, [rest EXCEPT !.slug = s, !.pc = "bundle"])
      BY <1>3
    <2> DEFINE r1 == [proc[p] EXCEPT !.todo = @ \ {s}, !.bundle = 0, !.bundleKey = 0,
                                     !.listing = 0, !.key = 0]
               r2 == [r1 EXCEPT !.slug = s, !.pc = "bundle"]
    <2>2. s \in Slugs /\ 0 \in Versions /\ 0 \in Keys
      BY <1>1, MaxVersionAssumption, MaxKeyAssumption DEF Invocation, Versions, Keys
    <2>3. r1 \in Invocation /\ Turned(proc[p], r1)
      BY <1>1, <2>2 DEF Invocation, Turned
    <2>4. r2 \in Invocation /\ Turned(proc[p], r2)
      BY <1>1, <2>2 DEF Invocation, PCs, Turned
    <2> QED
      BY <2>1, <2>3, <2>4
  <1> QED
    BY <1>2, <1>3 DEF NextInstall

LEMMA NextInstallInv == ASSUME InstallsInv, NEW p \in Procs, NextInstall(p) PROVE InstallsInv'
  <1>1. /\ UNCHANGED <<published, signedBy, identity, dirs, origin, installs, pins, creds,
                       overlapped, killed, trusted>>
        /\ proc[p].pc = "next" /\ Running(p)
    BY DEF NextInstall, FilesKept, registry, folders, records, history, At, Running
  <1>2. PICK r \in Invocation : Become(p, r) /\ Turned(proc[p], r)
    BY NextInstallTurns
  <1>3. /\ proc' \in [Procs -> Invocation] /\ proc'[p] = r
        /\ \A q \in Procs \ {p} : proc'[q] = proc[q]
    BY BecomeTyped, <1>2 DEF InstallsInv
  <1>4. TypeOK'
    BY <1>1, <1>3 DEF InstallsInv, TypeOK
  <1>5. Known(p)' /\ \A s \in Slugs : installs'[s] <= published'[s]
    BY <1>1, <1>2, <1>3 DEF InstallsInv, Listed, Known, Fetched, Turned
  <1>6. Undisturbed => NoneOlder(installs)' /\ Ahead(p)'
    BY <1>1, <1>2, <1>3 DEF Undisturbed, Ahead, NoneOlder, Fetched, Placing, Turned
  <1> QED
    BY <1>1, <1>3, <1>4, <1>5, <1>6, OwnStep

WithBundle(p, pc) == [ServedBundle(proc[p]) EXCEPT !.pc = pc]

LEMMA ServedBundleTyped ==
    ASSUME InstallsInv, NEW p \in Procs, NEW pc \in PCs,
           NEW r, r = WithBundle(p, pc)
    PROVE  /\ r \in Invocation /\ r.pc = pc /\ r.cmd = proc[p].cmd /\ r.slug = proc[p].slug
           /\ r.list = proc[p].list /\ r.pins = proc[p].pins /\ r.todo = proc[p].todo
           /\ r.creds = proc[p].creds /\ r.key = proc[p].key
           /\ r.bundle = published[proc[p].slug] /\ r.bundleKey = identity[proc[p].slug]
  <1>1. /\ proc[p] \in Invocation
        /\ published[proc[p].slug] \in Versions /\ identity[proc[p].slug] \in Keys
    BY Numbers DEF InstallsInv, TypeOK
  <1> QED
    BY <1>1 DEF Invocation, ServedBundle, WithBundle

(* What is fetched is what is published, no older than any record. *)
LEMMA BundleServed ==
    ASSUME InstallsInv, NEW p \in Procs, NEW pc \in {"verify", "listing", "creds"}, Running(p),
           Become(p, WithBundle(p, pc)),
           UNCHANGED <<published, signedBy, identity, dirs, origin, installs, pins, creds,
                       overlapped, killed, trusted>>
    PROVE  InstallsInv'
  <1>0. PICK r : r = WithBundle(p, pc)
    OBVIOUS
  <1>1. /\ r \in Invocation /\ r.pc = pc /\ r.slug = proc[p].slug
        /\ r.list = proc[p].list /\ r.bundle = published[proc[p].slug]
    <2>1. pc \in PCs
      BY DEF PCs
    <2> QED
      BY <1>0, <2>1, ServedBundleTyped
  <1>2. /\ proc' \in [Procs -> Invocation] /\ proc'[p] = r
        /\ \A q \in Procs \ {p} : proc'[q] = proc[q]
    BY BecomeTyped, <1>0, <1>1 DEF InstallsInv
  <1>3. TypeOK'
    BY <1>2 DEF InstallsInv, TypeOK
  <1>4. Known(p)' /\ \A s \in Slugs : installs'[s] <= published'[s]
    BY <1>1, <1>2, Numbers DEF InstallsInv, Listed, Known
  <1>5. ASSUME Undisturbed PROVE NoneOlder(installs)' /\ Ahead(p)'
    <2>1. NoneOlder(installs)' /\ NoneOlder(r.list)
      BY <1>1, <1>5 DEF Undisturbed, Ahead, NoneOlder
    <2>2. r.bundle >= installs[r.slug] /\ r.bundle >= r.list[r.slug]
      BY <1>1, Numbers DEF InstallsInv, Listed, Known
    <2> QED
      BY <1>1, <1>2, <2>1, <2>2 DEF Ahead, Placing, NoneOlder
  <1> QED
    BY <1>2, <1>3, <1>4, <1>5, OwnStep

(* A step on with nothing but the step changed. *)
LEMMA Onward ==
    ASSUME InstallsInv, NEW p \in Procs, Running(p), creds' \subseteq Slugs,
           UNCHANGED <<published, signedBy, identity, dirs, origin, installs, pins,
                       overlapped, killed, trusted>>,
           NEW r \in Invocation, Become(p, r), r.pc \notin Placing \cup {"bundle"},
           r.list = proc[p].list, r.slug = proc[p].slug, r.bundle = proc[p].bundle,
           r.pc \in Fetched => proc[p].pc \in Fetched \/ proc[p].bundle = 0
    PROVE  InstallsInv'
  <1>1. /\ proc' \in [Procs -> Invocation] /\ proc'[p] = r
        /\ \A q \in Procs \ {p} : proc'[q] = proc[q]
    BY BecomeTyped DEF InstallsInv
  <1>2. TypeOK'
    BY <1>1 DEF InstallsInv, TypeOK
  <1>3. 0 <= published[r.slug]
    BY MaxVersionAssumption DEF InstallsInv, TypeOK, Versions, Invocation
  <1>4. Known(p)' /\ \A s \in Slugs : installs'[s] <= published'[s]
    BY <1>1, <1>3 DEF InstallsInv, Listed, Known
  <1>5. Undisturbed => NoneOlder(installs)' /\ Ahead(p)'
    BY <1>1 DEF Undisturbed, Ahead, NoneOlder
  <1> QED
    BY <1>1, <1>2, <1>4, <1>5, OwnStep

LEMMA FetchBundleInv == ASSUME InstallsInv, NEW p \in Procs, FetchBundle(p) PROVE InstallsInv'
  <1>1. /\ UNCHANGED <<published, signedBy, identity, dirs, origin, installs, pins, creds,
                       overlapped, killed, trusted>>
        /\ proc[p].pc = "bundle" /\ Running(p)
    BY DEF FetchBundle, FilesKept, registry, folders, records, history, At, Running
  <1>2. CASE Ends(p)
    BY <1>1, <1>2, Ending DEF InstallsInv, TypeOK, Listed, Undisturbed, NoneOlder
  <1>3. CASE \E pc \in {"verify", "listing"} : Become(p, WithBundle(p, pc))
    BY <1>1, <1>3, BundleServed
  <1>4. CASE \E pc \in {"license", "listing"} :
                Goto(p, pc) /\ (pc = "listing" => proc[p].cmd # "add")
    <2>1. PICK pc \in {"license", "listing"} :
                Goto(p, pc) /\ (pc = "listing" => proc[p].cmd # "add")
      BY <1>4
    <2> DEFINE r == [proc[p] EXCEPT !.pc = pc]
    <2>2. /\ r \in Invocation /\ r.pc = pc
          /\ r.list = proc[p].list /\ r.slug = proc[p].slug /\ r.bundle = proc[p].bundle
      BY Numbers DEF Invocation, PCs
    <2>3. pc = "listing" => proc[p].bundle = 0
      BY <1>1, <2>1, Numbers DEF InstallsInv, Listed, Known, Invocation
    <2>4. creds' \subseteq Slugs
      BY <1>1 DEF InstallsInv, TypeOK
    <2> HIDE DEF r
    <2>5. Become(p, r)
      BY <2>1 DEF Goto, r
    <2> QED
      BY <1>1, <2>2, <2>3, <2>4, <2>5, Onward DEF Placing, Fetched
  <1> QED
    BY <1>2, <1>3, <1>4 DEF FetchBundle, WithBundle

LEMMA LicenseInv == ASSUME InstallsInv, NEW p \in Procs, License(p) PROVE InstallsInv'
  <1>1. /\ UNCHANGED <<published, signedBy, identity, dirs, origin, installs, pins, creds,
                       overlapped, killed, trusted>>
        /\ proc[p].pc = "license" /\ Running(p)
    BY DEF License, FilesKept, registry, folders, records, history, At, Running
  <1>2. CASE Ends(p)
    BY <1>1, <1>2, Ending DEF InstallsInv, TypeOK, Listed, Undisturbed, NoneOlder
  <1>3. CASE Become(p, WithBundle(p, "creds"))
    BY <1>1, <1>3, BundleServed
  <1> QED
    BY <1>2, <1>3 DEF License, WithBundle

LEMMA SaveCredsInv == ASSUME InstallsInv, NEW p \in Procs, SaveCreds(p) PROVE InstallsInv'
  <1>1. /\ UNCHANGED <<published, signedBy, identity, dirs, origin, installs, pins,
                       overlapped, killed, trusted>>
        /\ proc[p].pc \in {"creds", "token"} /\ Running(p)
    BY DEF SaveCreds, registry, folders, records, history, At, Running
  <1>2. proc[p] \in Invocation /\ creds \subseteq Slugs /\ proc[p].slug \in Slugs
        /\ proc[p].creds \subseteq Slugs
    BY Numbers DEF InstallsInv, TypeOK, Invocation
  <1>3. CASE Become(p, [proc[p] EXCEPT !.creds = creds \cup {proc[p].slug}, !.pc = "token"])
             /\ UNCHANGED creds
    <2> DEFINE r == [proc[p] EXCEPT !.creds = creds \cup {proc[p].slug}, !.pc = "token"]
    <2>1. /\ r \in Invocation /\ r.pc = "token"
          /\ r.list = proc[p].list /\ r.slug = proc[p].slug /\ r.bundle = proc[p].bundle
      BY <1>2 DEF Invocation, PCs
    <2> HIDE DEF r
    <2>2. Become(p, r)
      BY <1>3 DEF r
    <2> QED
      BY <1>1, <1>2, <1>3, <2>1, <2>2, Onward DEF Placing, Fetched
  <1>4. CASE creds' = proc[p].creds /\ Goto(p, "verify")
    <2> DEFINE r == [proc[p] EXCEPT !.pc = "verify"]
    <2>1. /\ r \in Invocation /\ r.pc = "verify"
          /\ r.list = proc[p].list /\ r.slug = proc[p].slug /\ r.bundle = proc[p].bundle
      BY <1>2 DEF Invocation, PCs
    <2> HIDE DEF r
    <2>2. Become(p, r)
      BY <1>4 DEF Goto, r
    <2> QED
      BY <1>1, <1>2, <1>4, <2>1, <2>2, Onward DEF Placing, Fetched
  <1> QED
    BY <1>3, <1>4 DEF SaveCreds

WithListing(p, pc) == [ServedListing(proc[p]) EXCEPT !.pc = pc]

LEMMA ServedListingTyped ==
    ASSUME InstallsInv, NEW p \in Procs, NEW pc \in PCs,
           NEW r, r = WithListing(p, pc)
    PROVE  /\ r \in Invocation /\ r.pc = pc /\ r.cmd = proc[p].cmd /\ r.slug = proc[p].slug
           /\ r.list = proc[p].list /\ r.pins = proc[p].pins /\ r.todo = proc[p].todo
           /\ r.bundle = proc[p].bundle /\ r.bundleKey = proc[p].bundleKey
           /\ r.key = identity[proc[p].slug]
  <1> DEFINE l == IF signedBy[proc[p].slug] = identity[proc[p].slug] THEN published[proc[p].slug] ELSE 0
  <1>1. /\ proc[p] \in Invocation
        /\ published[proc[p].slug] \in Versions /\ identity[proc[p].slug] \in Keys
    BY Numbers DEF InstallsInv, TypeOK
  <1>2. l \in Versions
    BY <1>1, MaxVersionAssumption DEF Versions
  <1>3. ServedListing(proc[p]) = [proc[p] EXCEPT !.listing = l, !.key = identity[proc[p].slug]]
    BY DEF ServedListing
  <1> HIDE DEF l
  <1> QED
    BY <1>1, <1>2, <1>3 DEF Invocation, WithListing

LEMMA FetchListingInv == ASSUME InstallsInv, NEW p \in Procs, FetchListing(p) PROVE InstallsInv'
  <1>1. /\ UNCHANGED <<published, signedBy, identity, dirs, origin, installs, pins, creds,
                   overlapped, killed, trusted>>
        /\ proc[p].pc = "listing" /\ Running(p)
    BY DEF FetchListing, FilesKept, registry, folders, records, history, At, Running
  <1>2. CASE Ends(p)
    BY <1>1, <1>2, Ending DEF InstallsInv, TypeOK, Listed, Undisturbed, NoneOlder
  <1>3. CASE \E pc \in {"verify", "bundle", "license"} :
                /\ pc = "bundle" => proc[p].cmd # "update"
                /\ Become(p, WithListing(p, pc))
    <2>1. PICK pc \in {"verify", "bundle", "license"} :
                /\ pc = "bundle" => proc[p].cmd # "update"
                /\ Become(p, WithListing(p, pc))
      BY <1>3
    <2>0. PICK r : r = WithListing(p, pc)
      OBVIOUS
    <2>2. /\ r \in Invocation /\ r.list = proc[p].list /\ r.slug = proc[p].slug
          /\ r.pc = pc /\ r.bundle = proc[p].bundle /\ r.cmd = proc[p].cmd
      <3>1. pc \in PCs
        BY DEF PCs
      <3> QED
        BY <2>0, <3>1, ServedListingTyped
    <2>3. /\ proc' \in [Procs -> Invocation] /\ proc'[p] = r
          /\ \A q \in Procs \ {p} : proc'[q] = proc[q]
      BY BecomeTyped, <2>0, <2>1, <2>2 DEF InstallsInv
    <2>4. TypeOK'
      BY <1>1, <2>3 DEF InstallsInv, TypeOK
    <2>5. Known(p)' /\ \A s \in Slugs : installs'[s] <= published'[s]
      BY <1>1, <2>1, <2>2, <2>3 DEF InstallsInv, Listed, Known, Fetched
    <2>6. Undisturbed => NoneOlder(installs)' /\ Ahead(p)'
      BY <1>1, <2>2, <2>3 DEF Undisturbed, Ahead, NoneOlder, Fetched, Placing
    <2> QED
      BY <1>1, <2>3, <2>4, <2>5, <2>6, OwnStep
  <1> QED
    BY <1>2, <1>3 DEF FetchListing, WithListing

(* Verified, the bundle is at hand; where it is not going there is none to replace. *)
LEMMA VerifyInv == ASSUME InstallsInv, NEW p \in Procs, Verify(p) PROVE InstallsInv'
  <1>1. /\ UNCHANGED <<published, signedBy, identity, dirs, origin, installs, pins, creds,
                       overlapped, killed>>
        /\ proc[p].pc = "verify" /\ Running(p)
        /\ trusted' \in {trusted, trusted \cup {<<proc[p].slug, proc[p].key>>}}
    BY DEF Verify, FilesKept, registry, folders, records, At, Running
  <1>2. CASE Ends(p) /\ UNCHANGED trusted
    BY <1>1, <1>2, Ending DEF InstallsInv, TypeOK, Listed, Undisturbed, NoneOlder
  <1>3. CASE \E t \in {proc[p].targets, Targets(p)}, pc \in {"place", "next"} :
                /\ pc = "place" => t = Targets(p) /\ Verified(p)
                /\ Become(p, [proc[p] EXCEPT !.pc = pc, !.targets = t])
    <2>1. PICK t \in {proc[p].targets, Targets(p)}, pc \in {"place", "next"} :
                /\ pc = "place" => t = Targets(p) /\ Verified(p)
                /\ Become(p, [proc[p] EXCEPT !.pc = pc, !.targets = t])
      BY <1>3
    <2> DEFINE r == [proc[p] EXCEPT !.pc = pc, !.targets = t]
    <2>2. proc[p] \in Invocation /\ t \in SUBSET Agents
      BY Numbers DEF Invocation, Targets
    <2>3. /\ r \in Invocation /\ r.list = proc[p].list /\ r.slug = proc[p].slug
          /\ r.pc = pc /\ r.bundle = proc[p].bundle /\ r.targets = t
      BY <2>2 DEF Invocation, PCs
    <2>4. /\ proc' \in [Procs -> Invocation] /\ proc'[p] = r
          /\ \A q \in Procs \ {p} : proc'[q] = proc[q]
      BY BecomeTyped, <2>1, <2>3 DEF InstallsInv
    <2>5. TypeOK'
      <3>1. trusted' \subseteq Slugs \X Keys
        BY <1>1, Numbers DEF InstallsInv, TypeOK
      <3> QED
        BY <1>1, <2>4, <3>1 DEF InstallsInv, TypeOK
    <2>6. Known(p)' /\ \A s \in Slugs : installs'[s] <= published'[s]
      BY <1>1, <2>3, <2>4 DEF InstallsInv, Listed, Known, Fetched
    <2>7. Undisturbed => NoneOlder(installs)' /\ Ahead(p)'
      <3> SUFFICES ASSUME Undisturbed PROVE NoneOlder(installs)' /\ Ahead(p)'
        OBVIOUS
      <3>1. NoneOlder(installs)' /\ NoneOlder(proc[p].list)'
        BY <1>1, <2>3, <2>4 DEF Undisturbed, Ahead, NoneOlder
      <3>2. proc[p].bundle # 0 => /\ proc[p].bundle >= installs[proc[p].slug]
                                  /\ proc[p].bundle >= proc[p].list[proc[p].slug]
        BY <1>1 DEF Undisturbed, Ahead, Fetched
      <3>3. pc = "place" => \A a \in Agents \ Targets(p) : dirs[a][proc[p].slug] = 0
        BY DEF Targets
      <3> QED
        BY <1>1, <2>1, <2>3, <2>4, <3>1, <3>2, <3>3 DEF Ahead, Placing, Pending, Waiting, Verified
    <2> QED
      BY <1>1, <2>4, <2>5, <2>6, <2>7, OwnStep
  <1>4. CASE Goto(p, "next")
    <2>1. [proc[p] EXCEPT !.pc = "next"] = [proc[p] EXCEPT !.pc = "next", !.targets = proc[p].targets]
      BY Numbers DEF Invocation
    <2> QED
      BY <1>3, <1>4, <2>1 DEF Goto
  <1> QED
    BY <1>2, <1>3, <1>4 DEF Verify

-----------------------------------------------------------------------------
(* Placing: what the bundle replaces is no newer. *)

LEMMA PlaceInv == ASSUME InstallsInv, NEW p \in Procs, Place(p) PROVE InstallsInv'
  <1>1. /\ UNCHANGED <<published, signedBy, identity, dirs, origin, installs, pins, creds,
                   overlapped, killed, trusted>>
        /\ proc[p].pc = "place" /\ Running(p)
    BY DEF Place, FilesKept, registry, folders, records, history, At, Running
  <1>2. CASE Ends(p)
    BY <1>1, <1>2, Ending DEF InstallsInv, TypeOK, Listed, Undisturbed, NoneOlder
  <1>3. ASSUME proc[p].targets = {}, Goto(p, "read") PROVE InstallsInv'
    <2> DEFINE r == [proc[p] EXCEPT !.pc = "read"]
    <2>1. r.list = proc[p].list /\ r.slug = proc[p].slug /\ r.pc = "read" /\ r.bundle = proc[p].bundle
      BY Numbers DEF Invocation
    <2>2. /\ proc' \in [Procs -> Invocation] /\ proc'[p] = r
          /\ \A q \in Procs \ {p} : proc'[q] = proc[q]
      BY GotoTyped, <1>3 DEF InstallsInv, PCs
    <2>3. TypeOK'
      BY <1>1, <2>2 DEF InstallsInv, TypeOK
    <2>4. Known(p)' /\ \A s \in Slugs : installs'[s] <= published'[s]
      BY <1>1, <2>1, <2>2 DEF InstallsInv, Listed, Known, Fetched
    <2>5. Undisturbed => NoneOlder(installs)' /\ Ahead(p)'
      BY <1>1, <1>3, <2>1, <2>2 DEF Undisturbed, Ahead, NoneOlder, Fetched, Placing, Pending, Waiting
    <2> QED
      BY <1>1, <2>2, <2>3, <2>4, <2>5, OwnStep
  <1>4. ASSUME proc[p].targets = {},
               Become(p, [proc[p] EXCEPT !.list[proc[p].slug] = proc[p].bundle, !.pc = "next"])
        PROVE  InstallsInv'
    <2> DEFINE f == [proc[p].list EXCEPT ![proc[p].slug] = proc[p].bundle]
               r == [proc[p] EXCEPT !.list = f, !.pc = "next"]
    <2>1. [proc[p] EXCEPT !.list[proc[p].slug] = proc[p].bundle, !.pc = "next"] = r
      BY Numbers DEF Invocation
    <2>2. /\ f \in [Slugs -> Versions]
          /\ \A s \in Slugs : f[s] = IF s = proc[p].slug THEN proc[p].bundle ELSE proc[p].list[s]
      BY Numbers DEF Invocation
    <2>3. r \in Invocation /\ r.list = f /\ r.pc = "next"
      <3>1. proc[p] \in Invocation /\ f \in [Slugs -> Versions] /\ "next" \in PCs
        BY <2>2, Numbers DEF PCs
      <3> HIDE DEF f
      <3> QED
        BY <3>1 DEF Invocation
    <2>4. /\ proc' \in [Procs -> Invocation] /\ proc'[p] = r
          /\ \A q \in Procs \ {p} : proc'[q] = proc[q]
      BY BecomeTyped, <1>4, <2>1, <2>3 DEF InstallsInv
    <2>5. TypeOK'
      BY <1>1, <2>4 DEF InstallsInv, TypeOK
    <2>6. Known(p)' /\ \A s \in Slugs : installs'[s] <= published'[s]
      BY <1>1, <2>2, <2>3, <2>4 DEF InstallsInv, Listed, Known, Fetched
    <2>7. Undisturbed => NoneOlder(installs)' /\ Ahead(p)'
      <3> SUFFICES ASSUME Undisturbed PROVE NoneOlder(installs)' /\ Ahead(p)'
        OBVIOUS
      <3>1. Ahead(p) /\ Pending(p) = {}
        BY <1>1, <1>4 DEF Undisturbed, Pending, Waiting
      <3>2. NoneOlder(f)
        BY <1>1, <2>2, <3>1 DEF Ahead, NoneOlder, Placing
      <3> QED
        BY <1>1, <2>3, <2>4, <3>2 DEF Undisturbed, Ahead, NoneOlder, Fetched, Placing
    <2> QED
      BY <1>1, <2>4, <2>5, <2>6, <2>7, OwnStep
  <1>5. ASSUME NEW a \in proc[p].targets,
               Become(p, [proc[p] EXCEPT !.agent = a, !.targets = @ \ {a}, !.pc = "remove"])
        PROVE  InstallsInv'
    <2> DEFINE r == [proc[p] EXCEPT !.agent = a, !.targets = @ \ {a}, !.pc = "remove"]
    <2>1. /\ r \in Invocation /\ r.list = proc[p].list /\ r.slug = proc[p].slug
          /\ r.pc = "remove" /\ r.bundle = proc[p].bundle
          /\ r.agent = a /\ r.targets = proc[p].targets \ {a}
      BY Numbers DEF Invocation, PCs
    <2>2. /\ proc' \in [Procs -> Invocation] /\ proc'[p] = r
          /\ \A q \in Procs \ {p} : proc'[q] = proc[q]
      BY BecomeTyped, <1>5, <2>1 DEF InstallsInv
    <2>3. TypeOK'
      BY <1>1, <2>2 DEF InstallsInv, TypeOK
    <2>4. Known(p)' /\ \A s \in Slugs : installs'[s] <= published'[s]
      BY <1>1, <2>1, <2>2 DEF InstallsInv, Listed, Known, Fetched
    <2>5. Pending(p)' = Pending(p)
      BY <1>1, <2>1, <2>2 DEF Pending, Waiting
    <2>6. Undisturbed => NoneOlder(installs)' /\ Ahead(p)'
      BY <1>1, <2>1, <2>2, <2>5 DEF Undisturbed, Ahead, NoneOlder, Fetched, Placing
    <2> QED
      BY <1>1, <2>2, <2>3, <2>4, <2>6, OwnStep
  <1> QED
    BY <1>2, <1>3, <1>4, <1>5 DEF Place, StagingFails

LEMMA PutOne ==
    ASSUME NEW D, NEW f \in [Agents -> [Slugs -> D]], NEW a \in Agents, NEW s \in Slugs, NEW v \in D,
           NEW g, g = [f EXCEPT ![a][s] = v]
    PROVE  /\ g \in [Agents -> [Slugs -> D]] /\ g[a][s] = v
           /\ \A b \in Agents, t \in Slugs : b # a \/ t # s => g[b][t] = f[b][t]
  <1> DEFINE new == [f[a] EXCEPT ![s] = v]
  <1>1. /\ new \in [Slugs -> D] /\ new[s] = v
        /\ \A t \in Slugs : t # s => new[t] = f[a][t]
    OBVIOUS
  <1>2. g = [f EXCEPT ![a] = new]
    OBVIOUS
  <1> HIDE DEF new
  <1> QED
    BY <1>1, <1>2

LEMMA Put ==
    ASSUME InstallsInv, NEW p \in Procs, NEW v \in Versions \cup {Broken}, NEW k \in Keys,
           PutHere(p, v, k)
    PROVE  /\ dirs' \in [Agents -> [Slugs -> Versions \cup {Broken}]]
           /\ dirs'[proc[p].agent][proc[p].slug] = v
           /\ \A a \in Agents, s \in Slugs :
                 a # proc[p].agent \/ s # proc[p].slug => dirs'[a][s] = dirs[a][s]
           /\ origin' \in [Agents -> [Slugs -> Keys]]
           /\ origin'[proc[p].agent][proc[p].slug] = k
           /\ \A a \in Agents, s \in Slugs :
                 a # proc[p].agent \/ s # proc[p].slug => origin'[a][s] = origin[a][s]
  <1>1. /\ dirs \in [Agents -> [Slugs -> Versions \cup {Broken}]]
        /\ origin \in [Agents -> [Slugs -> Keys]]
        /\ proc[p].agent \in Agents /\ proc[p].slug \in Slugs
    BY Numbers DEF InstallsInv, TypeOK
  <1>2. /\ dirs' = [dirs EXCEPT ![proc[p].agent][proc[p].slug] = v]
        /\ origin' = [origin EXCEPT ![proc[p].agent][proc[p].slug] = k]
    BY DEF PutHere
  <1>3. /\ dirs' \in [Agents -> [Slugs -> Versions \cup {Broken}]]
        /\ dirs'[proc[p].agent][proc[p].slug] = v
        /\ \A a \in Agents, s \in Slugs :
              a # proc[p].agent \/ s # proc[p].slug => dirs'[a][s] = dirs[a][s]
    BY <1>1, <1>2, PutOne
  <1>4. /\ origin' \in [Agents -> [Slugs -> Keys]]
        /\ origin'[proc[p].agent][proc[p].slug] = k
        /\ \A a \in Agents, s \in Slugs :
              a # proc[p].agent \/ s # proc[p].slug => origin'[a][s] = origin[a][s]
    BY <1>1, <1>2, PutOne
  <1> QED
    BY <1>3, <1>4

(* A step on the directory at hand: what it writes there is nothing, a     *)
(* broken directory, or the bundle.                                        *)
LEMMA PuttingInv ==
    ASSUME InstallsInv, NEW p \in Procs, proc[p].pc \in {"remove", "removing", "swap"},
           NEW pc \in {"removing", "swap", "place"}, Goto(p, pc),
           NEW v \in Versions \cup {Broken}, NEW k \in Keys,
           PutHere(p, v, k) \/ UNCHANGED folders,
           v > 0 => v = proc[p].bundle,
           pc = "place" => PutHere(p, v, k) /\ v = proc[p].bundle,
           UNCHANGED <<published, signedBy, identity, installs, pins, creds,
                       overlapped, killed, trusted>>
    PROVE  InstallsInv'
  <1> DEFINE r == [proc[p] EXCEPT !.pc = pc]
  <1>1. /\ r.list = proc[p].list /\ r.slug = proc[p].slug /\ r.pc = pc
        /\ r.bundle = proc[p].bundle /\ r.agent = proc[p].agent /\ r.targets = proc[p].targets
    BY Numbers DEF Invocation
  <1>2. /\ proc' \in [Procs -> Invocation] /\ proc'[p] = r
        /\ \A q \in Procs \ {p} : proc'[q] = proc[q]
    BY GotoTyped DEF InstallsInv, PCs
  <1>3. /\ dirs' \in [Agents -> [Slugs -> Versions \cup {Broken}]]
        /\ \A a \in Agents, s \in Slugs :
              dirs'[a][s] = dirs[a][s] \/ (a = proc[p].agent /\ s = proc[p].slug /\ dirs'[a][s] = v)
        /\ pc = "place" => dirs'[proc[p].agent][proc[p].slug] = v
        /\ origin' \in [Agents -> [Slugs -> Keys]]
    <2>1. CASE PutHere(p, v, k)
      BY <2>1, Put
    <2>2. CASE UNCHANGED folders
      <3>1. dirs' = dirs /\ origin' = origin
        BY <2>2 DEF folders
      <3> QED
        BY <2>1, <3>1 DEF InstallsInv, TypeOK
    <2> QED
      BY <2>1, <2>2
  <1>4. TypeOK'
    BY <1>2, <1>3 DEF InstallsInv, TypeOK
  <1>5. Known(p)' /\ \A s \in Slugs : installs'[s] <= published'[s]
    BY <1>1, <1>2 DEF InstallsInv, Listed, Known, Fetched
  <1>6. ASSUME Undisturbed PROVE NoneOlder(installs)' /\ Ahead(p)'
    <2>1. Ahead(p) /\ NoneOlder(installs)
      BY <1>6 DEF Undisturbed, Running
    <2>2. /\ proc[p].bundle # 0 /\ proc[p].bundle >= installs[proc[p].slug]
          /\ proc[p].bundle >= proc[p].list[proc[p].slug]
      BY <2>1 DEF Ahead, Placing, Fetched
    <2>3. NoneOlder(installs)' /\ NoneOlder(proc[p].list)'
      BY <1>1, <1>2, <1>3, <2>1, <2>2 DEF Ahead, NoneOlder
    <2>4. ASSUME NEW a \in Agents \ Pending(p)', dirs'[a][proc[p].slug] > 0
          PROVE  dirs'[a][proc[p].slug] >= proc[p].bundle
      <3>1. CASE a \in Pending(p)
        <4>1. pc = "place" /\ a = proc[p].agent
          BY <1>1, <1>2, <2>4, <3>1 DEF Pending, Waiting
        <4> QED
          BY <1>3, <4>1, Numbers
      <3>2. CASE a \notin Pending(p)
        BY <1>3, <2>1, <2>4, <3>2, Numbers DEF Ahead, Placing
      <3> QED BY <3>1, <3>2
    <2> QED
      BY <1>1, <1>2, <2>2, <2>3, <2>4 DEF Ahead, Fetched, Placing
  <1>7. Running(p)
    BY DEF Running
  <1> QED
    BY <1>2, <1>4, <1>5, <1>6, <1>7, OwnStep

LEMMA RemoveOldInv == ASSUME InstallsInv, NEW p \in Procs, RemoveOld(p) PROVE InstallsInv'
  <1>1. /\ UNCHANGED <<published, signedBy, identity, installs, pins, creds, overlapped, killed, trusted>>
        /\ proc[p].pc = "remove"
    BY DEF RemoveOld, registry, records, history, At
  <1>2. Broken \in Versions \cup {Broken} /\ ~(Broken > 0)
    BY DEF Broken
  <1>3. \/ Goto(p, "swap") /\ UNCHANGED folders
        \/ Goto(p, "removing") /\ PutHere(p, Broken, 0)
    BY DEF RemoveOld
  <1>4. 0 \in Keys
    BY MaxKeyAssumption DEF Keys
  <1> QED
    BY <1>1, <1>2, <1>3, <1>4, PuttingInv

LEMMA RemovedOldInv == ASSUME InstallsInv, NEW p \in Procs, RemovedOld(p) PROVE InstallsInv'
  <1>1. /\ UNCHANGED <<published, signedBy, identity, installs, pins, creds, overlapped, killed, trusted>>
        /\ proc[p].pc = "removing" /\ Running(p)
    BY DEF RemovedOld, registry, records, history, At, Running
  <1>2. CASE Goto(p, "swap") /\ PutHere(p, 0, 0)
    BY <1>1, <1>2, PuttingInv, MaxVersionAssumption, MaxKeyAssumption DEF Versions, Keys
  <1>3. CASE Ends(p) /\ (UNCHANGED folders \/ PutHere(p, Broken, 0))
    <2>1. /\ dirs' \in [Agents -> [Slugs -> Versions \cup {Broken}]]
          /\ \A a \in Agents, s \in Slugs : dirs'[a][s] = dirs[a][s] \/ dirs'[a][s] = Broken
          /\ origin' \in [Agents -> [Slugs -> Keys]]
      <3>1. CASE UNCHANGED folders
        BY <3>1 DEF InstallsInv, TypeOK, folders
      <3>2. CASE PutHere(p, Broken, 0)
        <4>1. Broken \in Versions \cup {Broken} /\ 0 \in Keys
          BY MaxKeyAssumption DEF Keys
        <4>2. /\ dirs' \in [Agents -> [Slugs -> Versions \cup {Broken}]]
              /\ dirs'[proc[p].agent][proc[p].slug] = Broken
              /\ \A a \in Agents, s \in Slugs :
                    a # proc[p].agent \/ s # proc[p].slug => dirs'[a][s] = dirs[a][s]
              /\ origin' \in [Agents -> [Slugs -> Keys]]
          BY <3>2, <4>1, Put
        <4> QED
          BY <4>2
      <3> QED
        BY <1>3, <3>1, <3>2
    <2>2. Undisturbed => NoneOlder(installs)'
      BY <1>1, <2>1 DEF Undisturbed, NoneOlder, Broken
    <2> QED
      BY <1>1, <1>3, <2>1, <2>2, Ending DEF InstallsInv, TypeOK, Listed
  <1> QED
    BY <1>2, <1>3 DEF RemovedOld

LEMMA SwapInv == ASSUME InstallsInv, NEW p \in Procs, Swap(p) PROVE InstallsInv'
  <1>1. /\ UNCHANGED <<published, signedBy, identity, installs, pins, creds, overlapped, killed, trusted>>
        /\ proc[p].pc = "swap" /\ Running(p)
    BY DEF Swap, registry, records, history, At, Running
  <1>2. CASE Goto(p, "place") /\ PutHere(p, proc[p].bundle, proc[p].bundleKey)
    <2>1. proc[p].bundle \in Versions /\ proc[p].bundleKey \in Keys
      BY Numbers DEF Invocation
    <2> QED
      BY <1>1, <1>2, <2>1, PuttingInv
  <1>3. CASE Ends(p) /\ UNCHANGED folders
    BY <1>1, <1>3, Ending DEF InstallsInv, TypeOK, Listed, Undisturbed, NoneOlder, folders
  <1> QED
    BY <1>2, <1>3 DEF Swap

-----------------------------------------------------------------------------
(* installs.json *)

LEMMA ReadInstallsInv == ASSUME InstallsInv, NEW p \in Procs, ReadInstalls(p) PROVE InstallsInv'
  <1>1. /\ UNCHANGED <<published, signedBy, identity, dirs, origin, installs, pins, creds,
                   overlapped, killed, trusted>>
        /\ proc[p].pc = "read" /\ Running(p)
    BY DEF ReadInstalls, FilesKept, registry, folders, records, history, At, Running
  <1>2. CASE Ends(p)
    BY <1>1, <1>2, Ending DEF InstallsInv, TypeOK, Listed, Undisturbed, NoneOlder
  <1>3. ASSUME Readable,
               Become(p, [proc[p] EXCEPT !.list = [installs EXCEPT ![proc[p].slug] = proc[p].bundle],
                                         !.pins = [pins EXCEPT ![proc[p].slug] = proc[p].key],
                                         !.pc = "save"])
        PROVE  InstallsInv'
    <2> DEFINE f == [installs EXCEPT ![proc[p].slug] = proc[p].bundle]
               k == [pins EXCEPT ![proc[p].slug] = proc[p].key]
               r == [proc[p] EXCEPT !.list = f, !.pins = k, !.pc = "save"]
    <2>1. installs \in [Slugs -> Versions]
      BY <1>3 DEF Readable, InstallsInv, TypeOK
    <2>2. /\ f \in [Slugs -> Versions]
          /\ \A s \in Slugs : f[s] = IF s = proc[p].slug THEN proc[p].bundle ELSE installs[s]
      BY <2>1, Numbers DEF Invocation
    <2>3. r \in Invocation /\ r.list = f /\ r.pc = "save"
      <3>1. proc[p] \in Invocation /\ f \in [Slugs -> Versions] /\ "save" \in PCs
        BY <2>2, Numbers DEF PCs
      <3>2. k \in [Slugs -> Keys]
        BY Numbers DEF InstallsInv, TypeOK
      <3> HIDE DEF f, k
      <3> QED
        BY <3>1, <3>2 DEF Invocation
    <2>4. /\ proc' \in [Procs -> Invocation] /\ proc'[p] = r
          /\ \A q \in Procs \ {p} : proc'[q] = proc[q]
      BY BecomeTyped, <1>3, <2>3 DEF InstallsInv
    <2>5. TypeOK'
      BY <1>1, <2>4 DEF InstallsInv, TypeOK
    <2>6. Known(p)' /\ \A s \in Slugs : installs'[s] <= published'[s]
      BY <1>1, <2>2, <2>3, <2>4 DEF InstallsInv, Listed, Known, Fetched
    <2>7. Undisturbed => NoneOlder(installs)' /\ Ahead(p)'
      <3> SUFFICES ASSUME Undisturbed PROVE NoneOlder(installs)' /\ Ahead(p)'
        OBVIOUS
      <3>1. Ahead(p) /\ Pending(p) = {}
        BY <1>1 DEF Undisturbed, Pending, Waiting
      <3>2. NoneOlder(f)
        BY <1>1, <2>2, <3>1 DEF Ahead, NoneOlder, Placing, Undisturbed
      <3> QED
        BY <1>1, <2>3, <2>4, <3>2 DEF Undisturbed, Ahead, NoneOlder, Fetched, Placing
    <2> QED
      BY <1>1, <2>4, <2>5, <2>6, <2>7, OwnStep
  <1> QED
    BY <1>2, <1>3 DEF ReadInstalls

LEMMA SaveInv == ASSUME InstallsInv, NEW p \in Procs, Save(p) PROVE InstallsInv'
  <1>1. /\ UNCHANGED <<published, signedBy, identity, dirs, origin, creds, overlapped, killed, trusted>>
        /\ pins' = Unpinned /\ installs' = Torn
        /\ proc[p].pc = "save" /\ Running(p) /\ Goto(p, "saving")
    BY DEF Save, registry, folders, history, At, Running
  <1> DEFINE r == [proc[p] EXCEPT !.pc = "saving"]
  <1>2. r.list = proc[p].list /\ r.pc = "saving"
    BY Numbers DEF Invocation
  <1>3. /\ proc' \in [Procs -> Invocation] /\ proc'[p] = r
        /\ \A q \in Procs \ {p} : proc'[q] = proc[q]
    BY GotoTyped, <1>1 DEF InstallsInv, PCs
  <1>4. TypeOK'
    <2>1. Unpinned \in [Slugs -> Keys]
      BY MaxKeyAssumption DEF Unpinned, Keys
    <2> QED
      BY <1>1, <1>3, <2>1 DEF InstallsInv, TypeOK
  <1>5. Known(p)' /\ \A s \in Slugs : installs'[s] <= published'[s]
    <2>1. \A s \in Slugs : Torn[s] <= published[s]
      BY MaxVersionAssumption DEF Torn, Broken, InstallsInv, TypeOK, Versions
    <2> QED
      BY <1>1, <1>2, <1>3, <2>1 DEF InstallsInv, Listed, Known, Fetched
  <1>6. Undisturbed => NoneOlder(installs)' /\ Ahead(p)'
    <2>1. NoneOlder(installs)'
      BY <1>1, Numbers DEF NoneOlder, Torn, Broken
    <2> QED
      BY <1>1, <1>2, <1>3, <2>1 DEF Undisturbed, Ahead, NoneOlder, Fetched, Placing
  <1> QED
    BY <1>1, <1>3, <1>4, <1>5, <1>6, OwnStep

LEMMA SavedInv == ASSUME InstallsInv, NEW p \in Procs, Saved(p) PROVE InstallsInv'
  <1>1. /\ UNCHANGED <<published, signedBy, identity, dirs, origin, creds, overlapped, killed, trusted>>
        /\ proc[p].pc = "saving" /\ Running(p) /\ Ends(p)
        /\ installs' = proc[p].list \/ installs' = Torn
        /\ pins' \in {proc[p].pins, Unpinned}
    BY DEF Saved, registry, folders, history, At, Running
  <1>2. installs' \in [Slugs -> Versions] \cup {Torn} /\ pins' \in [Slugs -> Keys]
    BY <1>1, Numbers, MaxKeyAssumption DEF Invocation, Unpinned, Keys
  <1>3. \A s \in Slugs : installs'[s] <= published[s]
    <2>1. \A s \in Slugs : Torn[s] <= published[s]
      BY MaxVersionAssumption DEF Torn, Broken, InstallsInv, TypeOK, Versions
    <2> QED
      BY <1>1, <2>1 DEF InstallsInv, Listed, Known
  <1>4. Undisturbed => NoneOlder(installs)'
    <2>1. (\A s \in Slugs : installs'[s] = -1) => NoneOlder(installs)'
      BY <1>1, Numbers DEF NoneOlder
    <2> QED
      BY <1>1, <2>1 DEF Undisturbed, Ahead, NoneOlder, Torn, Broken
  <1> QED
    BY <1>1, <1>2, <1>3, <1>4, Ending DEF InstallsInv, TypeOK

-----------------------------------------------------------------------------
LEMMA NextInv == InstallsInv /\ [Next]_vars => InstallsInv'
  <1> SUFFICES ASSUME InstallsInv, [Next]_vars PROVE InstallsInv'
    OBVIOUS
  <1>1. CASE UNCHANGED vars
    BY <1>1 DEF vars, registry, folders, records, history, InstallsInv, TypeOK, Listed, Known, Undisturbed, Alone, Running,
                NoneOlder, Ahead, Pending, Waiting
  <1>2. ASSUME NEW s \in Slugs, Publish(s) \/ Republish(s) \/ NewIdentity(s) PROVE InstallsInv'
    BY <1>2, RegistryInv
  <1>3. ASSUME NEW p \in Procs, Step(p) PROVE InstallsInv'
    BY <1>3, StartInv, NextInstallInv, FetchBundleInv, FetchListingInv, LicenseInv, SaveCredsInv,
       VerifyInv, PlaceInv,
       RemoveOldInv, RemovedOldInv, SwapInv, ReadInstallsInv, SaveInv, SavedInv, KillInv DEF Step
  <1> QED
    BY <1>1, <1>2, <1>3 DEF Next

LEMMA InvAlways == Spec => []InstallsInv
  BY InitInv, NextInv, PTL DEF Spec

(* Every invocation and file stays well formed. *)
THEOREM InstallsTypeCorrect == Spec => []TypeOK
  <1>1. InstallsInv => TypeOK
    BY DEF InstallsInv
  <1> QED
    BY <1>1, InvAlways, PTL

(* While invocations do not overlap, and however they are killed, no whole  *)
(* install is ever older than its record, for any number of invocations,    *)
(* skills, agent directories and versions.                                  *)
THEOREM RecordNeverAhead == Spec => []NeverBehindRecord
  <1>1. InstallsInv => NeverBehindRecord
    BY DEF InstallsInv, Undisturbed, NoneOlder, NeverBehindRecord
  <1> QED
    BY <1>1, InvAlways, PTL
-----------------------------------------------------------------------------
(* The pin, whatever overlaps and is killed: an invocation carries only keys *)
(* the user has added a skill under, and update looks only at skills it has  *)
(* a record, hence a key, of.                                                *)
Accepted(i, T) ==
    /\ \A s \in Slugs : i.list[s] > 0 => <<s, i.pins[s]>> \in T
    /\ i.cmd = "update" => \A s \in i.todo : i.list[s] > 0
    /\ i.cmd = "update" => i.pc \notin {"license", "creds", "token", "read"}
    /\ i.cmd = "update" /\ i.pc \in {"bundle", "listing", "verify"} \cup Placing => i.list[i.slug] > 0
    /\ i.cmd = "add" => i.pc # "next"
    /\ i.cmd = "add" /\ i.pc \in {"bundle", "license", "creds", "token", "verify"} => i.key # 0
    /\ i.pc \in Placing => i.bundle # 0 /\ i.bundleKey = i.key /\ <<i.slug, i.key>> \in T

(* The inductive invariant of the pin. *)
PinInv ==
    /\ \A s \in Slugs : identity[s] # 0
    /\ trusted \subseteq Slugs \X (Keys \ {0})
    /\ \A s \in Slugs : installs[s] > 0 => <<s, pins[s]>> \in trusted
    /\ PinHolds
    /\ \A p \in Procs : Accepted(proc[p], trusted)

LEMMA BlankAccepted ==
    ASSUME NEW pc \in {"idle", "listing", "done"}, NEW T
    PROVE  Accepted(Blank(pc), T)
  <1>1. /\ Blank(pc).cmd = "add" /\ Blank(pc).pc = pc /\ Blank(pc).list = Absent
    BY BlankTyped DEF PCs
  <1> QED
    BY <1>1 DEF Accepted, Absent, Placing

LEMMA PinStep ==
    ASSUME InstallsInv, PinInv, NEW p \in Procs, NEW r \in Invocation, Become(p, r),
           Accepted(r, trusted'), UNCHANGED identity,
           trusted \subseteq trusted', trusted' \subseteq Slugs \X (Keys \ {0}),
           \A s \in Slugs : installs'[s] > 0 => <<s, pins'[s]>> \in trusted',
           PinHolds'
    PROVE  PinInv'
  <1>1. /\ proc'[p] = r
        /\ \A q \in Procs \ {p} : proc'[q] = proc[q]
    BY BecomeTyped DEF InstallsInv
  <1>2. \A q \in Procs \ {p} : Accepted(proc[q], trusted')
    BY DEF PinInv, Accepted
  <1>3. \A q \in Procs : Accepted(proc'[q], trusted')
    BY <1>1, <1>2
  <1> QED
    BY <1>3 DEF PinInv

(* A step of an invocation that leaves the files alone. *)
LEMMA PinOnward ==
    ASSUME InstallsInv, PinInv, NEW p \in Procs, NEW r \in Invocation, Become(p, r),
           Accepted(r, trusted),
           UNCHANGED <<identity, dirs, origin, installs, pins, trusted>>
    PROVE  PinInv'
  <1>1. /\ trusted \subseteq trusted' /\ trusted' \subseteq Slugs \X (Keys \ {0})
        /\ \A s \in Slugs : installs'[s] > 0 => <<s, pins'[s]>> \in trusted'
        /\ PinHolds'
    BY DEF PinInv, PinHolds
  <1> QED
    BY <1>1, PinStep

LEMMA PinEnds ==
    ASSUME InstallsInv, PinInv, NEW p \in Procs, Ends(p), PinHolds',
           \A s \in Slugs : installs'[s] > 0 => <<s, pins'[s]>> \in trusted,
           UNCHANGED <<identity, trusted>>
    PROVE  PinInv'
  <1>1. PICK r : r = Blank("done")
    OBVIOUS
  <1>2. r \in Invocation /\ Accepted(r, trusted')
    BY <1>1, BlankTyped, BlankAccepted DEF PCs
  <1>3. trusted \subseteq trusted' /\ trusted' \subseteq Slugs \X (Keys \ {0})
    BY DEF PinInv
  <1>4. Become(p, r)
    BY <1>1 DEF Ends
  <1> QED
    BY <1>2, <1>3, <1>4, PinStep

(* Ending with the files as they are. *)
LEMMA PinStops ==
    ASSUME InstallsInv, PinInv, NEW p \in Procs, Ends(p),
           UNCHANGED <<identity, dirs, origin, installs, pins, trusted>>
    PROVE  PinInv'
  <1>1. /\ \A s \in Slugs : installs'[s] > 0 => <<s, pins'[s]>> \in trusted
        /\ PinHolds'
    BY DEF PinInv, PinHolds
  <1> QED
    BY <1>1, PinEnds

LEMMA InitPin == Init => PinInv
  <1> SUFFICES ASSUME Init PROVE PinInv
    OBVIOUS
  <1>1. 1 \in Keys \ {0}
    BY MaxKeyAssumption DEF Keys
  <1>2. PICK S \in SUBSET Slugs :
           LET one == [s \in Slugs |-> IF s \in S THEN 1 ELSE 0]
           IN  /\ dirs = [a \in Agents |-> one] /\ origin = dirs
               /\ installs = one /\ pins = one
               /\ creds = S /\ trusted = S \X {1}
    BY DEF Init
  <1>3. /\ \A s \in Slugs : installs[s] > 0 => s \in S /\ pins[s] = 1
        /\ \A a \in Agents, s \in Slugs : dirs[a][s] > 0 => s \in S /\ origin[a][s] = 1
        /\ trusted = S \X {1}
    BY <1>2
  <1>4. /\ \A s \in Slugs : identity[s] # 0
        /\ \A p \in Procs : proc[p] = Blank("idle")
    BY DEF Init
  <1>5. \A p \in Procs : Accepted(proc[p], trusted)
    BY <1>4, BlankAccepted
  <1> QED
    BY <1>1, <1>3, <1>4, <1>5 DEF PinInv, PinHolds

LEMMA RegistryPin ==
    ASSUME InstallsInv, PinInv, NEW s \in Slugs, Publish(s) \/ Republish(s) \/ NewIdentity(s)
    PROVE  PinInv'
  <1>1. UNCHANGED <<dirs, origin, installs, pins, proc, trusted>>
    BY DEF Publish, Republish, NewIdentity, FilesKept, folders, records, history
  <1>2. \A t \in Slugs : identity'[t] # 0
    <2>1. identity \in [Slugs -> Keys]
      BY DEF InstallsInv, TypeOK
    <2>2. CASE UNCHANGED identity
      BY <2>2 DEF PinInv
    <2>3. CASE NewIdentity(s)
      <3>1. identity[s] \in Nat
        BY <2>1, MaxKeyAssumption DEF Keys
      <3> QED
        BY <2>1, <2>3, <3>1 DEF NewIdentity, PinInv
    <2> QED
      BY <2>2, <2>3 DEF Publish, Republish
  <1> QED
    BY <1>1, <1>2 DEF PinInv, PinHolds

LEMMA StartPin == ASSUME InstallsInv, PinInv, NEW p \in Procs, Start(p) PROVE PinInv'
  <1>1. UNCHANGED <<identity, dirs, origin, installs, pins, trusted>>
    BY DEF Start, FilesKept, registry, folders, records
  <1>2. CASE \E s \in Slugs : Become(p, [Blank("listing") EXCEPT !.slug = s])
    <2>1. PICK s \in Slugs : Become(p, [Blank("listing") EXCEPT !.slug = s])
      BY <1>2
    <2> DEFINE r == [Blank("listing") EXCEPT !.slug = s]
    <2>2. /\ Blank("listing") \in Invocation /\ Blank("listing").cmd = "add"
          /\ Blank("listing").pc = "listing" /\ Blank("listing").list = Absent
      BY BlankTyped DEF PCs
    <2>3. r \in Invocation /\ r.cmd = "add" /\ r.pc = "listing" /\ r.list = Absent
      BY <2>2 DEF Invocation
    <2> HIDE DEF r
    <2>4. Accepted(r, trusted)
      BY <2>3 DEF Accepted, Absent, Placing
    <2>5. Become(p, r)
      BY <2>1 DEF r
    <2> QED
      BY <1>1, <2>3, <2>4, <2>5, PinOnward
  <1>3. CASE Become(p, [Blank("next") EXCEPT !.cmd = "update", !.list = installs, !.pins = pins,
                                             !.todo = {s \in Slugs : installs[s] > 0},
                                             !.creds = creds])
             /\ Readable
    <2> DEFINE todo == {s \in Slugs : installs[s] > 0}
               r == [Blank("next") EXCEPT !.cmd = "update", !.list = installs, !.pins = pins,
                                          !.todo = todo, !.creds = creds]
    <2>1. installs \in [Slugs -> Versions] /\ pins \in [Slugs -> Keys] /\ creds \subseteq Slugs
      BY <1>3 DEF Readable, InstallsInv, TypeOK
    <2>2. Blank("next") \in Invocation /\ Blank("next").pc = "next"
      BY BlankTyped DEF PCs
    <2>3. todo \subseteq Slugs /\ \A s \in todo : installs[s] > 0
      OBVIOUS
    <2>4. Become(p, r)
      BY <1>3
    <2> HIDE DEF todo
    <2>5. /\ r \in Invocation /\ r.cmd = "update" /\ r.pc = "next" /\ r.list = installs
          /\ r.pins = pins /\ r.todo = todo
      BY <2>1, <2>2, <2>3 DEF Invocation
    <2> HIDE DEF r
    <2>6. Accepted(r, trusted)
      BY <2>3, <2>5 DEF Accepted, Placing, PinInv
    <2> QED
      BY <1>1, <2>4, <2>5, <2>6, PinOnward
  <1>4. CASE Ends(p)
    BY <1>1, <1>4, PinStops
  <1> QED
    BY <1>2, <1>3, <1>4 DEF Start

LEMMA NextInstallPin == ASSUME InstallsInv, PinInv, NEW p \in Procs, NextInstall(p) PROVE PinInv'
  <1>1. /\ UNCHANGED <<identity, dirs, origin, installs, pins, trusted>>
        /\ proc[p].pc = "next" /\ Accepted(proc[p], trusted) /\ proc[p] \in Invocation
    BY Numbers DEF NextInstall, FilesKept, registry, folders, records, history, At, PinInv
  <1>2. PICK r \in Invocation : Become(p, r) /\ Turned(proc[p], r)
    BY NextInstallTurns
  <1>3. proc[p].cmd = "update" /\ r.cmd = "update"
    BY <1>1, <1>2 DEF Accepted, Invocation, Turned
  <1>4. Accepted(r, trusted)
    BY <1>1, <1>2, <1>3 DEF Accepted, Turned, Placing
  <1> QED
    BY <1>1, <1>2, <1>4, PinOnward

LEMMA FetchBundlePin == ASSUME InstallsInv, PinInv, NEW p \in Procs, FetchBundle(p) PROVE PinInv'
  <1>1. /\ UNCHANGED <<identity, dirs, origin, installs, pins, trusted>>
        /\ proc[p].pc = "bundle" /\ Accepted(proc[p], trusted) /\ proc[p] \in Invocation
    BY Numbers DEF FetchBundle, FilesKept, registry, folders, records, history, At, PinInv
  <1>2. CASE Ends(p)
    BY <1>1, <1>2, PinStops
  <1>3. CASE \E pc \in {"verify", "listing"} :
                Become(p, WithBundle(p, pc)) /\ (pc = "verify" <=> proc[p].cmd = "add")
    <2>1. PICK pc \in {"verify", "listing"} :
                Become(p, WithBundle(p, pc)) /\ (pc = "verify" <=> proc[p].cmd = "add")
      BY <1>3
    <2>2. PICK r : r = WithBundle(p, pc)
      OBVIOUS
    <2>3. pc \in PCs
      BY DEF PCs
    <2>4. /\ r \in Invocation /\ r.pc = pc /\ r.cmd = proc[p].cmd /\ r.slug = proc[p].slug
          /\ r.list = proc[p].list /\ r.pins = proc[p].pins /\ r.todo = proc[p].todo
          /\ r.key = proc[p].key
      BY <2>2, <2>3, ServedBundleTyped
    <2>5. Accepted(r, trusted)
      BY <1>1, <2>1, <2>4 DEF Accepted, Placing, Invocation
    <2> QED
      BY <1>1, <2>1, <2>2, <2>4, <2>5, PinOnward
  <1>4. CASE \E pc \in {"license", "listing"} :
                Goto(p, pc) /\ (pc = "license" <=> proc[p].cmd = "add")
    <2>1. PICK pc \in {"license", "listing"} :
                Goto(p, pc) /\ (pc = "license" <=> proc[p].cmd = "add")
      BY <1>4
    <2> DEFINE r == [proc[p] EXCEPT !.pc = pc]
    <2>2. /\ r \in Invocation /\ r.pc = pc /\ r.cmd = proc[p].cmd /\ r.slug = proc[p].slug
          /\ r.list = proc[p].list /\ r.pins = proc[p].pins /\ r.todo = proc[p].todo
          /\ r.key = proc[p].key
      BY <1>1 DEF Invocation, PCs
    <2> HIDE DEF r
    <2>3. Accepted(r, trusted)
      BY <1>1, <2>1, <2>2 DEF Accepted, Placing, Invocation
    <2>4. Become(p, r)
      BY <2>1 DEF Goto, r
    <2> QED
      BY <1>1, <2>2, <2>3, <2>4, PinOnward
  <1> QED
    BY <1>2, <1>3, <1>4 DEF FetchBundle, WithBundle

LEMMA LicensePin == ASSUME InstallsInv, PinInv, NEW p \in Procs, License(p) PROVE PinInv'
  <1>1. /\ UNCHANGED <<identity, dirs, origin, installs, pins, trusted>>
        /\ proc[p].pc = "license" /\ Accepted(proc[p], trusted) /\ proc[p] \in Invocation
    BY Numbers DEF License, FilesKept, registry, folders, records, history, At, PinInv
  <1>2. CASE Ends(p)
    BY <1>1, <1>2, PinStops
  <1>3. CASE Become(p, WithBundle(p, "creds"))
    <2>1. PICK r : r = WithBundle(p, "creds")
      OBVIOUS
    <2>2. /\ r \in Invocation /\ r.pc = "creds" /\ r.cmd = proc[p].cmd /\ r.slug = proc[p].slug
          /\ r.list = proc[p].list /\ r.pins = proc[p].pins /\ r.todo = proc[p].todo
          /\ r.key = proc[p].key
      BY <2>1, ServedBundleTyped DEF PCs
    <2>3. Accepted(r, trusted)
      BY <1>1, <2>2 DEF Accepted, Placing, Invocation
    <2> QED
      BY <1>1, <1>3, <2>1, <2>2, <2>3, PinOnward
  <1> QED
    BY <1>2, <1>3 DEF License, WithBundle

LEMMA SaveCredsPin == ASSUME InstallsInv, PinInv, NEW p \in Procs, SaveCreds(p) PROVE PinInv'
  <1>1. /\ UNCHANGED <<identity, dirs, origin, installs, pins, trusted>>
        /\ proc[p].pc \in {"creds", "token"} /\ Accepted(proc[p], trusted) /\ proc[p] \in Invocation
    BY Numbers DEF SaveCreds, registry, folders, records, history, At, PinInv
  <1>2. CASE Become(p, [proc[p] EXCEPT !.creds = creds \cup {proc[p].slug}, !.pc = "token"])
    <2> DEFINE r == [proc[p] EXCEPT !.creds = creds \cup {proc[p].slug}, !.pc = "token"]
    <2>1. creds \cup {proc[p].slug} \subseteq Slugs
      BY Numbers DEF InstallsInv, TypeOK
    <2>2. /\ r \in Invocation /\ r.pc = "token" /\ r.cmd = proc[p].cmd /\ r.slug = proc[p].slug
          /\ r.list = proc[p].list /\ r.pins = proc[p].pins /\ r.todo = proc[p].todo
          /\ r.key = proc[p].key
      BY <1>1, <2>1 DEF Invocation, PCs
    <2> HIDE DEF r
    <2>3. Accepted(r, trusted)
      BY <1>1, <2>2 DEF Accepted, Placing, Invocation
    <2>4. Become(p, r)
      BY <1>2 DEF r
    <2> QED
      BY <1>1, <2>2, <2>3, <2>4, PinOnward
  <1>3. CASE Goto(p, "verify")
    <2> DEFINE r == [proc[p] EXCEPT !.pc = "verify"]
    <2>1. /\ r \in Invocation /\ r.pc = "verify" /\ r.cmd = proc[p].cmd /\ r.slug = proc[p].slug
          /\ r.list = proc[p].list /\ r.pins = proc[p].pins /\ r.todo = proc[p].todo
          /\ r.key = proc[p].key
      BY <1>1 DEF Invocation, PCs
    <2> HIDE DEF r
    <2>2. Accepted(r, trusted)
      BY <1>1, <2>1 DEF Accepted, Placing, Invocation
    <2>3. Become(p, r)
      BY <1>3 DEF Goto, r
    <2> QED
      BY <1>1, <2>1, <2>2, <2>3, PinOnward
  <1> QED
    BY <1>2, <1>3 DEF SaveCreds

LEMMA FetchListingPin == ASSUME InstallsInv, PinInv, NEW p \in Procs, FetchListing(p) PROVE PinInv'
  <1>1. /\ UNCHANGED <<identity, dirs, origin, installs, pins, trusted>>
        /\ proc[p].pc = "listing" /\ Accepted(proc[p], trusted) /\ proc[p] \in Invocation
    BY Numbers DEF FetchListing, FilesKept, registry, folders, records, history, At, PinInv
  <1>2. CASE Ends(p)
    BY <1>1, <1>2, PinStops
  <1>3. CASE \E pc \in {"verify", "bundle", "license"} :
                Become(p, WithListing(p, pc)) /\ (pc = "verify" <=> proc[p].cmd = "update")
    <2>1. PICK pc \in {"verify", "bundle", "license"} :
                Become(p, WithListing(p, pc)) /\ (pc = "verify" <=> proc[p].cmd = "update")
      BY <1>3
    <2>2. PICK r : r = WithListing(p, pc)
      OBVIOUS
    <2>3. pc \in PCs /\ identity[proc[p].slug] # 0
      BY Numbers DEF PCs, PinInv
    <2>4. /\ r \in Invocation /\ r.pc = pc /\ r.cmd = proc[p].cmd /\ r.slug = proc[p].slug
          /\ r.list = proc[p].list /\ r.pins = proc[p].pins /\ r.todo = proc[p].todo
          /\ r.key # 0
      BY <2>2, <2>3, ServedListingTyped
    <2>5. Accepted(r, trusted)
      BY <1>1, <2>1, <2>4 DEF Accepted, Placing, Invocation
    <2> QED
      BY <1>1, <2>1, <2>2, <2>4, <2>5, PinOnward
  <1> QED
    BY <1>2, <1>3 DEF FetchListing, WithListing

(* add trusts the key it has verified; update has found it to be its pin. *)
LEMMA VerifyPin == ASSUME InstallsInv, PinInv, NEW p \in Procs, Verify(p) PROVE PinInv'
  <1>1. /\ UNCHANGED <<identity, dirs, origin, installs, pins>>
        /\ proc[p].pc = "verify" /\ Accepted(proc[p], trusted) /\ proc[p] \in Invocation
    BY Numbers DEF Verify, FilesKept, registry, folders, records, At, PinInv
  <1>2. CASE Ends(p) /\ UNCHANGED trusted
    BY <1>1, <1>2, PinStops
  <1>3. CASE Goto(p, "next") /\ UNCHANGED trusted /\ proc[p].cmd # "add"
    <2> DEFINE r == [proc[p] EXCEPT !.pc = "next"]
    <2>1. /\ r \in Invocation /\ r.pc = "next" /\ r.cmd = proc[p].cmd
          /\ r.list = proc[p].list /\ r.pins = proc[p].pins /\ r.todo = proc[p].todo
      BY <1>1 DEF Invocation, PCs
    <2> HIDE DEF r
    <2>2. Accepted(r, trusted)
      BY <1>1, <1>3, <2>1 DEF Accepted, Placing, Invocation
    <2>3. Become(p, r)
      BY <1>3 DEF Goto, r
    <2> QED
      BY <1>1, <1>3, <2>1, <2>2, <2>3, PinOnward
  <1>4. ASSUME Pinned(p), Verified(p),
               Become(p, [proc[p] EXCEPT !.pc = "place", !.targets = Targets(p)]),
               trusted' = IF proc[p].cmd = "add" THEN trusted \cup {<<proc[p].slug, proc[p].key>>}
                          ELSE trusted
        PROVE  PinInv'
    <2> DEFINE r == [proc[p] EXCEPT !.pc = "place", !.targets = Targets(p)]
    <2>1. Targets(p) \subseteq Agents
      BY DEF Targets
    <2>2. /\ r \in Invocation /\ r.pc = "place" /\ r.cmd = proc[p].cmd /\ r.slug = proc[p].slug
          /\ r.list = proc[p].list /\ r.pins = proc[p].pins /\ r.todo = proc[p].todo
          /\ r.key = proc[p].key /\ r.bundle = proc[p].bundle /\ r.bundleKey = proc[p].bundleKey
      BY <1>1, <2>1 DEF Invocation, PCs
    <2> HIDE DEF r
    <2>3. proc[p].slug \in Slugs /\ proc[p].key \in Keys
      BY <1>1 DEF Invocation
    <2>4. CASE proc[p].cmd = "add"
      <3>1. proc[p].key # 0
        BY <1>1, <2>4 DEF Accepted
      <3>2. /\ trusted \subseteq trusted' /\ trusted' \subseteq Slugs \X (Keys \ {0})
            /\ <<proc[p].slug, proc[p].key>> \in trusted'
        BY <1>4, <2>3, <2>4, <3>1 DEF PinInv
      <3>3. Accepted(r, trusted')
        BY <1>1, <1>4, <2>2, <2>4, <3>2 DEF Accepted, Placing, Verified
      <3>4. /\ \A s \in Slugs : installs'[s] > 0 => <<s, pins'[s]>> \in trusted'
            /\ PinHolds'
        BY <1>1, <3>2 DEF PinInv, PinHolds
      <3>5. Become(p, r)
        BY <1>4 DEF r
      <3> QED
        BY <1>1, <2>2, <3>2, <3>3, <3>4, <3>5, PinStep
    <2>5. CASE proc[p].cmd # "add"
      <3>1. proc[p].cmd = "update" /\ trusted' = trusted
        BY <1>1, <1>4, <2>5 DEF Invocation
      <3>2. <<proc[p].slug, proc[p].pins[proc[p].slug]>> \in trusted
        BY <1>1, <2>3, <3>1 DEF Accepted
      <3>3. proc[p].pins[proc[p].slug] = proc[p].key
        BY <1>4, <3>1, <3>2 DEF Pinned, PinInv
      <3>4. Accepted(r, trusted)
        BY <1>1, <1>4, <2>2, <3>1, <3>2, <3>3 DEF Accepted, Placing, Verified
      <3>5. Become(p, r)
        BY <1>4 DEF r
      <3> QED
        BY <1>1, <2>2, <3>1, <3>4, <3>5, PinOnward
    <2> QED
      BY <2>4, <2>5
  <1> QED
    BY <1>2, <1>3, <1>4 DEF Verify

LEMMA PlacePin == ASSUME InstallsInv, PinInv, NEW p \in Procs, Place(p) PROVE PinInv'
  <1>1. /\ UNCHANGED <<identity, dirs, origin, installs, pins, trusted>>
        /\ proc[p].pc = "place" /\ Accepted(proc[p], trusted) /\ proc[p] \in Invocation
    BY Numbers DEF Place, FilesKept, registry, folders, records, history, At, PinInv
  <1>2. CASE Ends(p)
    BY <1>1, <1>2, PinStops
  <1>3. CASE Goto(p, "read") /\ proc[p].cmd = "add"
    <2> DEFINE r == [proc[p] EXCEPT !.pc = "read"]
    <2>1. /\ r \in Invocation /\ r.pc = "read" /\ r.cmd = proc[p].cmd /\ r.slug = proc[p].slug
          /\ r.list = proc[p].list /\ r.pins = proc[p].pins /\ r.todo = proc[p].todo
          /\ r.key = proc[p].key /\ r.bundle = proc[p].bundle /\ r.bundleKey = proc[p].bundleKey
      BY <1>1 DEF Invocation, PCs
    <2> HIDE DEF r
    <2>2. Accepted(r, trusted)
      BY <1>1, <1>3, <2>1 DEF Accepted, Placing
    <2>3. Become(p, r)
      BY <1>3 DEF Goto, r
    <2> QED
      BY <1>1, <2>1, <2>2, <2>3, PinOnward
  <1>4. CASE /\ Become(p, [proc[p] EXCEPT !.list[proc[p].slug] = proc[p].bundle, !.pc = "next"])
             /\ proc[p].cmd # "add"
    <2> DEFINE f == [proc[p].list EXCEPT ![proc[p].slug] = proc[p].bundle]
               r == [proc[p] EXCEPT !.list = f, !.pc = "next"]
    <2>1. Become(p, r)
      <3>1. [proc[p] EXCEPT !.list[proc[p].slug] = proc[p].bundle, !.pc = "next"] = r
        BY <1>1 DEF Invocation
      <3> QED
        BY <1>4, <3>1
    <2>2. /\ f \in [Slugs -> Versions] /\ proc[p].bundle \in Nat
          /\ \A s \in Slugs : f[s] = IF s = proc[p].slug THEN proc[p].bundle ELSE proc[p].list[s]
      BY <1>1, Numbers DEF Invocation
    <2> HIDE DEF f
    <2>3. /\ r \in Invocation /\ r.pc = "next" /\ r.cmd = "update" /\ r.list = f
          /\ r.pins = proc[p].pins /\ r.todo = proc[p].todo
      BY <1>1, <1>4, <2>2 DEF Invocation, PCs
    <2> HIDE DEF r
    <2>4. /\ proc[p].bundle > 0 /\ proc[p].list[proc[p].slug] > 0 /\ proc[p].cmd = "update"
          /\ proc[p].slug \in Slugs /\ proc[p].todo \subseteq Slugs
      BY <1>1, <1>4, <2>2 DEF Accepted, Placing, Invocation
    <2>5. \A s \in Slugs : f[s] > 0 => <<s, proc[p].pins[s]>> \in trusted
      BY <1>1, <2>2, <2>4 DEF Accepted
    <2>6. \A s \in proc[p].todo : f[s] > 0
      BY <1>1, <2>2, <2>4 DEF Accepted
    <2>7. Accepted(r, trusted)
      BY <2>3, <2>5, <2>6 DEF Accepted, Placing
    <2> QED
      BY <1>1, <2>1, <2>3, <2>7, PinOnward
  <1>5. ASSUME NEW a \in proc[p].targets,
               Become(p, [proc[p] EXCEPT !.agent = a, !.targets = @ \ {a}, !.pc = "remove"])
        PROVE  PinInv'
    <2> DEFINE r == [proc[p] EXCEPT !.agent = a, !.targets = @ \ {a}, !.pc = "remove"]
    <2>1. /\ r \in Invocation /\ r.pc = "remove" /\ r.cmd = proc[p].cmd /\ r.slug = proc[p].slug
          /\ r.list = proc[p].list /\ r.pins = proc[p].pins /\ r.todo = proc[p].todo
          /\ r.key = proc[p].key /\ r.bundle = proc[p].bundle /\ r.bundleKey = proc[p].bundleKey
      BY <1>1 DEF Invocation, PCs
    <2> HIDE DEF r
    <2>2. Accepted(r, trusted)
      BY <1>1, <2>1 DEF Accepted, Placing
    <2>3. Become(p, r)
      BY <1>5 DEF r
    <2> QED
      BY <1>1, <2>1, <2>2, <2>3, PinOnward
  <1> QED
    BY <1>2, <1>3, <1>4, <1>5 DEF Place, StagingFails

(* A step on the directory at hand. *)
LEMMA PinPutting ==
    ASSUME InstallsInv, PinInv, NEW p \in Procs, proc[p].pc \in {"remove", "removing", "swap"},
           NEW pc \in {"removing", "swap", "place"}, Goto(p, pc),
           PinHolds', UNCHANGED <<identity, installs, pins, trusted>>
    PROVE  PinInv'
  <1> DEFINE r == [proc[p] EXCEPT !.pc = pc]
  <1>1. proc[p] \in Invocation /\ Accepted(proc[p], trusted)
    BY Numbers DEF PinInv
  <1>2. /\ r \in Invocation /\ r.pc = pc /\ r.cmd = proc[p].cmd /\ r.slug = proc[p].slug
        /\ r.list = proc[p].list /\ r.pins = proc[p].pins /\ r.todo = proc[p].todo
        /\ r.key = proc[p].key /\ r.bundle = proc[p].bundle /\ r.bundleKey = proc[p].bundleKey
    BY <1>1 DEF Invocation, PCs
  <1>3. Become(p, r)
    BY DEF Goto
  <1> HIDE DEF r
  <1>4. Accepted(r, trusted)
    BY <1>1, <1>2 DEF Accepted, Placing
  <1>5. /\ trusted \subseteq trusted' /\ trusted' \subseteq Slugs \X (Keys \ {0})
        /\ \A s \in Slugs : installs'[s] > 0 => <<s, pins'[s]>> \in trusted'
    BY DEF PinInv
  <1> QED
    BY <1>2, <1>3, <1>4, <1>5, PinStep

(* What is put there is nothing whole, or signed with a trusted key. *)
LEMMA PutTrusted ==
    ASSUME InstallsInv, PinInv, NEW p \in Procs, UNCHANGED trusted,
           NEW v \in Versions \cup {Broken}, NEW k \in Keys, PutHere(p, v, k),
           v > 0 => <<proc[p].slug, k>> \in trusted
    PROVE  PinHolds'
  <1>1. /\ dirs'[proc[p].agent][proc[p].slug] = v
        /\ \A a \in Agents, s \in Slugs :
              a # proc[p].agent \/ s # proc[p].slug => dirs'[a][s] = dirs[a][s]
        /\ origin'[proc[p].agent][proc[p].slug] = k
        /\ \A a \in Agents, s \in Slugs :
              a # proc[p].agent \/ s # proc[p].slug => origin'[a][s] = origin[a][s]
    BY Put
  <1> QED
    BY <1>1 DEF PinInv, PinHolds

LEMMA RemoveOldPin == ASSUME InstallsInv, PinInv, NEW p \in Procs, RemoveOld(p) PROVE PinInv'
  <1>1. /\ UNCHANGED <<identity, installs, pins, trusted>> /\ proc[p].pc = "remove"
    BY DEF RemoveOld, registry, records, history, At
  <1>2. CASE Goto(p, "swap") /\ UNCHANGED folders
    <2>1. PinHolds'
      BY <1>1, <1>2 DEF PinInv, PinHolds, folders
    <2> QED
      BY <1>1, <1>2, <2>1, PinPutting
  <1>3. CASE Goto(p, "removing") /\ PutHere(p, Broken, 0)
    <2>1. Broken \in Versions \cup {Broken} /\ 0 \in Keys /\ ~(Broken > 0)
      BY MaxKeyAssumption DEF Keys, Broken
    <2>2. PinHolds'
      BY <1>1, <1>3, <2>1, PutTrusted
    <2> QED
      BY <1>1, <1>3, <2>2, PinPutting
  <1> QED
    BY <1>2, <1>3 DEF RemoveOld

LEMMA RemovedOldPin == ASSUME InstallsInv, PinInv, NEW p \in Procs, RemovedOld(p) PROVE PinInv'
  <1>1. /\ UNCHANGED <<identity, installs, pins, trusted>> /\ proc[p].pc = "removing"
    BY DEF RemovedOld, registry, records, history, At
  <1>2. 0 \in Versions \cup {Broken} /\ 0 \in Keys /\ ~(0 > 0) /\ ~(Broken > 0)
    BY MaxVersionAssumption, MaxKeyAssumption DEF Versions, Keys, Broken
  <1>3. CASE Goto(p, "swap") /\ PutHere(p, 0, 0)
    <2>1. PinHolds'
      BY <1>1, <1>2, <1>3, PutTrusted
    <2> QED
      BY <1>1, <1>3, <2>1, PinPutting
  <1>4. CASE Ends(p) /\ UNCHANGED folders
    BY <1>1, <1>4, PinStops DEF folders
  <1>5. CASE Ends(p) /\ PutHere(p, Broken, 0)
    <2>1. Broken \in Versions \cup {Broken}
      OBVIOUS
    <2>2. PinHolds'
      BY <1>1, <1>2, <1>5, <2>1, PutTrusted
    <2>3. \A s \in Slugs : installs'[s] > 0 => <<s, pins'[s]>> \in trusted
      BY <1>1 DEF PinInv
    <2> QED
      BY <1>1, <1>5, <2>2, <2>3, PinEnds
  <1> QED
    BY <1>3, <1>4, <1>5 DEF RemovedOld

LEMMA SwapPin == ASSUME InstallsInv, PinInv, NEW p \in Procs, Swap(p) PROVE PinInv'
  <1>1. /\ UNCHANGED <<identity, installs, pins, trusted>> /\ proc[p].pc = "swap"
    BY DEF Swap, registry, records, history, At
  <1>2. CASE Goto(p, "place") /\ PutHere(p, proc[p].bundle, proc[p].bundleKey)
    <2>1. proc[p].bundle \in Versions \cup {Broken} /\ proc[p].bundleKey \in Keys
      BY Numbers DEF Invocation
    <2>2. <<proc[p].slug, proc[p].bundleKey>> \in trusted
      BY <1>1 DEF PinInv, Accepted, Placing
    <2>3. PinHolds'
      BY <1>1, <1>2, <2>1, <2>2, PutTrusted
    <2> QED
      BY <1>1, <1>2, <2>3, PinPutting
  <1>3. CASE Ends(p) /\ UNCHANGED folders
    BY <1>1, <1>3, PinStops DEF folders
  <1> QED
    BY <1>2, <1>3 DEF Swap

LEMMA ReadInstallsPin == ASSUME InstallsInv, PinInv, NEW p \in Procs, ReadInstalls(p) PROVE PinInv'
  <1>1. /\ UNCHANGED <<identity, dirs, origin, installs, pins, trusted>>
        /\ proc[p].pc = "read" /\ Accepted(proc[p], trusted) /\ proc[p] \in Invocation
    BY Numbers DEF ReadInstalls, FilesKept, registry, folders, records, history, At, PinInv
  <1>2. CASE Ends(p)
    BY <1>1, <1>2, PinStops
  <1>3. ASSUME Readable,
               Become(p, [proc[p] EXCEPT !.list = [installs EXCEPT ![proc[p].slug] = proc[p].bundle],
                                         !.pins = [pins EXCEPT ![proc[p].slug] = proc[p].key],
                                         !.pc = "save"])
        PROVE  PinInv'
    <2> DEFINE f == [installs EXCEPT ![proc[p].slug] = proc[p].bundle]
               k == [pins EXCEPT ![proc[p].slug] = proc[p].key]
               r == [proc[p] EXCEPT !.list = f, !.pins = k, !.pc = "save"]
    <2>1. installs \in [Slugs -> Versions] /\ pins \in [Slugs -> Keys]
      BY <1>3 DEF Readable, InstallsInv, TypeOK
    <2>2. /\ f \in [Slugs -> Versions]
          /\ \A s \in Slugs : f[s] = IF s = proc[p].slug THEN proc[p].bundle ELSE installs[s]
      BY <1>1, <2>1 DEF Invocation
    <2>3. /\ k \in [Slugs -> Keys]
          /\ \A s \in Slugs : k[s] = IF s = proc[p].slug THEN proc[p].key ELSE pins[s]
      BY <1>1, <2>1 DEF Invocation
    <2>4. Become(p, r)
      BY <1>3
    <2> HIDE DEF f, k
    <2>5. /\ r \in Invocation /\ r.pc = "save" /\ r.cmd = proc[p].cmd /\ r.list = f /\ r.pins = k
      BY <1>1, <2>2, <2>3 DEF Invocation, PCs
    <2> HIDE DEF r
    <2>6. \A s \in Slugs : f[s] > 0 => <<s, k[s]>> \in trusted
      BY <1>1, <2>2, <2>3 DEF PinInv, Accepted, Placing
    <2>7. proc[p].cmd # "update"
      BY <1>1 DEF Accepted
    <2>8. Accepted(r, trusted)
      BY <2>5, <2>6, <2>7 DEF Accepted, Placing
    <2> QED
      BY <1>1, <2>4, <2>5, <2>8, PinOnward
  <1> QED
    BY <1>2, <1>3 DEF ReadInstalls

LEMMA SavePin == ASSUME InstallsInv, PinInv, NEW p \in Procs, Save(p) PROVE PinInv'
  <1>1. /\ UNCHANGED <<identity, dirs, origin, trusted>> /\ installs' = Torn
        /\ proc[p].pc = "save" /\ Accepted(proc[p], trusted) /\ proc[p] \in Invocation
        /\ Goto(p, "saving")
    BY Numbers DEF Save, registry, folders, history, At, PinInv
  <1> DEFINE r == [proc[p] EXCEPT !.pc = "saving"]
  <1>2. /\ r \in Invocation /\ r.pc = "saving" /\ r.cmd = proc[p].cmd
        /\ r.list = proc[p].list /\ r.pins = proc[p].pins /\ r.todo = proc[p].todo
    BY <1>1 DEF Invocation, PCs
  <1>3. Become(p, r)
    BY <1>1 DEF Goto
  <1> HIDE DEF r
  <1>4. Accepted(r, trusted)
    BY <1>1, <1>2 DEF Accepted, Placing
  <1>5. /\ trusted \subseteq trusted' /\ trusted' \subseteq Slugs \X (Keys \ {0})
        /\ PinHolds'
    BY <1>1 DEF PinInv, PinHolds
  <1>6. \A s \in Slugs : installs'[s] > 0 => <<s, pins'[s]>> \in trusted'
    BY <1>1 DEF Torn, Broken
  <1> QED
    BY <1>1, <1>2, <1>3, <1>4, <1>5, <1>6, PinStep

LEMMA SavedPin == ASSUME InstallsInv, PinInv, NEW p \in Procs, Saved(p) PROVE PinInv'
  <1>1. /\ UNCHANGED <<identity, dirs, origin, trusted>> /\ Ends(p)
        /\ Accepted(proc[p], trusted)
        /\ \/ installs' = proc[p].list /\ pins' = proc[p].pins
           \/ installs' = Torn
    BY DEF Saved, registry, folders, history, PinInv
  <1>2. PinHolds'
    BY <1>1 DEF PinInv, PinHolds
  <1>3. \A s \in Slugs : installs'[s] > 0 => <<s, pins'[s]>> \in trusted
    BY <1>1 DEF Accepted, Torn, Broken
  <1> QED
    BY <1>1, <1>2, <1>3, PinEnds

LEMMA KillPin == ASSUME InstallsInv, PinInv, NEW p \in Procs, Kill(p) PROVE PinInv'
  <1>1. UNCHANGED <<identity, dirs, origin, installs, pins, trusted>> /\ Ends(p)
    BY DEF Kill, FilesKept, registry, folders, records
  <1> QED
    BY <1>1, PinStops

LEMMA NextPin == InstallsInv /\ PinInv /\ [Next]_vars => PinInv'
  <1> SUFFICES ASSUME InstallsInv, PinInv, [Next]_vars PROVE PinInv'
    OBVIOUS
  <1>1. CASE UNCHANGED vars
    BY <1>1 DEF vars, registry, folders, records, history, PinInv, PinHolds, Accepted
  <1>2. ASSUME NEW s \in Slugs, Publish(s) \/ Republish(s) \/ NewIdentity(s) PROVE PinInv'
    BY <1>2, RegistryPin
  <1>3. ASSUME NEW p \in Procs, Step(p) PROVE PinInv'
    BY <1>3, StartPin, NextInstallPin, FetchBundlePin, FetchListingPin, LicensePin, SaveCredsPin,
       VerifyPin, PlacePin, RemoveOldPin, RemovedOldPin, SwapPin, ReadInstallsPin, SavePin,
       SavedPin, KillPin DEF Step
  <1> QED
    BY <1>1, <1>2, <1>3 DEF Next

(* Whatever overlaps or is killed, and whichever identity a registry takes  *)
(* on, every whole install was signed with a key the user has added the     *)
(* skill under: `update` brings in no other.                                *)
THEOREM PinAlwaysHolds == Spec => []PinHolds
  <1>1. PinInv => PinHolds
    BY DEF PinInv
  <1>2. Spec => []PinInv
    BY InitPin, NextPin, InvAlways, PTL DEF Spec
  <1> QED
    BY <1>1, <1>2, PTL

-----------------------------------------------------------------------------
(* Undisturbed and not killed, what is recorded is installed and has a token, *)
(* but for the directory an invocation is replacing.                          *)
Peaceful == ~overlapped /\ ~killed

Hole(i, a, s) == i.pc \in {"removing", "swap"} /\ a = i.agent /\ s = i.slug

Kept(i, s, v, d, c) == s \in c /\ \A a \in Agents : d[a][s] >= v \/ Hole(i, a, s)

(* Of an invocation i, with the directories d, the credentials c and the     *)
(* recorded versions f.                                                      *)
Steady(i, d, c, f) ==
    /\ \A s \in Slugs : f[s] > 0 => Kept(i, s, f[s], d, c)
    /\ \A s \in Slugs : i.list[s] > 0 => Kept(i, s, i.list[s], d, c)
    /\ i.pc = "removing" => d[i.agent][i.slug] = Broken
    /\ i.pc = "swap" => d[i.agent][i.slug] = 0
    /\ i.pc = "token" => c \subseteq i.creds /\ i.slug \in i.creds
    /\ i.cmd = "add" /\ i.pc \in {"bundle", "verify"} \cup Placing => i.slug \in c
    /\ i.pc \in Placing => \A a \in Agents \ Waiting(i) : d[a][i.slug] >= i.bundle

Whole(d, c, f) == \A s \in Slugs : f[s] > 0 => s \in c /\ \A a \in Agents : d[a][s] >= f[s]

SteadyInv ==
    Peaceful => /\ Quiet => Whole(dirs, creds, installs)
                /\ \A p \in Procs : Running(p) => Steady(proc[p], dirs, creds, installs)

LEMMA SteadyStep ==
    ASSUME InstallsInv, SteadyInv, NEW p \in Procs, Running(p), NEW r \in Invocation, Become(p, r),
           r.pc \notin {"idle", "done"}, UNCHANGED <<overlapped, killed>>,
           Peaceful => Steady(r, dirs', creds', installs')
    PROVE  SteadyInv'
  <1> SUFFICES ASSUME Peaceful PROVE SteadyInv'
    BY DEF SteadyInv, Peaceful
  <1>1. /\ proc'[p] = r
        /\ \A q \in Procs \ {p} : proc'[q] = proc[q]
    BY BecomeTyped DEF InstallsInv
  <1>2. \A q \in Procs : Running(q)' => q = p
    BY <1>1 DEF InstallsInv, Undisturbed, Alone, Running, Peaceful
  <1>3. Running(p)'
    BY <1>1 DEF Running
  <1>4. ~Quiet'
    BY <1>3 DEF Quiet
  <1> QED
    BY <1>1, <1>2, <1>4 DEF SteadyInv

LEMMA SteadyEnds ==
    ASSUME InstallsInv, SteadyInv, NEW p \in Procs, Running(p), Ends(p),
           UNCHANGED <<overlapped, killed>>,
           Peaceful => Whole(dirs', creds', installs')
    PROVE  SteadyInv'
  <1> SUFFICES ASSUME Peaceful PROVE SteadyInv'
    BY DEF SteadyInv, Peaceful
  <1>1. /\ ~Running(p)'
        /\ \A q \in Procs \ {p} : proc'[q] = proc[q]
    BY EndsTyped DEF InstallsInv
  <1>2. \A q \in Procs : ~Running(q)'
    BY <1>1 DEF InstallsInv, Undisturbed, Alone, Running, Peaceful
  <1> QED
    BY <1>2 DEF SteadyInv

(* Ending with the files as they are, and none being replaced. *)
LEMMA SteadyStops ==
    ASSUME InstallsInv, SteadyInv, NEW p \in Procs, Running(p), Ends(p),
           proc[p].pc \notin {"removing", "swap"},
           UNCHANGED <<dirs, creds, installs, overlapped, killed>>
    PROVE  SteadyInv'
  <1>1. Peaceful => Whole(dirs, creds, installs)
    BY DEF SteadyInv, Steady, Kept, Hole, Whole
  <1> QED
    BY <1>1, SteadyEnds

LEMMA InitSteady == Init => SteadyInv
  <1> SUFFICES ASSUME Init PROVE SteadyInv
    OBVIOUS
  <1>1. PICK S \in SUBSET Slugs :
           LET one == [s \in Slugs |-> IF s \in S THEN 1 ELSE 0]
           IN  /\ dirs = [a \in Agents |-> one] /\ origin = dirs
               /\ installs = one /\ pins = one
               /\ creds = S /\ trusted = S \X {1}
    BY DEF Init
  <1>2. \A s \in Slugs : /\ installs[s] = IF s \in S THEN 1 ELSE 0
                         /\ \A a \in Agents : dirs[a][s] = IF s \in S THEN 1 ELSE 0
    BY <1>1
  <1>3. Whole(dirs, creds, installs)
    BY <1>1, <1>2 DEF Whole
  <1>4. \A p \in Procs : ~Running(p)
    BY BlankTyped DEF Init, Running, PCs
  <1> QED
    BY <1>3, <1>4 DEF SteadyInv

LEMMA RegistrySteady ==
    ASSUME InstallsInv, SteadyInv, NEW s \in Slugs, Publish(s) \/ Republish(s) \/ NewIdentity(s)
    PROVE  SteadyInv'
  <1>1. UNCHANGED <<dirs, installs, creds, proc, overlapped, killed>>
    BY DEF Publish, Republish, NewIdentity, FilesKept, folders, records, history
  <1> QED
    BY <1>1 DEF SteadyInv, Peaceful, Quiet, Running

LEMMA StartSteady == ASSUME InstallsInv, SteadyInv, NEW p \in Procs, Start(p) PROVE SteadyInv'
  <1>1. /\ UNCHANGED <<dirs, installs, creds, killed>> /\ ~Running(p)
        /\ overlapped' = (overlapped \/ \E q \in Procs : Running(q))
    BY DEF Start, FilesKept, folders, records, At, Running
  <1> SUFFICES ASSUME Peaceful' PROVE SteadyInv'
    BY DEF SteadyInv
  <1>2. Whole(dirs, creds, installs) /\ \A q \in Procs : ~Running(q)
    BY <1>1 DEF Peaceful, SteadyInv, Quiet
  <1>3. ASSUME NEW r \in Invocation, Become(p, r), r.pc \in {"listing", "next", "done"},
               \A s \in Slugs : r.list[s] > 0 => r.list[s] = installs[s]
        PROVE  SteadyInv'
    <2>1. /\ proc'[p] = r
          /\ \A q \in Procs \ {p} : proc'[q] = proc[q]
      BY <1>3, BecomeTyped DEF InstallsInv
    <2>2. \A q \in Procs : Running(q)' => q = p
      BY <1>2, <2>1 DEF Running
    <2>3. Steady(r, dirs, creds, installs)
      BY <1>2, <1>3 DEF Steady, Kept, Whole, Placing
    <2> QED
      BY <1>1, <1>2, <2>1, <2>2, <2>3 DEF SteadyInv
  <1>4. CASE \E s \in Slugs : Become(p, [Blank("listing") EXCEPT !.slug = s])
    <2>1. PICK s \in Slugs : Become(p, [Blank("listing") EXCEPT !.slug = s])
      BY <1>4
    <2> DEFINE r == [Blank("listing") EXCEPT !.slug = s]
    <2>2. /\ Blank("listing") \in Invocation
          /\ Blank("listing").pc = "listing" /\ Blank("listing").list = Absent
      BY BlankTyped DEF PCs
    <2>3. r \in Invocation /\ r.pc = "listing" /\ r.list = Absent
      BY <2>2 DEF Invocation
    <2>4. Become(p, r)
      BY <2>1
    <2> HIDE DEF r
    <2> QED
      BY <1>3, <2>3, <2>4 DEF Absent
  <1>5. CASE Become(p, [Blank("next") EXCEPT !.cmd = "update", !.list = installs, !.pins = pins,
                                             !.todo = {s \in Slugs : installs[s] > 0},
                                             !.creds = creds])
             /\ Readable
    <2> DEFINE todo == {s \in Slugs : installs[s] > 0}
               r == [Blank("next") EXCEPT !.cmd = "update", !.list = installs, !.pins = pins,
                                          !.todo = todo, !.creds = creds]
    <2>1. installs \in [Slugs -> Versions] /\ pins \in [Slugs -> Keys] /\ creds \subseteq Slugs
      BY <1>5 DEF Readable, InstallsInv, TypeOK
    <2>2. Blank("next") \in Invocation /\ Blank("next").pc = "next"
      BY BlankTyped DEF PCs
    <2>3. todo \subseteq Slugs
      OBVIOUS
    <2>4. Become(p, r)
      BY <1>5
    <2> HIDE DEF todo
    <2>5. r \in Invocation /\ r.pc = "next" /\ r.list = installs
      BY <2>1, <2>2, <2>3 DEF Invocation
    <2> HIDE DEF r
    <2> QED
      BY <1>3, <2>4, <2>5
  <1>6. CASE Ends(p)
    <2>1. PICK r : r = Blank("done")
      OBVIOUS
    <2>2. r \in Invocation /\ r.pc = "done" /\ r.list = Absent
      BY <2>1, BlankTyped DEF PCs
    <2>3. Become(p, r)
      BY <1>6, <2>1 DEF Ends
    <2> QED
      BY <1>3, <2>2, <2>3 DEF Absent
  <1> QED
    BY <1>4, <1>5, <1>6 DEF Start

LEMMA NextInstallSteady ==
    ASSUME InstallsInv, PinInv, SteadyInv, NEW p \in Procs, NextInstall(p) PROVE SteadyInv'
  <1>1. /\ UNCHANGED <<dirs, installs, creds, overlapped, killed>> /\ Running(p)
        /\ proc[p].pc = "next" /\ proc[p] \in Invocation /\ Accepted(proc[p], trusted)
    BY Numbers DEF NextInstall, FilesKept, folders, records, history, At, Running, PinInv
  <1>2. PICK r \in Invocation : Become(p, r) /\ Turned(proc[p], r)
    BY NextInstallTurns
  <1>3. r.cmd # "add" /\ r.pc \in {"save", "next", "bundle"} /\ r.list = proc[p].list
    BY <1>1, <1>2 DEF Accepted, Turned
  <1>4. Peaceful => Steady(r, dirs, creds, installs)
    BY <1>1, <1>3 DEF SteadyInv, Steady, Kept, Hole, Placing
  <1> QED
    BY <1>1, <1>2, <1>3, <1>4, SteadyStep

LEMMA FetchBundleSteady ==
    ASSUME InstallsInv, SteadyInv, NEW p \in Procs, FetchBundle(p) PROVE SteadyInv'
  <1>1. /\ UNCHANGED <<dirs, installs, creds, overlapped, killed>> /\ Running(p)
        /\ proc[p].pc = "bundle" /\ proc[p] \in Invocation
    BY Numbers DEF FetchBundle, FilesKept, folders, records, history, At, Running
  <1>2. CASE Ends(p)
    BY <1>1, <1>2, SteadyStops
  <1>3. CASE \E pc \in {"verify", "listing"} : Become(p, WithBundle(p, pc))
    <2>1. PICK pc \in {"verify", "listing"} : Become(p, WithBundle(p, pc))
      BY <1>3
    <2>2. PICK r : r = WithBundle(p, pc)
      OBVIOUS
    <2>3. pc \in PCs
      BY DEF PCs
    <2>4. /\ r \in Invocation /\ r.pc = pc /\ r.cmd = proc[p].cmd /\ r.slug = proc[p].slug
          /\ r.list = proc[p].list
      BY <2>2, <2>3, ServedBundleTyped
    <2>5. Peaceful => Steady(r, dirs, creds, installs)
      BY <1>1, <2>4 DEF SteadyInv, Steady, Kept, Hole, Placing
    <2> QED
      BY <1>1, <2>1, <2>2, <2>4, <2>5, SteadyStep
  <1>4. CASE \E pc \in {"license", "listing"} : Goto(p, pc)
    <2>1. PICK pc \in {"license", "listing"} : Goto(p, pc)
      BY <1>4
    <2> DEFINE r == [proc[p] EXCEPT !.pc = pc]
    <2>2. r \in Invocation /\ r.pc = pc /\ r.list = proc[p].list
      BY <1>1 DEF Invocation, PCs
    <2>3. Become(p, r)
      BY <2>1 DEF Goto
    <2> HIDE DEF r
    <2>4. Peaceful => Steady(r, dirs, creds, installs)
      BY <1>1, <2>2 DEF SteadyInv, Steady, Kept, Hole, Placing
    <2> QED
      BY <1>1, <2>2, <2>3, <2>4, SteadyStep
  <1> QED
    BY <1>2, <1>3, <1>4 DEF FetchBundle, WithBundle

LEMMA LicenseSteady ==
    ASSUME InstallsInv, SteadyInv, NEW p \in Procs, License(p) PROVE SteadyInv'
  <1>1. /\ UNCHANGED <<dirs, installs, creds, overlapped, killed>> /\ Running(p)
        /\ proc[p].pc = "license" /\ proc[p] \in Invocation
    BY Numbers DEF License, FilesKept, folders, records, history, At, Running
  <1>2. CASE Ends(p)
    BY <1>1, <1>2, SteadyStops
  <1>3. CASE Become(p, WithBundle(p, "creds"))
    <2>1. PICK r : r = WithBundle(p, "creds")
      OBVIOUS
    <2>2. r \in Invocation /\ r.pc = "creds" /\ r.list = proc[p].list
      BY <2>1, ServedBundleTyped DEF PCs
    <2>3. Peaceful => Steady(r, dirs, creds, installs)
      BY <1>1, <2>2 DEF SteadyInv, Steady, Kept, Hole, Placing
    <2> QED
      BY <1>1, <1>3, <2>1, <2>2, <2>3, SteadyStep
  <1> QED
    BY <1>2, <1>3 DEF License, WithBundle

(* The credentials it replaces are those it has read, and one more. *)
LEMMA SaveCredsSteady ==
    ASSUME InstallsInv, SteadyInv, NEW p \in Procs, SaveCreds(p) PROVE SteadyInv'
  <1>1. /\ UNCHANGED <<dirs, installs, overlapped, killed>> /\ Running(p)
        /\ proc[p].pc \in {"creds", "token"} /\ proc[p] \in Invocation
    BY Numbers DEF SaveCreds, folders, records, history, At, Running
  <1>2. CASE Become(p, [proc[p] EXCEPT !.creds = creds \cup {proc[p].slug}, !.pc = "token"])
             /\ UNCHANGED creds
    <2> DEFINE r == [proc[p] EXCEPT !.creds = creds \cup {proc[p].slug}, !.pc = "token"]
    <2>1. creds \cup {proc[p].slug} \subseteq Slugs
      BY Numbers DEF InstallsInv, TypeOK
    <2>2. /\ r \in Invocation /\ r.pc = "token" /\ r.list = proc[p].list /\ r.slug = proc[p].slug
          /\ r.creds = creds \cup {proc[p].slug}
      BY <1>1, <2>1 DEF Invocation, PCs
    <2>3. Become(p, r)
      BY <1>2
    <2> HIDE DEF r
    <2>4. Peaceful => Steady(r, dirs, creds, installs)
      BY <1>1, <2>2 DEF SteadyInv, Steady, Kept, Hole, Placing
    <2> QED
      BY <1>1, <1>2, <2>2, <2>3, <2>4, SteadyStep
  <1>3. CASE proc[p].pc = "token" /\ creds' = proc[p].creds /\ Goto(p, "verify")
    <2> DEFINE r == [proc[p] EXCEPT !.pc = "verify"]
    <2>1. r \in Invocation /\ r.pc = "verify" /\ r.list = proc[p].list /\ r.slug = proc[p].slug
      BY <1>1 DEF Invocation, PCs
    <2>2. Become(p, r)
      BY <1>3 DEF Goto
    <2> HIDE DEF r
    <2>3. Peaceful => Steady(r, dirs, creds', installs)
      <3> SUFFICES ASSUME Peaceful PROVE Steady(r, dirs, creds', installs)
        OBVIOUS
      <3>1. creds \subseteq creds' /\ proc[p].slug \in creds'
        BY <1>1, <1>3 DEF SteadyInv, Steady
      <3> QED
        BY <1>1, <2>1, <3>1 DEF SteadyInv, Steady, Kept, Hole, Placing
    <2> QED
      BY <1>1, <2>1, <2>2, <2>3, SteadyStep
  <1> QED
    BY <1>2, <1>3 DEF SaveCreds, At

LEMMA FetchListingSteady ==
    ASSUME InstallsInv, SteadyInv, NEW p \in Procs, FetchListing(p) PROVE SteadyInv'
  <1>1. /\ UNCHANGED <<dirs, installs, creds, overlapped, killed>> /\ Running(p)
        /\ proc[p].pc = "listing" /\ proc[p] \in Invocation
    BY Numbers DEF FetchListing, FilesKept, folders, records, history, At, Running
  <1>2. CASE Ends(p)
    BY <1>1, <1>2, SteadyStops
  <1>3. CASE \E pc \in {"verify", "bundle", "license"} :
                /\ Become(p, WithListing(p, pc))
                /\ pc = "verify" => proc[p].cmd = "update"
                /\ pc = "bundle" => proc[p].slug \in creds
    <2>1. PICK pc \in {"verify", "bundle", "license"} :
                /\ Become(p, WithListing(p, pc))
                /\ pc = "verify" => proc[p].cmd = "update"
                /\ pc = "bundle" => proc[p].slug \in creds
      BY <1>3
    <2>2. PICK r : r = WithListing(p, pc)
      OBVIOUS
    <2>3. pc \in PCs
      BY DEF PCs
    <2>4. /\ r \in Invocation /\ r.pc = pc /\ r.cmd = proc[p].cmd /\ r.slug = proc[p].slug
          /\ r.list = proc[p].list
      BY <2>2, <2>3, ServedListingTyped
    <2>5. Peaceful => Steady(r, dirs, creds, installs)
      BY <1>1, <2>1, <2>4 DEF SteadyInv, Steady, Kept, Hole, Placing
    <2> QED
      BY <1>1, <2>1, <2>2, <2>4, <2>5, SteadyStep
  <1> QED
    BY <1>2, <1>3 DEF FetchListing, WithListing

(* update goes where the skill is, and that is everywhere. *)
LEMMA VerifySteady ==
    ASSUME InstallsInv, PinInv, SteadyInv, NEW p \in Procs, Verify(p) PROVE SteadyInv'
  <1>1. /\ UNCHANGED <<dirs, installs, creds, overlapped, killed>> /\ Running(p)
        /\ proc[p].pc = "verify" /\ proc[p] \in Invocation /\ Accepted(proc[p], trusted)
    BY Numbers DEF Verify, FilesKept, folders, records, At, Running, PinInv
  <1>2. CASE Ends(p)
    BY <1>1, <1>2, SteadyStops
  <1>3. CASE Goto(p, "next")
    <2> DEFINE r == [proc[p] EXCEPT !.pc = "next"]
    <2>1. r \in Invocation /\ r.pc = "next" /\ r.list = proc[p].list
      BY <1>1 DEF Invocation, PCs
    <2>2. Become(p, r)
      BY <1>3 DEF Goto
    <2> HIDE DEF r
    <2>3. Peaceful => Steady(r, dirs, creds, installs)
      BY <1>1, <2>1 DEF SteadyInv, Steady, Kept, Hole, Placing
    <2> QED
      BY <1>1, <2>1, <2>2, <2>3, SteadyStep
  <1>4. CASE Become(p, [proc[p] EXCEPT !.pc = "place", !.targets = Targets(p)])
    <2> DEFINE r == [proc[p] EXCEPT !.pc = "place", !.targets = Targets(p)]
    <2>1. Targets(p) \subseteq Agents
      BY DEF Targets
    <2>2. /\ r \in Invocation /\ r.pc = "place" /\ r.cmd = proc[p].cmd /\ r.slug = proc[p].slug
          /\ r.list = proc[p].list /\ r.targets = Targets(p)
      BY <1>1, <2>1 DEF Invocation, PCs
    <2>3. Become(p, r)
      BY <1>4
    <2> HIDE DEF r
    <2>4. ASSUME Peaceful PROVE Steady(r, dirs, creds, installs)
      <3>1. Steady(proc[p], dirs, creds, installs)
        BY <1>1, <2>4 DEF SteadyInv
      <3>2. proc[p].slug \in Slugs /\ proc[p].cmd \in {"add", "update"}
        BY <1>1 DEF Invocation
      <3>3. proc[p].cmd = "update" => proc[p].list[proc[p].slug] > 0
        BY <1>1 DEF Accepted
      <3>4. proc[p].cmd = "update" => \A a \in Agents : dirs[a][proc[p].slug] # 0
        BY <1>1, <3>1, <3>2, <3>3, Numbers DEF Steady, Kept, Hole
      <3>5. Targets(p) = Agents
        BY <3>4 DEF Targets
      <3> QED
        BY <1>1, <2>2, <3>1, <3>5 DEF Steady, Kept, Hole, Placing, Waiting
    <2> QED
      BY <1>1, <2>2, <2>3, <2>4, SteadyStep
  <1> QED
    BY <1>2, <1>3, <1>4 DEF Verify

LEMMA PlaceSteady ==
    ASSUME InstallsInv, PinInv, SteadyInv, NEW p \in Procs, Place(p) PROVE SteadyInv'
  <1>1. /\ UNCHANGED <<dirs, installs, creds, overlapped, killed>> /\ Running(p)
        /\ proc[p].pc = "place" /\ proc[p] \in Invocation /\ Accepted(proc[p], trusted)
    BY Numbers DEF Place, FilesKept, folders, records, history, At, Running, PinInv
  <1>2. CASE Ends(p)
    BY <1>1, <1>2, SteadyStops
  <1>3. CASE Goto(p, "read") /\ proc[p].targets = {}
    <2> DEFINE r == [proc[p] EXCEPT !.pc = "read"]
    <2>1. /\ r \in Invocation /\ r.pc = "read" /\ r.cmd = proc[p].cmd /\ r.slug = proc[p].slug
          /\ r.list = proc[p].list /\ r.bundle = proc[p].bundle
      BY <1>1 DEF Invocation, PCs
    <2>2. Become(p, r)
      BY <1>3 DEF Goto
    <2> HIDE DEF r
    <2>3. Peaceful => Steady(r, dirs, creds, installs)
      BY <1>1, <1>3, <2>1 DEF SteadyInv, Steady, Kept, Hole, Placing, Waiting
    <2> QED
      BY <1>1, <2>1, <2>2, <2>3, SteadyStep
  <1>4. CASE /\ Become(p, [proc[p] EXCEPT !.list[proc[p].slug] = proc[p].bundle, !.pc = "next"])
             /\ proc[p].cmd # "add" /\ proc[p].targets = {}
    <2> DEFINE f == [proc[p].list EXCEPT ![proc[p].slug] = proc[p].bundle]
               r == [proc[p] EXCEPT !.list = f, !.pc = "next"]
    <2>1. Become(p, r)
      <3>1. [proc[p] EXCEPT !.list[proc[p].slug] = proc[p].bundle, !.pc = "next"] = r
        BY <1>1 DEF Invocation
      <3> QED
        BY <1>4, <3>1
    <2>2. /\ f \in [Slugs -> Versions]
          /\ \A s \in Slugs : f[s] = IF s = proc[p].slug THEN proc[p].bundle ELSE proc[p].list[s]
      BY <1>1 DEF Invocation
    <2> HIDE DEF f
    <2>3. r \in Invocation /\ r.pc = "next" /\ r.list = f
      BY <1>1, <2>2 DEF Invocation, PCs
    <2> HIDE DEF r
    <2>4. ASSUME Peaceful PROVE Steady(r, dirs, creds, installs)
      <3>1. Steady(proc[p], dirs, creds, installs)
        BY <1>1, <2>4 DEF SteadyInv
      <3>2. proc[p].slug \in Slugs /\ proc[p].list[proc[p].slug] > 0
        BY <1>1, <1>4 DEF Accepted, Placing, Invocation
      <3>3. \A a \in Agents : dirs[a][proc[p].slug] >= proc[p].bundle
        BY <1>1, <1>4, <3>1 DEF Steady, Placing, Waiting
      <3>4. \A s \in Slugs : f[s] > 0 => s \in creds /\ \A a \in Agents : dirs[a][s] >= f[s]
        BY <1>1, <2>2, <3>1, <3>2, <3>3 DEF Steady, Kept, Hole
      <3> QED
        BY <1>1, <2>3, <3>1, <3>4 DEF Steady, Kept, Hole, Placing
    <2> QED
      BY <1>1, <2>1, <2>3, <2>4, SteadyStep
  <1>5. ASSUME NEW a \in proc[p].targets,
               Become(p, [proc[p] EXCEPT !.agent = a, !.targets = @ \ {a}, !.pc = "remove"])
        PROVE  SteadyInv'
    <2> DEFINE r == [proc[p] EXCEPT !.agent = a, !.targets = @ \ {a}, !.pc = "remove"]
    <2>1. /\ r \in Invocation /\ r.pc = "remove" /\ r.cmd = proc[p].cmd /\ r.slug = proc[p].slug
          /\ r.list = proc[p].list /\ r.bundle = proc[p].bundle
          /\ r.agent = a /\ r.targets = proc[p].targets \ {a}
      BY <1>1 DEF Invocation, PCs
    <2>2. Become(p, r)
      BY <1>5
    <2> HIDE DEF r
    <2>3. Peaceful => Steady(r, dirs, creds, installs)
      BY <1>1, <2>1 DEF SteadyInv, Steady, Kept, Hole, Placing, Waiting
    <2> QED
      BY <1>1, <2>1, <2>2, <2>3, SteadyStep
  <1> QED
    BY <1>2, <1>3, <1>4, <1>5 DEF Place, StagingFails

(* Until the bundle is there, the directory at hand is broken or empty. *)
LEMMA SteadyRemoving ==
    ASSUME InstallsInv, SteadyInv, NEW p \in Procs, proc[p].pc \in {"remove", "removing"},
           NEW pc \in {"removing", "swap"}, Goto(p, pc),
           \A a \in Agents, s \in Slugs :
              a # proc[p].agent \/ s # proc[p].slug => dirs'[a][s] = dirs[a][s],
           dirs'[proc[p].agent][proc[p].slug] = IF pc = "swap" THEN 0 ELSE Broken,
           UNCHANGED <<installs, creds, overlapped, killed>>
    PROVE  SteadyInv'
  <1> DEFINE r == [proc[p] EXCEPT !.pc = pc]
  <1>1. proc[p] \in Invocation /\ Running(p)
    BY Numbers DEF Running
  <1>2. /\ r \in Invocation /\ r.pc = pc /\ r.cmd = proc[p].cmd /\ r.slug = proc[p].slug
        /\ r.list = proc[p].list /\ r.bundle = proc[p].bundle
        /\ r.agent = proc[p].agent /\ r.targets = proc[p].targets
    BY <1>1 DEF Invocation, PCs
  <1>3. Become(p, r)
    BY DEF Goto
  <1> HIDE DEF r
  <1>4. ASSUME Peaceful PROVE Steady(r, dirs', creds', installs')
    <2>1. Steady(proc[p], dirs, creds, installs)
      BY <1>1, <1>4 DEF SteadyInv
    <2>2. ASSUME NEW s \in Slugs, NEW v, Kept(proc[p], s, v, dirs, creds)
          PROVE  Kept(r, s, v, dirs', creds')
      BY <1>2, <2>2 DEF Kept, Hole
    <2>3. \A a \in Agents \ Waiting(r) : dirs'[a][r.slug] >= r.bundle
      BY <1>1, <1>2, <2>1 DEF Steady, Placing, Waiting, Invocation
    <2>4. /\ \A s \in Slugs : installs'[s] > 0 => Kept(r, s, installs'[s], dirs', creds')
          /\ \A s \in Slugs : r.list[s] > 0 => Kept(r, s, r.list[s], dirs', creds')
      BY <1>2, <2>1, <2>2 DEF Steady
    <2>5. /\ r.pc = "removing" => dirs'[r.agent][r.slug] = Broken
          /\ r.pc = "swap" => dirs'[r.agent][r.slug] = 0
          /\ r.cmd = "add" /\ r.pc \in {"bundle", "verify"} \cup Placing => r.slug \in creds'
      BY <1>2, <2>1 DEF Steady, Placing
    <2> QED
      BY <1>2, <2>3, <2>4, <2>5 DEF Steady
  <1> QED
    BY <1>1, <1>2, <1>3, <1>4, SteadyStep

LEMMA RemoveOldSteady ==
    ASSUME InstallsInv, SteadyInv, NEW p \in Procs, RemoveOld(p) PROVE SteadyInv'
  <1>1. UNCHANGED <<installs, creds, overlapped, killed>> /\ proc[p].pc = "remove"
    BY DEF RemoveOld, records, history, At
  <1>2. CASE Here(p) = 0 /\ Goto(p, "swap") /\ UNCHANGED folders
    <2>1. dirs' = dirs /\ dirs[proc[p].agent][proc[p].slug] = 0
      BY <1>2 DEF folders, Here
    <2> QED
      BY <1>1, <1>2, <2>1, SteadyRemoving
  <1>3. CASE Goto(p, "removing") /\ PutHere(p, Broken, 0)
    <2>1. Broken \in Versions \cup {Broken} /\ 0 \in Keys
      BY MaxKeyAssumption DEF Keys
    <2>2. /\ dirs'[proc[p].agent][proc[p].slug] = Broken
          /\ \A a \in Agents, s \in Slugs :
                a # proc[p].agent \/ s # proc[p].slug => dirs'[a][s] = dirs[a][s]
      BY <1>3, <2>1, Put
    <2> QED
      BY <1>1, <1>3, <2>2, SteadyRemoving
  <1> QED
    BY <1>2, <1>3 DEF RemoveOld

LEMMA RemovedOldSteady ==
    ASSUME InstallsInv, SteadyInv, NEW p \in Procs, RemovedOld(p) PROVE SteadyInv'
  <1>1. UNCHANGED <<installs, creds, overlapped, killed>> /\ proc[p].pc = "removing" /\ Running(p)
    BY DEF RemovedOld, records, history, At, Running
  <1>2. CASE Goto(p, "swap") /\ PutHere(p, 0, 0)
    <2>1. 0 \in Versions \cup {Broken} /\ 0 \in Keys
      BY MaxVersionAssumption, MaxKeyAssumption DEF Versions, Keys
    <2>2. /\ dirs'[proc[p].agent][proc[p].slug] = 0
          /\ \A a \in Agents, s \in Slugs :
                a # proc[p].agent \/ s # proc[p].slug => dirs'[a][s] = dirs[a][s]
      BY <1>2, <2>1, Put
    <2> QED
      BY <1>1, <1>2, <2>2, SteadyRemoving
  <1>3. CASE Here(p) > 0 /\ Ends(p)
    <2>1. ~Peaceful
      BY <1>1, <1>3 DEF SteadyInv, Steady, Here, Broken
    <2> QED
      BY <1>1, <1>3, <2>1, SteadyEnds
  <1> QED
    BY <1>2, <1>3 DEF RemovedOld

(* The bundle fills the gap. *)
LEMMA SwapSteady ==
    ASSUME InstallsInv, SteadyInv, NEW p \in Procs, Swap(p) PROVE SteadyInv'
  <1>1. /\ UNCHANGED <<installs, creds, overlapped, killed>> /\ proc[p].pc = "swap" /\ Running(p)
        /\ proc[p] \in Invocation
    BY Numbers DEF Swap, records, history, At, Running
  <1>2. CASE Goto(p, "place") /\ PutHere(p, proc[p].bundle, proc[p].bundleKey)
    <2> DEFINE r == [proc[p] EXCEPT !.pc = "place"]
    <2>1. /\ r \in Invocation /\ r.pc = "place" /\ r.cmd = proc[p].cmd /\ r.slug = proc[p].slug
          /\ r.list = proc[p].list /\ r.bundle = proc[p].bundle
          /\ r.agent = proc[p].agent /\ r.targets = proc[p].targets
      BY <1>1 DEF Invocation, PCs
    <2>2. Become(p, r)
      BY <1>2 DEF Goto
    <2> HIDE DEF r
    <2>3. proc[p].bundle \in Versions \cup {Broken} /\ proc[p].bundleKey \in Keys
      BY <1>1 DEF Invocation
    <2>4. /\ dirs'[proc[p].agent][proc[p].slug] = proc[p].bundle
          /\ \A a \in Agents, s \in Slugs :
                a # proc[p].agent \/ s # proc[p].slug => dirs'[a][s] = dirs[a][s]
      BY <1>2, <2>3, Put
    <2>5. ASSUME Peaceful PROVE Steady(r, dirs', creds', installs')
      <3>1. Steady(proc[p], dirs, creds, installs) /\ Ahead(p)
        BY <1>1, <2>5 DEF SteadyInv, InstallsInv, Undisturbed, Peaceful
      <3>2. /\ proc[p].bundle >= installs[proc[p].slug]
            /\ proc[p].bundle >= proc[p].list[proc[p].slug]
        BY <1>1, <3>1 DEF Ahead, Fetched, Placing
      <3>3. \A s \in Slugs : installs'[s] > 0 => Kept(r, s, installs'[s], dirs', creds')
        BY <1>1, <2>4, <3>1, <3>2 DEF Steady, Kept, Hole
      <3>4. \A s \in Slugs : r.list[s] > 0 => Kept(r, s, r.list[s], dirs', creds')
        BY <1>1, <2>1, <2>4, <3>1, <3>2 DEF Steady, Kept, Hole
      <3>5. \A a \in Agents \ Waiting(r) : dirs'[a][r.slug] >= r.bundle
        <4> SUFFICES ASSUME NEW a \in Agents \ Waiting(r) PROVE dirs'[a][r.slug] >= r.bundle
          OBVIOUS
        <4>1. CASE a = proc[p].agent
          BY <2>1, <2>4, <4>1, Numbers
        <4>2. CASE a # proc[p].agent
          <5>1. a \notin Waiting(proc[p])
            BY <1>1, <2>1, <4>2 DEF Waiting
          <5>2. dirs[a][proc[p].slug] >= proc[p].bundle
            BY <1>1, <3>1, <5>1 DEF Steady, Placing
          <5> QED
            BY <1>1, <2>1, <2>4, <4>2, <5>2 DEF Invocation
        <4> QED
          BY <4>1, <4>2
      <3>6. r.cmd = "add" => r.slug \in creds'
        BY <1>1, <2>1, <3>1 DEF Steady, Placing
      <3> QED
        BY <2>1, <3>3, <3>4, <3>5, <3>6 DEF Steady
    <2> QED
      BY <1>1, <2>1, <2>2, <2>5, SteadyStep
  <1>3. CASE Here(p) # 0 /\ Ends(p)
    <2>1. ~Peaceful
      BY <1>1, <1>3 DEF SteadyInv, Steady, Here
    <2> QED
      BY <1>1, <1>3, <2>1, SteadyEnds
  <1> QED
    BY <1>2, <1>3 DEF Swap

LEMMA ReadInstallsSteady ==
    ASSUME InstallsInv, PinInv, SteadyInv, NEW p \in Procs, ReadInstalls(p) PROVE SteadyInv'
  <1>1. /\ UNCHANGED <<dirs, installs, creds, overlapped, killed>> /\ Running(p)
        /\ proc[p].pc = "read" /\ proc[p] \in Invocation /\ Accepted(proc[p], trusted)
    BY Numbers DEF ReadInstalls, FilesKept, folders, records, history, At, Running, PinInv
  <1>2. CASE Ends(p)
    BY <1>1, <1>2, SteadyStops
  <1>3. ASSUME Readable,
               Become(p, [proc[p] EXCEPT !.list = [installs EXCEPT ![proc[p].slug] = proc[p].bundle],
                                         !.pins = [pins EXCEPT ![proc[p].slug] = proc[p].key],
                                         !.pc = "save"])
        PROVE  SteadyInv'
    <2> DEFINE f == [installs EXCEPT ![proc[p].slug] = proc[p].bundle]
               k == [pins EXCEPT ![proc[p].slug] = proc[p].key]
               r == [proc[p] EXCEPT !.list = f, !.pins = k, !.pc = "save"]
    <2>1. installs \in [Slugs -> Versions] /\ pins \in [Slugs -> Keys]
      BY <1>3 DEF Readable, InstallsInv, TypeOK
    <2>2. /\ f \in [Slugs -> Versions]
          /\ \A s \in Slugs : f[s] = IF s = proc[p].slug THEN proc[p].bundle ELSE installs[s]
      BY <1>1, <2>1 DEF Invocation
    <2>3. k \in [Slugs -> Keys]
      BY <1>1, <2>1 DEF Invocation
    <2>4. Become(p, r)
      BY <1>3
    <2> HIDE DEF f, k
    <2>5. r \in Invocation /\ r.pc = "save" /\ r.list = f
      BY <1>1, <2>2, <2>3 DEF Invocation, PCs
    <2> HIDE DEF r
    <2>6. ASSUME Peaceful PROVE Steady(r, dirs, creds, installs)
      <3>1. Steady(proc[p], dirs, creds, installs)
        BY <1>1, <2>6 DEF SteadyInv
      <3>2. proc[p].cmd = "add"
        BY <1>1 DEF Accepted, Invocation
      <3>3. proc[p].slug \in creds /\ \A a \in Agents : dirs[a][proc[p].slug] >= proc[p].bundle
        BY <1>1, <3>1, <3>2 DEF Steady, Placing, Waiting
      <3>4. \A s \in Slugs : f[s] > 0 => s \in creds /\ \A a \in Agents : dirs[a][s] >= f[s]
        BY <1>1, <2>2, <3>1, <3>3 DEF Steady, Kept, Hole
      <3> QED
        BY <1>1, <2>5, <3>1, <3>4 DEF Steady, Kept, Hole, Placing
    <2> QED
      BY <1>1, <2>4, <2>5, <2>6, SteadyStep
  <1> QED
    BY <1>2, <1>3 DEF ReadInstalls

LEMMA SaveSteady == ASSUME InstallsInv, SteadyInv, NEW p \in Procs, Save(p) PROVE SteadyInv'
  <1>1. /\ UNCHANGED <<dirs, creds, overlapped, killed>> /\ installs' = Torn /\ Running(p)
        /\ proc[p].pc = "save" /\ proc[p] \in Invocation /\ Goto(p, "saving")
    BY Numbers DEF Save, folders, history, At, Running
  <1> DEFINE r == [proc[p] EXCEPT !.pc = "saving"]
  <1>2. r \in Invocation /\ r.pc = "saving" /\ r.list = proc[p].list
    BY <1>1 DEF Invocation, PCs
  <1>3. Become(p, r)
    BY <1>1 DEF Goto
  <1> HIDE DEF r
  <1>4. ~\E s \in Slugs : installs'[s] > 0
    BY <1>1 DEF Torn, Broken
  <1>5. Peaceful => Steady(r, dirs', creds', installs')
    BY <1>1, <1>2, <1>4 DEF SteadyInv, Steady, Kept, Hole, Placing
  <1> QED
    BY <1>1, <1>2, <1>3, <1>5, SteadyStep

LEMMA SavedSteady == ASSUME InstallsInv, SteadyInv, NEW p \in Procs, Saved(p) PROVE SteadyInv'
  <1>1. /\ UNCHANGED <<dirs, creds, overlapped, killed>> /\ Running(p)
        /\ proc[p].pc = "saving" /\ Ends(p)
        /\ installs' = proc[p].list \/ installs' = Torn
    BY DEF Saved, folders, history, At, Running
  <1>2. Peaceful => Whole(dirs', creds', installs')
    BY <1>1 DEF SteadyInv, Steady, Kept, Hole, Whole, Torn, Broken
  <1> QED
    BY <1>1, <1>2, SteadyEnds

LEMMA NextSteady == InstallsInv /\ PinInv /\ SteadyInv /\ [Next]_vars => SteadyInv'
  <1> SUFFICES ASSUME InstallsInv, PinInv, SteadyInv, [Next]_vars PROVE SteadyInv'
    OBVIOUS
  <1>1. CASE UNCHANGED vars
    BY <1>1 DEF vars, folders, records, history, SteadyInv, Peaceful, Quiet, Running
  <1>2. ASSUME NEW s \in Slugs, Publish(s) \/ Republish(s) \/ NewIdentity(s) PROVE SteadyInv'
    BY <1>2, RegistrySteady
  <1>3. ASSUME NEW p \in Procs, Kill(p) PROVE SteadyInv'
    BY <1>3 DEF Kill, SteadyInv, Peaceful
  <1>4. ASSUME NEW p \in Procs, Step(p) PROVE SteadyInv'
    BY <1>3, <1>4, StartSteady, NextInstallSteady, FetchBundleSteady, FetchListingSteady,
       LicenseSteady, SaveCredsSteady, VerifySteady, PlaceSteady, RemoveOldSteady,
       RemovedOldSteady, SwapSteady, ReadInstallsSteady, SaveSteady, SavedSteady DEF Step
  <1> QED
    BY <1>1, <1>2, <1>4 DEF Next

(* Undisturbed and not killed, a recorded skill is on every agent directory *)
(* at the recorded version or above, and there is a token to update it      *)
(* with, for any number of skills and agent directories.                    *)
THEOREM RecordIsHonoured == Spec => []RecordedIsInstalled
  <1>1. SteadyInv => RecordedIsInstalled
    BY DEF SteadyInv, Peaceful, Whole, RecordedIsInstalled
  <1>2. Spec => [](PinInv /\ SteadyInv)
    BY InitPin, NextPin, InitSteady, NextSteady, InvAlways, PTL DEF Spec
  <1> QED
    BY <1>1, <1>2, PTL
=============================================================================
