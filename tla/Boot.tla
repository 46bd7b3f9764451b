-------------------------------- MODULE Boot --------------------------------
(***************************************************************************)
(* The life of one data directory: the boots of the registry's server      *)
(* (the Store constructor of packages/server/src/store.js and the identity *)
(* step of createApp in index.js), what it takes in while it runs, and the *)
(* operator between two runs.                                              *)
(*                                                                         *)
(* A boot imports a legacy store.json, rotates the backups, then looks for *)
(* its identity; it may be killed between any two of its steps.  The       *)
(* exclusive lock of SQLite admits one server at a time, and committed     *)
(* transactions are durable (module Store).                                *)
(***************************************************************************)
EXTENDS Integers, Sequences, FiniteSets, SequencesExt

CONSTANTS
    Agents, Other,   \* the keys of byAgent that clients name, and OTHER_KEY
    MaxAgentKeys,    \* MAX_AGENT_KEYS
    MaxEventAgents,  \* the agents kept of one event
    MaxCount,        \* MAX_COUNT
    MaxBuffer,       \* MAX_REPORTS and MAX_EVENTS
    Sent,            \* the reports and events that clients send
    MaxSent,         \* bound on those received
    MaxKeys,         \* bound on the identities minted
    MaxBoots         \* bound on boots

BackupsKept == 3

ASSUME BoundsAssumption ==
    /\ {MaxAgentKeys, MaxEventAgents, MaxBuffer, MaxSent, MaxBoots} \subseteq Nat
    /\ {MaxCount, MaxKeys} \subseteq Nat \ {0}
ASSUME AgentsAssumption == Other \notin Agents /\ IsFiniteSet(Agents)

Keys    == 1..MaxKeys           \* identities; 0: none
Names   == Agents \cup {Other}
Buffers == {"reports", "events"}
SchemaVersion == 2

(* A report counts sessions, and more of them per agent; an event lists     *)
(* agents, each once.                                                      *)
Items == [kind : {"report", "install", "update"}, sessions : Int, agents : Seq(Names \X Int)]

ASSUME SentAssumption ==
    /\ Sent \subseteq Items
    /\ \A s \in Sent : s.kind # "report" => \A n \in DOMAIN s.agents : s.agents[n][2] = 1

(* usageTotals and eventTotals of a skill *)
Totals == [reports : Nat, sessions : Nat, installs : Nat, updates : Nat,
           byAgent : [Names -> Nat], installsByAgent : [Names -> Nat]]
NoTotals == [reports |-> 0, sessions |-> 0, installs |-> 0, updates |-> 0,
             byAgent |-> [a \in Names |-> 0], installsByAgent |-> [a \in Names |-> 0]]

(* The rows: the schema's version, the identities its skills and orders     *)
(* were signed under, the totals, the bounded buffers and the flags of the *)
(* import.  `received` is history: every item these rows stand for.        *)
Data == [schema : 0..SchemaVersion + 1, signed : SUBSET Keys, totals : Totals,
         buffer : [Buffers -> Seq(Items)], folded : SUBSET Buffers,
         received : [Buffers -> Seq(Items)]]
NoData == [schema |-> 0, signed |-> {}, totals |-> NoTotals,
           buffer |-> [b \in Buffers |-> <<>>], folded |-> {},
           received |-> [b \in Buffers |-> <<>>]]

VARIABLES
    legacy,     \* history: what an older server left, signed and received
    json,       \* store.json (NoData: not there)
    disk,       \* the committed rows
    mem,        \* this.data
    backups,    \* store.db.bak.1 .. 3: the boot that took it and the rows
    key,        \* identity.json
    lost,       \* the operator's copy of a lost identity
    pc,         \* the step of the boot; "up": serving
    boots, minted,
    latest,     \* history: the boot of the last complete backup
    torn,       \* history: a later one was left incomplete
    accepted    \* history: ALLODIC_ACCEPT_NEW_IDENTITY was used

store    == <<legacy, json, disk, mem>>
identity == <<key, lost, minted, accepted>>
saved    == <<backups, latest, torn>>
vars     == <<store, identity, saved, pc, boots>>

NoBackup == [boot |-> 0, rows |-> NoData]
Partial  == [boot |-> -1, rows |-> NoData]
Backups  == [boot : 1..MaxBoots, rows : Data] \cup {NoBackup, Partial}

-----------------------------------------------------------------------------
(* Reports, events and their totals *)

ClampCount(n) == IF n <= 0 THEN 0 ELSE Min({n, MaxCount})

KeepCounted(kept, entry) ==
    IF ClampCount(entry[2]) > 0 THEN Append(kept, <<entry[1], ClampCount(entry[2])>>) ELSE kept

Clamped(agents) == FoldLeft(KeepCounted, <<>>, agents)

Named(map) == {a \in Names \ {Other} : map[a] > 0}

(* #foldKey: a known key, a new one while there is room, or the reserve.   *)
FoldKey(map, a) ==
    IF map[a] > 0 \/ Cardinality(Named(map)) < MaxAgentKeys THEN a ELSE Other

FoldAgent(map, entry) == [map EXCEPT ![FoldKey(map, entry[1])] = @ + entry[2]]

FoldAgents(map, agents) == FoldLeft(FoldAgent, map, agents)

FoldReport(t, r) ==
    [t EXCEPT !.reports = @ + 1, !.sessions = @ + ClampCount(r.sessions),
              !.byAgent = FoldAgents(@, Clamped(r.agents))]

FoldEvent(t, e) ==
    IF e.kind = "install"
    THEN [t EXCEPT !.installs = @ + 1, !.installsByAgent = FoldAgents(@, e.agents)]
    ELSE [t EXCEPT !.updates = @ + 1]

FoldItem(t, i) == IF i.kind = "report" THEN FoldReport(t, i) ELSE FoldEvent(t, i)

BufferOf(i) == IF i.kind = "report" THEN "reports" ELSE "events"

NoTrim(buffer) == buffer                                  \* mutant of Trim

(* The oldest go. *)
Trim(buffer) ==
    IF Len(buffer) > MaxBuffer THEN SubSeq(buffer, Len(buffer) - MaxBuffer + 1, Len(buffer))
    ELSE buffer

(* addReport, addEvent *)
Added(d, i) ==
    [d EXCEPT !.totals = FoldItem(@, i), !.buffer[BufferOf(i)] = Trim(Append(@, i)),
              !.received[BufferOf(i)] = Append(@, i)]

(* What the routes keep of an item: its first agents, with counts in range. *)
Clean(i) ==
    IF i.kind = "report"
    THEN [i EXCEPT !.sessions = ClampCount(@),
                   !.agents = Clamped(SubSeq(@, 1, Min({Len(@), MaxAgentKeys})))]
    ELSE [i EXCEPT !.agents = SubSeq(@, 1, Min({Len(@), MaxEventAgents}))]

FoldAgain(d, b) == d.buffer[b] # <<>>                     \* mutant of NeedsFold

(* Legacy stores may predate the totals. *)
NeedsFold(d, b) == d.buffer[b] # <<>> /\ b \notin d.folded

FoldBuffer(d, b) ==
    IF NeedsFold(d, b)
    THEN [d EXCEPT !.totals = FoldLeft(FoldItem, @, d.buffer[b]), !.folded = @ \cup {b}]
    ELSE d

Imported(d) == FoldBuffer(FoldBuffer(d, "reports"), "events")

(* A store.json as an older server left it, which may predate the totals. *)
Untotalled ==
    LET Histories == {h \in [Buffers -> UNION {[1..n -> Sent] : n \in 0..MaxBuffer}] :
                        \A b \in Buffers : \A n \in DOMAIN h[b] : BufferOf(h[b][n]) = b}
    IN  {[NoData EXCEPT !.signed = {1}, !.buffer = h, !.received = h] : h \in Histories}

(* Without totals, with those of its reports, or with all. *)
LegacyStores ==
    Untotalled \cup {FoldBuffer(d, "reports") : d \in Untotalled}
               \cup {Imported(d) : d \in Untotalled}

Left(d) == [signed |-> d.signed, received |-> d.received]

(* A new directory, one of a JSON store, or a database of another version. *)
Init ==
    /\ \/ json = NoData /\ disk = NoData /\ legacy = Left(NoData)
       \/ json \in LegacyStores /\ disk = NoData /\ legacy = Left(json)
       \/ /\ json = NoData
          /\ disk \in {[d EXCEPT !.schema = v] : d \in {d \in LegacyStores : Imported(d) = d},
                                                v \in {1, SchemaVersion + 1}}
          /\ legacy = Left(disk)
    /\ mem = NoData
    /\ backups = [i \in 1..BackupsKept |-> NoBackup] /\ latest = 0 /\ torn = FALSE
    /\ minted = (IF legacy.signed = {} THEN 0 ELSE 1)
    /\ key = minted /\ lost = 0 /\ accepted = FALSE
    /\ pc = "down" /\ boots = 0

-----------------------------------------------------------------------------
(* A boot *)

RenameFirst == [import |-> "rename", rename |-> "save", save |-> "rotate2"]
                                                          \* mutant of After

(* The order of the steps of an import. *)
After == [import |-> "save", save |-> "rename", rename |-> "rotate2"]

Start ==
    /\ pc = "down" /\ boots < MaxBoots
    /\ pc' = "ladder" /\ boots' = boots + 1
    /\ UNCHANGED <<store, identity, saved>>

(* #initSchema: the tables of a new or older database are made in one       *)
(* transaction; that of a newer server is refused.                         *)
Ladder ==
    /\ pc = "ladder"
    /\ \/ /\ disk.schema <= SchemaVersion
          /\ disk' = [disk EXCEPT !.schema = SchemaVersion] /\ pc' = "import"
       \/ disk.schema > SchemaVersion /\ pc' = "down" /\ UNCHANGED disk
    /\ UNCHANGED <<legacy, json, mem, boots, identity, saved>>

(* Only a store without skills and orders is imported into. *)
Import ==
    /\ pc = "import"
    /\ IF disk.signed = {} /\ json # NoData
       THEN mem' = [Imported(json) EXCEPT !.schema = disk.schema] /\ pc' = After.import
       ELSE mem' = disk /\ pc' = "rotate2"
    /\ UNCHANGED <<legacy, json, disk, boots, identity, saved>>

Save ==
    /\ pc = "save"
    /\ disk' = mem
    /\ pc' = After.save
    /\ UNCHANGED <<legacy, json, mem, boots, identity, saved>>

Rename ==
    /\ pc = "rename"
    /\ json' = NoData
    /\ pc' = After.rename
    /\ UNCHANGED <<legacy, disk, mem, boots, identity, saved>>

FromNewest == [first |-> 1, second |-> 2]                 \* mutant of Rotation

(* The oldest backup makes room first. *)
Rotation == [first |-> 2, second |-> 1]

Shifted(bs, i) ==
    IF bs[i] = NoBackup THEN bs ELSE [bs EXCEPT ![i] = NoBackup, ![i + 1] = bs[i]]

Rotate ==
    /\ \/ pc = "rotate2" /\ backups' = Shifted(backups, Rotation.first) /\ pc' = "rotate1"
       \/ pc = "rotate1" /\ backups' = Shifted(backups, Rotation.second) /\ pc' = "vacuum"
    /\ UNCHANGED <<store, identity, latest, torn, boots>>

(* rm, then VACUUM INTO begins to write. *)
Vacuum ==
    /\ pc = "vacuum"
    /\ backups' = [backups EXCEPT ![1] = Partial]
    /\ torn' = TRUE
    /\ pc' = "vacuuming"
    /\ UNCHANGED <<store, identity, latest, boots>>

Vacuumed ==
    /\ pc = "vacuuming"
    /\ backups' = [backups EXCEPT ![1] = [boot |-> boots, rows |-> disk]]
    /\ latest' = boots /\ torn' = FALSE
    /\ pc' = "identity"
    /\ UNCHANGED <<store, identity, boots>>

(* A failing backup is only logged; it may leave what it has written. *)
BackupFails ==
    /\ pc \in {"rotate2", "rotate1", "vacuum", "vacuuming"}
    /\ pc' = "identity"
    /\ \/ UNCHANGED backups
       \/ pc = "vacuuming" /\ backups' = [backups EXCEPT ![1] = NoBackup]
    /\ UNCHANGED <<store, identity, latest, torn, boots>>

NoState == FALSE                                          \* mutant of ExistingState

ExistingState == mem.signed # {}

(* The identity is there; or there is nothing it was needed for, or the     *)
(* operator accepts a new one; or the server refuses to start.             *)
Identify ==
    /\ pc = "identity"
    /\ \/ key # 0 /\ pc' = "up" /\ UNCHANGED <<disk, mem, accepted>>
       \/ /\ key = 0
          /\ accepted' = (accepted \/ ExistingState)
          /\ disk' = mem /\ pc' = "mint" /\ UNCHANGED mem
       \/ /\ key = 0 /\ ExistingState
          /\ pc' = "down" /\ mem' = NoData /\ UNCHANGED <<disk, accepted>>
    /\ UNCHANGED <<legacy, json, boots, key, lost, minted, saved>>

(* writeSecretJson replaces the file in one rename. *)
Mint ==
    /\ pc = "mint" /\ minted < MaxKeys
    /\ minted' = minted + 1 /\ key' = minted + 1 /\ lost' = 0
    /\ pc' = "up"
    /\ UNCHANGED <<store, accepted, saved, boots>>

-----------------------------------------------------------------------------
(* The server running, each handler one transaction *)

Publish ==
    /\ pc = "up"
    /\ mem' = [mem EXCEPT !.signed = @ \cup {key}]
    /\ disk' = mem'
    /\ UNCHANGED <<legacy, json, pc, boots, identity, saved>>

(* POST /api/reports/:slug and /api/events/:slug of a license holder *)
Receive(i) ==
    /\ pc = "up" /\ mem.signed # {}
    /\ Len(mem.received["reports"]) + Len(mem.received["events"]) < MaxSent
    /\ mem' = Added(mem, Clean(i))
    /\ disk' = mem'
    /\ UNCHANGED <<legacy, json, pc, boots, identity, saved>>

Kill ==
    /\ pc # "down"
    /\ pc' = "down" /\ mem' = NoData
    /\ UNCHANGED <<legacy, json, disk, boots, identity, saved>>

-----------------------------------------------------------------------------
(* The operator, with the server down *)

LoseIdentity ==
    /\ pc = "down" /\ key # 0
    /\ key' = 0 /\ lost' = key
    /\ UNCHANGED <<store, pc, boots, minted, accepted, saved>>

RestoreIdentity ==
    /\ pc = "down" /\ lost # 0
    /\ key' = lost /\ lost' = 0
    /\ UNCHANGED <<store, pc, boots, minted, accepted, saved>>

(* A .bak is copied over store.db in a directory that has its identity.json. *)
Restore(i) ==
    /\ pc = "down" /\ key # 0
    /\ backups[i].boot > 0 /\ backups[i].rows.signed \subseteq {key}
    /\ disk' = backups[i].rows
    /\ UNCHANGED <<legacy, json, mem, pc, boots, identity, saved>>

Next ==
    \/ Start \/ Ladder \/ Import \/ Save \/ Rename
    \/ Rotate \/ Vacuum \/ Vacuumed \/ BackupFails
    \/ Identify \/ Mint
    \/ Publish \/ \E i \in Sent : Receive(i)
    \/ Kill
    \/ LoseIdentity \/ RestoreIdentity \/ \E i \in 1..BackupsKept : Restore(i)

Spec == Init /\ [][Next]_vars

-----------------------------------------------------------------------------
TypeOK ==
    /\ {json, disk, mem} \subseteq Data
    /\ legacy \in [signed : SUBSET Keys, received : [Buffers -> Seq(Items)]]
    /\ \A b \in Buffers : Len(disk.buffer[b]) <= MaxBuffer
    /\ backups \in [1..BackupsKept -> Backups] /\ latest \in 0..MaxBoots
    /\ {key, lost, minted} \subseteq Keys \cup {0}
    /\ boots \in 0..MaxBoots
    /\ pc \in {"down", "ladder", "import", "save", "rename", "rotate2", "rotate1", "vacuum",
               "vacuuming", "identity", "mint", "up"}
    /\ {torn, accepted} \subseteq BOOLEAN

(* What the items of a sequence count for together *)
SumAlong(items, value(_)) == SumFunction([n \in DOMAIN items |-> value(items[n])])

Counts(i) == SumAlong(i.agents, LAMBDA entry : ClampCount(entry[2]))
IfInstall(i, n) == IF i.kind = "install" THEN n ELSE 0

(* Totals that stand for every item exactly once, over few named keys. *)
ExactReports(totals, reports) ==
    /\ totals.reports = Len(reports)
    /\ totals.sessions = SumAlong(reports, LAMBDA i : ClampCount(i.sessions))
    /\ SumFunction(totals.byAgent) = SumAlong(reports, Counts)
    /\ Cardinality(Named(totals.byAgent)) <= MaxAgentKeys

ExactEvents(totals, events) ==
    /\ totals.installs + totals.updates = Len(events)
    /\ totals.installs = SumAlong(events, LAMBDA i : IfInstall(i, 1))
    /\ SumFunction(totals.installsByAgent) = SumAlong(events, LAMBDA i : IfInstall(i, Counts(i)))
    /\ Cardinality(Named(totals.installsByAgent)) <= MaxAgentKeys

(* A buffer holds the latest items, all of them while it is not full. *)
Recent(d, b) ==
    /\ IsSuffix(d.buffer[b], d.received[b])
    /\ Len(d.buffer[b]) < MaxBuffer => d.buffer[b] = d.received[b]

(* However the buffers were trimmed, the totals stand for all that was received. *)
Exact(d) ==
    /\ ExactReports(d.totals, d.received["reports"])
    /\ ExactEvents(d.totals, d.received["events"])
    /\ \A b \in Buffers : Recent(d, b)

(* The totals stay exact, in the store from its import or upgrade on and in *)
(* every complete backup, through imports repeated after a kill, trimming,  *)
(* restarts and restores (foldReport, foldEvent, addReport, addEvent,       *)
(* migrateFromJson).                                                        *)
ExactTotals ==
    Exact(disk) /\ \A i \in 1..BackupsKept : backups[i].boot > 0 => Exact(backups[i].rows)

(* A server that serves holds what an older one left, in all the tables it  *)
(* writes to, wherever earlier boots were killed and whichever backup was   *)
(* restored since.                                                          *)
LegacyServed ==
    pc = "up" => /\ disk.schema = SchemaVersion
                 /\ legacy.signed \subseteq disk.signed
                 /\ \A b \in Buffers : IsPrefix(legacy.received[b], disk.received[b])

(* docs/DEPLOY.md, the fail-loud guarantee: unless the operator said so, no *)
(* identity is put over skills and orders signed under another one,         *)
(* whatever was imported, lost, restored or killed between.                 *)
IdentityContinues ==
    ~accepted => disk.signed \subseteq {IF key # 0 THEN key ELSE lost}

(* The latest complete backup outlives the next two boots, and any number   *)
(* of boots that leave no incomplete one behind, however they fail.         *)
BackupSurvives ==
    (latest # 0 /\ (boots - latest < BackupsKept \/ ~torn))
        => \E i \in 1..BackupsKept : backups[i].boot = latest
=============================================================================
