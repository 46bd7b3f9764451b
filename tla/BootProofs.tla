----------------------------- MODULE BootProofs -----------------------------
(***************************************************************************)
(* Theorems about Boot, for any number of boots, agents and reports.  What  *)
(* an older server left is served, the identity continues, and the latest   *)
(* backup survives: what the folds compute plays no part in these, so rows  *)
(* are known by their shape only (Rows).  The totals stay exact: a fold is  *)
(* shown to be a run of single steps, each of which adds what one item      *)
(* counts for (from "Recursion and folds" on).                             *)
(***************************************************************************)
EXTENDS Boot, FiniteSetTheorems, WellFoundedInduction, TLAPS

IsSeq(s) == \E S : s \in Seq(S)

(* The shape of rows: a record of these fields, with a history per buffer. *)
Rows(d) ==
    /\ d = [schema |-> d.schema, signed |-> d.signed, totals |-> d.totals,
            buffer |-> d.buffer, folded |-> d.folded, received |-> d.received]
    /\ d.received = [b \in Buffers |-> d.received[b]]
    /\ \A b \in Buffers : IsSeq(d.received[b])

(* These rows stand for all that an older server left. *)
Holds(d) ==
    /\ legacy.signed \subseteq d.signed
    /\ \A b \in Buffers : IsPrefix(legacy.received[b], d.received[b])

-----------------------------------------------------------------------------
(* What the operators on rows keep *)

(* A prefix stays one when its sequence grows. *)
LEMMA AppendKeepsPrefix ==
    ASSUME NEW s, NEW t, NEW e, IsSeq(s), IsSeq(t), IsPrefix(s, t)
    PROVE  IsSeq(Append(t, e)) /\ IsPrefix(s, Append(t, e))
  <1>1. PICK S : t \in Seq(S)
    BY DEF IsSeq
  <1>2. PICK R : s \in Seq(R)
    BY DEF IsSeq
  <1>3. t \in Seq(S \cup {e}) /\ Append(t, e) \in Seq(S \cup {e})
    BY <1>1
  <1>4. Len(Append(t, e)) = Len(t) + 1 /\ \A n \in 1..Len(t) : Append(t, e)[n] = t[n]
    BY <1>3
  <1>5. SubSeq(Append(t, e), 1, Len(s)) = SubSeq(t, 1, Len(s))
    BY <1>2, <1>3, <1>4 DEF IsPrefix
  <1> QED
    BY <1>2, <1>3, <1>4, <1>5 DEF IsPrefix, IsSeq

LEMMA PrefixOfItself == ASSUME NEW s, IsSeq(s) PROVE IsPrefix(s, s)
  BY DEF IsPrefix, IsSeq

(* Folding changes totals and flags only. *)
LEMMA FoldBufferKeeps ==
    ASSUME NEW d, Rows(d), NEW b
    PROVE  /\ Rows(FoldBuffer(d, b))
           /\ FoldBuffer(d, b).schema = d.schema /\ FoldBuffer(d, b).signed = d.signed
           /\ FoldBuffer(d, b).received = d.received
  <1> DEFINE folded == FoldLeft(FoldItem, d.totals, d.buffer[b])
  <1>1. FoldBuffer(d, b) \in
            {d, [d EXCEPT !.totals = folded, !.folded = @ \cup {b}]}
    BY DEF FoldBuffer
  <1> HIDE DEF folded
  <1> QED
    BY <1>1 DEF Rows

LEMMA ImportedKeeps ==
    ASSUME NEW d, Rows(d)
    PROVE  /\ Rows(Imported(d))
           /\ Imported(d).schema = d.schema /\ Imported(d).signed = d.signed
           /\ Imported(d).received = d.received
  <1>1. Rows(FoldBuffer(d, "reports"))
    BY FoldBufferKeeps
  <1> QED
    BY <1>1, FoldBufferKeeps DEF Imported

(* The history is as it was, or one item longer. *)
Grown(s, t) == t = s \/ \E e : t = Append(s, e)

(* A received item is appended to the history of its buffer. *)
LEMMA AddedKeeps ==
    ASSUME NEW d, NEW i, Rows(d)
    PROVE  /\ Rows(Added(d, i))
           /\ Added(d, i).schema = d.schema /\ Added(d, i).signed = d.signed
           /\ \A b \in Buffers : Grown(d.received[b], Added(d, i).received[b])
  <1> DEFINE totals == FoldItem(d.totals, i)
             buffer == [d.buffer EXCEPT ![BufferOf(i)] = Trim(Append(@, i))]
             received == [d.received EXCEPT ![BufferOf(i)] = Append(@, i)]
  <1>1. Added(d, i) = [d EXCEPT !.totals = totals, !.buffer = buffer, !.received = received]
    BY DEF Added, Rows
  <1>2. BufferOf(i) \in Buffers
    BY DEF BufferOf, Buffers
  <1>3. \A b \in Buffers : \/ received[b] = d.received[b]
                           \/ \E e : received[b] = Append(d.received[b], e)
    BY <1>2 DEF Rows
  <1>4. received = [b \in Buffers |-> received[b]]
    BY <1>2 DEF Rows
  <1>5. ASSUME NEW b \in Buffers PROVE IsSeq(received[b])
    <2>1. PICK S : d.received[b] \in Seq(S)
      BY DEF Rows, IsSeq
    <2>2. ASSUME NEW e PROVE Append(d.received[b], e) \in Seq(S \cup {e})
      BY <2>1
    <2> QED
      BY <1>3, <2>1, <2>2 DEF IsSeq
  <1> HIDE DEF totals, buffer, received
  <1>6. /\ Added(d, i).received = received /\ Added(d, i).schema = d.schema
        /\ Added(d, i).signed = d.signed
    BY <1>1 DEF Rows
  <1>7. Rows(Added(d, i))
    BY <1>1, <1>4, <1>5, <1>6 DEF Rows
  <1> QED
    BY <1>3, <1>6, <1>7 DEF Grown

(* The rows an operator or a transaction leaves hold what they held. *)
LEMMA AddedHolds ==
    ASSUME NEW d, NEW i, Rows(d), Holds(d), \A b \in Buffers : IsSeq(legacy.received[b])
    PROVE  Holds(Added(d, i))
  <1>1. ASSUME NEW b \in Buffers PROVE IsPrefix(legacy.received[b], Added(d, i).received[b])
    <2>1. IsPrefix(legacy.received[b], d.received[b]) /\ IsSeq(d.received[b])
      BY DEF Rows, Holds
    <2>2. Grown(d.received[b], Added(d, i).received[b])
      BY AddedKeeps
    <2> QED
      BY <2>1, <2>2, AppendKeepsPrefix DEF Grown
  <1> QED
    BY <1>1, AddedKeeps DEF Holds

LEMMA NoDataRows == Rows(NoData)
  <1>1. <<>> \in Seq({})
    OBVIOUS
  <1> QED
    BY <1>1 DEF NoData, Rows, IsSeq, Buffers

LEMMA UntotalledRows ==
    ASSUME NEW d \in Untotalled PROVE Rows(d) /\ d.signed = {1}
  <1>1. PICK h \in [Buffers -> UNION {[1..n -> Sent] : n \in 0..MaxBuffer}] :
            d = [NoData EXCEPT !.signed = {1}, !.buffer = h, !.received = h]
    BY DEF Untotalled
  <1>2. MaxBuffer \in Nat
    BY BoundsAssumption
  <1>3. h = [b \in Buffers |-> h[b]]
    OBVIOUS
  <1>4. ASSUME NEW b \in Buffers PROVE h[b] \in Seq(Sent)
    <2>1. PICK n \in 0..MaxBuffer : h[b] \in [1..n -> Sent]
      OBVIOUS
    <2> QED
      BY <1>2, <2>1
  <1>5. /\ d.received = h /\ d.signed = {1}
        /\ d = [schema |-> d.schema, signed |-> d.signed, totals |-> d.totals,
                buffer |-> d.buffer, folded |-> d.folded, received |-> d.received]
    BY <1>1 DEF NoData
  <1> QED
    BY <1>3, <1>4, <1>5 DEF Rows, IsSeq

LEMMA LegacyRows ==
    ASSUME NEW d \in LegacyStores PROVE Rows(d) /\ d.signed = {1}
  BY UntotalledRows, FoldBufferKeeps, ImportedKeeps DEF LegacyStores

-----------------------------------------------------------------------------
(* The invariants *)

Loading  == {"ladder", "import", "save", "rename"}
Rotating == {"rotate2", "rotate1", "vacuum", "vacuuming"}
Synced   == {"rename", "identity", "mint", "up"} \cup Rotating

IsBackup(b) == b.boot \in Int /\ Rows(b.rows)

IsBackups(bs) ==
    bs = [i \in 1..BackupsKept |-> bs[i]] /\ \A i \in 1..BackupsKept : IsBackup(bs[i])

Shapes ==
    /\ pc \in {"down"} \cup Loading \cup Synced
    /\ key \in Nat /\ lost \in Nat /\ minted \in Nat /\ boots \in Nat /\ latest \in Nat
    /\ accepted \in BOOLEAN /\ torn \in BOOLEAN
    /\ Rows(disk) /\ Rows(mem) /\ Rows(json)
    /\ IsBackups(backups)
    /\ \A b \in Buffers : IsSeq(legacy.received[b])

(* What was left is in the JSON file until the rows hold it, and memory is  *)
(* the rows once they are loaded.                                          *)
Kept ==
    /\ json # NoData => Holds(json) /\ json.signed # {}
    /\ json = NoData \/ disk.signed # {} => Holds(disk)
    /\ \A i \in 1..BackupsKept : backups[i].boot > 0 => Holds(backups[i].rows)
    /\ pc = "save" => /\ json # NoData /\ mem.signed = json.signed
                     /\ mem.schema = SchemaVersion /\ Holds(mem)
    /\ pc \in Synced => mem = disk /\ (json = NoData \/ disk.signed # {})
    /\ pc \notin {"down", "ladder"} => disk.schema = SchemaVersion

Identity == IF key # 0 THEN key ELSE lost

(* The rows, in the store or still in the JSON file, are of one identity.   *)
OneIdentity ==
    /\ key = 0 \/ lost = 0
    /\ pc = "up" => key # 0
    /\ pc = "mint" => key = 0 /\ (accepted \/ disk.signed = {})
    /\ ~accepted => disk.signed \cup json.signed \subseteq {Identity}

(* Where the latest backup is: at most one place further for every boot     *)
(* since, and nowhere behind another one unless one was left incomplete.   *)
Places ==
    /\ pc = "rotate1" => backups[2] = NoBackup
    /\ pc = "vacuum" => backups[1] = NoBackup
    /\ pc = "vacuuming" => backups[1] = Partial
    /\ latest <= boots
    /\ (latest # 0 /\ boots - latest < BackupsKept) =>
          \E p \in 1..BackupsKept :
             /\ backups[p].boot = latest
             /\ p <= boots - latest + 1
             /\ pc \in Loading \cup {"rotate2"} => p <= boots - latest
             /\ pc = "rotate1" => p <= boots - latest \/ p = 3
    /\ (latest # 0 /\ ~torn) =>
          \E p \in 1..BackupsKept :
             backups[p].boot = latest /\ \A j \in 1..(p - 1) : backups[j] = NoBackup

BootInv == Shapes /\ Kept /\ OneIdentity /\ Places

-----------------------------------------------------------------------------
(* The initial states *)

LEMMA OldDatabase ==
    ASSUME NEW d \in LegacyStores, NEW v, disk = [d EXCEPT !.schema = v]
    PROVE  Rows(disk) /\ disk.signed = {1}
  BY LegacyRows DEF Rows

LEMMA InitHolds == Init => BootInv
  <1> SUFFICES ASSUME Init PROVE BootInv
    OBVIOUS
  <1>1. Rows(disk) /\ Rows(mem) /\ Rows(json)
    BY NoDataRows, LegacyRows, OldDatabase DEF Init
  <1>2. /\ NoData.signed = {} /\ NoData.received = [b \in Buffers |-> <<>>]
    BY DEF NoData
  <1>3. \A d : Left(d).signed = d.signed /\ Left(d).received = d.received
    BY DEF Left
  <1>4. \A b \in Buffers : IsSeq(legacy.received[b])
    BY <1>1, <1>3 DEF Init, Rows
  <1>5. \/ json = NoData /\ disk = NoData /\ legacy = Left(NoData)
        \/ json \in LegacyStores /\ disk = NoData /\ legacy = Left(json)
        \/ json = NoData /\ legacy = Left(disk) /\ disk.signed = {1}
    BY OldDatabase DEF Init
  <1>6. Shapes
    <2>1. /\ key \in Nat /\ lost \in Nat /\ minted \in Nat /\ boots \in Nat /\ latest \in Nat
          /\ accepted \in BOOLEAN /\ torn \in BOOLEAN
      BY DEF Init
    <2>2. IsBackups(backups)
      BY NoDataRows DEF Init, NoBackup, IsBackups, IsBackup
    <2> QED
      BY <1>1, <1>4, <2>1, <2>2, NoDataRows DEF Init, Shapes
  <1>7. \A d : Rows(d) /\ legacy = Left(d) => Holds(d)
    BY <1>3, PrefixOfItself DEF Holds, Rows
  <1>8. Kept
    <2>1. json # NoData => Holds(json) /\ json.signed # {}
      BY <1>1, <1>5, <1>7, LegacyRows
    <2>2. json = NoData \/ disk.signed # {} => Holds(disk)
      BY <1>1, <1>2, <1>5, <1>7
    <2> QED
      BY <2>1, <2>2 DEF Init, Kept, NoBackup, Synced, Rotating
  <1>9. OneIdentity
    <2>1. disk.signed \cup json.signed \subseteq legacy.signed /\ legacy.signed \in {{}, {1}}
      BY <1>2, <1>3, <1>5, LegacyRows
    <2> QED
      BY <2>1 DEF Init, OneIdentity, Identity
  <1>10. Places
    BY DEF Init, Places
  <1> QED
    BY <1>6, <1>8, <1>9, <1>10 DEF BootInv

-----------------------------------------------------------------------------
(* The steps of a boot *)

LEMMA StartKeeps == ASSUME BootInv, Start PROVE BootInv'
  <1> USE DEF BootInv, Start, store, identity, saved
  <1>1. Shapes'
    BY DEF Shapes, Loading
  <1>2. Kept'
    BY DEF Kept, Holds, Synced, Rotating
  <1>3. OneIdentity'
    BY DEF OneIdentity, Identity
  <1>4. Places'
    BY DEF Places, Shapes, Loading, BackupsKept
  <1> QED
    BY <1>1, <1>2, <1>3, <1>4

LEMMA LadderKeeps == ASSUME BootInv, Ladder PROVE BootInv'
  <1> USE DEF BootInv, Ladder, identity, saved
  <1>1. Rows(disk') /\ disk'.signed = disk.signed /\ disk'.received = disk.received
        /\ (pc' = "import" => disk'.schema = SchemaVersion)
    BY DEF Shapes, Rows
  <1>2. Shapes'
    BY <1>1 DEF Shapes, Loading
  <1>3. Kept'
    BY <1>1 DEF Kept, Holds, Synced, Rotating
  <1>4. OneIdentity'
    BY <1>1 DEF OneIdentity, Identity
  <1>5. Places'
    BY DEF Places, Shapes, Loading, BackupsKept
  <1> QED
    BY <1>2, <1>3, <1>4, <1>5

LEMMA ImportKeeps == ASSUME BootInv, Import PROVE BootInv'
  <1> USE DEF BootInv, Import, identity, saved, After
  <1>1. CASE disk.signed = {} /\ json # NoData
    <2>1. /\ Rows(mem') /\ mem'.signed = json.signed /\ mem'.received = json.received
          /\ mem'.schema = disk.schema /\ pc' = "save"
      <3>1. Rows(Imported(json)) /\ Imported(json).signed = json.signed
            /\ Imported(json).received = json.received
        BY ImportedKeeps DEF Shapes
      <3> QED
        BY <1>1, <3>1 DEF Rows
    <2>2. Shapes'
      BY <2>1 DEF Shapes, Loading
    <2>3. Kept'
      BY <1>1, <2>1 DEF Kept, Holds, Synced, Rotating
    <2>4. OneIdentity'
      BY <2>1 DEF OneIdentity, Identity
    <2>5. Places'
      BY <2>1 DEF Places, Shapes, Loading, BackupsKept
    <2> QED
      BY <2>2, <2>3, <2>4, <2>5
  <1>2. CASE ~(disk.signed = {} /\ json # NoData)
    <2>1. mem' = disk /\ pc' = "rotate2"
      BY <1>2
    <2>2. Shapes'
      BY <2>1 DEF Shapes, Synced, Rotating
    <2>3. Kept'
      BY <1>2, <2>1 DEF Kept, Holds, Synced, Rotating
    <2>4. OneIdentity'
      BY <2>1 DEF OneIdentity, Identity
    <2>5. Places'
      BY <2>1 DEF Places, Shapes, Loading, BackupsKept
    <2> QED
      BY <2>2, <2>3, <2>4, <2>5
  <1> QED
    BY <1>1, <1>2

LEMMA SaveKeeps == ASSUME BootInv, Save PROVE BootInv'
  <1> USE DEF BootInv, Save, identity, saved, After
  <1>1. Shapes'
    BY DEF Shapes, Loading
  <1>2. Kept'
    BY DEF Kept, Holds, Synced, Rotating
  <1>3. OneIdentity'
    BY DEF OneIdentity, Identity, Kept
  <1>4. Places'
    BY DEF Places, Shapes, Loading, BackupsKept
  <1> QED
    BY <1>1, <1>2, <1>3, <1>4

LEMMA RenameKeeps == ASSUME BootInv, Rename PROVE BootInv'
  <1> USE DEF BootInv, Rename, identity, saved, After
  <1>1. Shapes'
    BY NoDataRows DEF Shapes, Loading, Synced, Rotating
  <1>2. Kept'
    BY DEF Kept, Holds, Synced, Rotating
  <1>3. OneIdentity'
    BY DEF OneIdentity, Identity, NoData
  <1>4. Places'
    BY DEF Places, Shapes, Loading, BackupsKept
  <1> QED
    BY <1>1, <1>2, <1>3, <1>4

-----------------------------------------------------------------------------
(* The backups *)

(* No row changes while the backups move. *)
LEMMA BackupsApart ==
    ASSUME Kept, OneIdentity, pc \in Rotating, pc' \in Rotating \cup {"identity"},
           UNCHANGED <<store, identity>>,
           \A i \in 1..BackupsKept : backups'[i].boot > 0 => Holds(backups'[i].rows)
    PROVE  Kept' /\ OneIdentity'
  <1> USE DEF store, identity
  <1>1. Kept'
    BY DEF Kept, Holds, Synced, Rotating
  <1>2. OneIdentity'
    BY DEF OneIdentity, Identity, Rotating
  <1> QED
    BY <1>1, <1>2

LEMMA Placeholders ==
    /\ IsBackup(NoBackup) /\ NoBackup.boot = 0
    /\ IsBackup(Partial) /\ Partial.boot = -1
  BY NoDataRows DEF NoBackup, Partial, IsBackup

(* The row of backups after one shift *)
Moved(bs, cs, k) ==
    /\ cs[k] = NoBackup
    /\ bs[k] = NoBackup => cs = bs
    /\ bs[k] # NoBackup => /\ cs[k + 1] = bs[k]
                          /\ \A i \in (1..BackupsKept) \ {k, k + 1} : cs[i] = bs[i]

LEMMA ShiftedMoves ==
    ASSUME NEW bs, NEW k \in {1, 2}, IsBackups(bs)
    PROVE  IsBackups(Shifted(bs, k)) /\ Moved(bs, Shifted(bs, k), k)
  <1>1. /\ IsBackup(NoBackup)
        /\ k \in 1..BackupsKept /\ k + 1 \in 1..BackupsKept /\ k # k + 1
    BY Placeholders DEF BackupsKept
  <1> QED
    BY <1>1 DEF Shifted, IsBackups, Moved

LEMMA MovedBackups ==
    ASSUME NEW bs, NEW cs, NEW k \in {1, 2}, IsBackups(bs), IsBackups(cs), Moved(bs, cs, k)
    PROVE  \A i \in 1..BackupsKept : cs[i] = NoBackup \/ \E j \in 1..BackupsKept : cs[i] = bs[j]
  BY DEF Moved, BackupsKept

(* Moving backups keeps what they hold. *)
LEMMA MovedKeeps ==
    ASSUME BootInv, NEW k \in {1, 2}, IsBackups(backups'), Moved(backups, backups', k),
           pc \in Rotating, pc' \in Rotating, UNCHANGED <<store, identity, latest, torn, boots>>
    PROVE  Shapes' /\ Kept' /\ OneIdentity'
  <1> USE DEF BootInv
  <1>1. Shapes'
    BY DEF Shapes, Synced, store, identity
  <1>2. \A i \in 1..BackupsKept :
            backups'[i] = NoBackup \/ \E j \in 1..BackupsKept : backups'[i] = backups[j]
    BY MovedBackups DEF Shapes
  <1>3. \A i \in 1..BackupsKept : backups'[i].boot > 0 => Holds(backups'[i].rows)
    BY <1>2, Placeholders DEF Kept, Holds
  <1> QED
    BY <1>1, <1>3, BackupsApart

LEMMA SecondMoves ==
    ASSUME Shapes, Places, Moved(backups, backups', 2), pc = "rotate2", pc' = "rotate1",
           latest' = latest, torn' = torn, boots' = boots
    PROVE  Places'
  BY Placeholders DEF Places, Shapes, Loading, BackupsKept, Moved

LEMMA FirstMoves ==
    ASSUME Shapes, Places, Moved(backups, backups', 1), pc = "rotate1", pc' = "vacuum",
           latest' = latest, torn' = torn, boots' = boots
    PROVE  Places'
  BY Placeholders DEF Places, Shapes, Loading, BackupsKept, Moved

LEMMA RotateKeeps == ASSUME BootInv, Rotate PROVE BootInv'
  <1> USE DEF BootInv
  <1>1. PICK k \in {1, 2} :
            /\ backups' = Shifted(backups, k)
            /\ k = 2 => pc = "rotate2" /\ pc' = "rotate1"
            /\ k = 1 => pc = "rotate1" /\ pc' = "vacuum"
    BY DEF Rotate, Rotation
  <1>2. UNCHANGED <<store, identity, latest, torn, boots>>
    BY DEF Rotate
  <1>3. IsBackups(backups') /\ Moved(backups, backups', k)
    BY <1>1, ShiftedMoves DEF Shapes
  <1>4. Shapes' /\ Kept' /\ OneIdentity'
    <2>1. pc \in Rotating /\ pc' \in Rotating
      BY <1>1 DEF Rotating
    <2> QED
      BY <1>2, <1>3, <2>1, MovedKeeps
  <1>5. Places'
    BY <1>1, <1>2, <1>3, SecondMoves, FirstMoves
  <1> QED
    BY <1>4, <1>5

LEMMA VacuumKeeps == ASSUME BootInv, Vacuum PROVE BootInv'
  <1> USE DEF BootInv
  <1>1. /\ pc = "vacuum" /\ pc' = "vacuuming" /\ torn' = TRUE
        /\ backups' = [backups EXCEPT ![1] = Partial]
        /\ UNCHANGED <<store, identity, latest, boots>>
    BY DEF Vacuum
  <1>2. /\ IsBackups(backups') /\ backups'[1] = Partial
        /\ \A i \in (1..BackupsKept) \ {1} : backups'[i] = backups[i]
    <2>1. IsBackups(backups) /\ IsBackup(Partial) /\ 1 \in 1..BackupsKept
      BY Placeholders DEF Shapes, BackupsKept
    <2> QED
      BY <1>1, <2>1 DEF IsBackups
  <1>3. Shapes'
    BY <1>1, <1>2 DEF Shapes, Synced, Rotating, store, identity
  <1>4. Kept' /\ OneIdentity'
    <2>1. \A i \in 1..BackupsKept : backups'[i].boot > 0 => Holds(backups'[i].rows)
      BY <1>2, Placeholders DEF Kept
    <2> QED
      BY <1>1, <2>1, BackupsApart DEF Rotating
  <1>5. Places'
    BY <1>1, <1>2, Placeholders DEF Places, Shapes, Loading, BackupsKept
  <1> QED
    BY <1>3, <1>4, <1>5

LEMMA VacuumedKeeps == ASSUME BootInv, Vacuumed PROVE BootInv'
  <1> USE DEF BootInv
  <1> DEFINE taken == [boot |-> boots, rows |-> disk]
  <1>1. /\ pc = "vacuuming" /\ pc' = "identity" /\ latest' = boots /\ torn' = FALSE
        /\ backups' = [backups EXCEPT ![1] = taken]
        /\ UNCHANGED <<store, identity, boots>>
    BY DEF Vacuumed
  <1>2. IsBackup(taken) /\ taken.boot = boots /\ taken.rows = disk
    BY DEF Shapes, IsBackup
  <1> HIDE DEF taken
  <1>3. /\ IsBackups(backups') /\ backups'[1] = taken
        /\ \A i \in (1..BackupsKept) \ {1} : backups'[i] = backups[i]
    <2>1. IsBackups(backups) /\ 1 \in 1..BackupsKept
      BY DEF Shapes, BackupsKept
    <2> QED
      BY <1>1, <1>2, <2>1 DEF IsBackups
  <1>4. Shapes'
    BY <1>1, <1>3 DEF Shapes, Synced, Rotating, store, identity
  <1>5. Kept' /\ OneIdentity'
    <2>1. Holds(disk)
      BY <1>1 DEF Kept, Synced, Rotating
    <2>2. \A i \in 1..BackupsKept : backups'[i].boot > 0 => Holds(backups'[i].rows)
      BY <1>2, <1>3, <2>1 DEF Kept
    <2> QED
      BY <1>1, <2>2, BackupsApart DEF Rotating
  <1>6. Places'
    BY <1>1, <1>2, <1>3 DEF Places, Shapes, Loading, BackupsKept
  <1> QED
    BY <1>4, <1>5, <1>6

LEMMA BackupFailsKeeps == ASSUME BootInv, BackupFails PROVE BootInv'
  <1> USE DEF BootInv
  <1>1. /\ pc \in Rotating /\ pc' = "identity"
        /\ UNCHANGED <<store, identity, latest, torn, boots>>
        /\ \/ backups' = backups
           \/ pc = "vacuuming" /\ backups' = [backups EXCEPT ![1] = NoBackup]
    BY DEF BackupFails, Rotating
  <1>2. /\ IsBackups(backups')
        /\ \/ backups' = backups
           \/ /\ backups[1] = Partial /\ backups'[1] = NoBackup
              /\ \A i \in (1..BackupsKept) \ {1} : backups'[i] = backups[i]
    <2>1. IsBackups(backups) /\ IsBackup(NoBackup) /\ 1 \in 1..BackupsKept
      BY Placeholders DEF Shapes, BackupsKept
    <2>2. CASE backups' = backups
      BY <2>1, <2>2
    <2>3. CASE pc = "vacuuming" /\ backups' = [backups EXCEPT ![1] = NoBackup]
      <3>1. backups[1] = Partial
        BY <2>3 DEF Places
      <3> QED
        BY <2>1, <2>3, <3>1 DEF IsBackups
    <2> QED
      BY <1>1, <2>2, <2>3
  <1>3. Shapes'
    BY <1>1, <1>2 DEF Shapes, Synced, Rotating, store, identity
  <1>4. Kept' /\ OneIdentity'
    <2>1. \A i \in 1..BackupsKept : backups'[i].boot > 0 => Holds(backups'[i].rows)
      BY <1>2, Placeholders DEF Kept
    <2> QED
      BY <1>1, <2>1, BackupsApart
  <1>5. Places'
    BY <1>1, <1>2, Placeholders DEF Places, Shapes, Loading, Rotating, BackupsKept
  <1> QED
    BY <1>3, <1>4, <1>5

-----------------------------------------------------------------------------
(* The identity, the handlers and the operator *)

(* Outside a boot's own steps the backups stay where they are. *)
LEMMA PlacesStay ==
    ASSUME Places, UNCHANGED <<saved, boots>>, pc' \in {"down", "identity", "mint", "up"}
    PROVE  Places'
  BY DEF Places, saved, Loading

LEMMA IdentifyKeeps == ASSUME BootInv, Identify PROVE BootInv'
  <1> USE DEF BootInv, Identify, ExistingState
  <1>1. Shapes'
    BY NoDataRows DEF Shapes, Synced, saved
  <1>2. Kept'
    BY DEF Kept, Holds, Synced, Rotating, saved
  <1>3. OneIdentity'
    BY DEF OneIdentity, Identity, Kept, Synced, Shapes
  <1>4. Places'
    BY PlacesStay
  <1> QED
    BY <1>1, <1>2, <1>3, <1>4

(* A new identity is put over rows of another one only if that was accepted. *)
LEMMA MintKeeps == ASSUME BootInv, Mint PROVE BootInv'
  <1> USE DEF BootInv, Mint, store
  <1>1. Shapes'
    BY DEF Shapes, Synced, saved
  <1>2. Kept'
    BY DEF Kept, Holds, Synced, Rotating, saved
  <1>3. OneIdentity'
    <2>1. ~accepted => disk.signed \cup json.signed = {}
      BY DEF OneIdentity, Kept, Synced, NoData
    <2> QED
      BY <2>1 DEF OneIdentity, Identity, Shapes
  <1>4. Places'
    BY PlacesStay
  <1> QED
    BY <1>1, <1>2, <1>3, <1>4

LEMMA PublishKeeps == ASSUME BootInv, Publish PROVE BootInv'
  <1> USE DEF BootInv, Publish, identity, saved
  <1>1. /\ Rows(mem') /\ mem'.signed = mem.signed \cup {key} /\ mem'.received = mem.received
        /\ mem'.schema = mem.schema /\ disk' = mem'
    BY DEF Shapes, Rows
  <1>2. mem = disk
    BY DEF Kept, Synced
  <1>3. Shapes'
    BY <1>1 DEF Shapes
  <1>4. Kept'
    BY <1>1, <1>2 DEF Kept, Holds, Synced, Rotating
  <1>5. OneIdentity'
    BY <1>1, <1>2 DEF OneIdentity, Identity
  <1>6. Places'
    BY PlacesStay
  <1> QED
    BY <1>3, <1>4, <1>5, <1>6

LEMMA ReceiveKeeps == ASSUME BootInv, NEW i \in Sent, Receive(i) PROVE BootInv'
  <1> USE DEF BootInv, identity, saved
  <1>1. /\ pc = "up" /\ mem.signed # {} /\ mem' = Added(mem, Clean(i)) /\ disk' = mem'
        /\ UNCHANGED <<legacy, json, pc, boots, identity, saved>>
    BY DEF Receive
  <1>2. mem = disk /\ Rows(mem) /\ Holds(mem)
    BY <1>1 DEF Kept, Synced, Shapes
  <1>3. Rows(mem') /\ mem'.signed = mem.signed /\ mem'.schema = mem.schema
    BY <1>1, <1>2, AddedKeeps
  <1>4. Holds(mem')
    BY <1>1, <1>2, AddedHolds DEF Shapes
  <1>5. Shapes'
    BY <1>1, <1>3 DEF Shapes
  <1>6. Kept'
    BY <1>1, <1>2, <1>3, <1>4 DEF Kept, Holds, Synced, Rotating
  <1>7. OneIdentity'
    BY <1>1, <1>2, <1>3 DEF OneIdentity, Identity
  <1>8. Places'
    BY <1>1, PlacesStay
  <1> QED
    BY <1>5, <1>6, <1>7, <1>8

LEMMA KillKeeps == ASSUME BootInv, Kill PROVE BootInv'
  <1> USE DEF BootInv, Kill, identity, saved
  <1>1. Shapes'
    BY NoDataRows DEF Shapes
  <1>2. Kept'
    BY DEF Kept, Holds, Synced, Rotating
  <1>3. OneIdentity'
    BY DEF OneIdentity, Identity
  <1>4. Places'
    BY PlacesStay
  <1> QED
    BY <1>1, <1>2, <1>3, <1>4

(* The operator moves the identity or its copy, and there is never both. *)
LEMMA MovedIdentityKeeps ==
    ASSUME BootInv, LoseIdentity \/ RestoreIdentity PROVE BootInv'
  <1> USE DEF BootInv, LoseIdentity, RestoreIdentity, store, saved
  <1>1. Shapes'
    BY DEF Shapes
  <1>2. Kept'
    BY DEF Kept, Holds, Synced, Rotating
  <1>3. OneIdentity'
    BY DEF OneIdentity, Identity
  <1>4. Places'
    BY PlacesStay
  <1> QED
    BY <1>1, <1>2, <1>3, <1>4

LEMMA RestoreKeeps ==
    ASSUME BootInv, NEW i \in 1..BackupsKept, Restore(i) PROVE BootInv'
  <1> USE DEF BootInv, Restore, identity, saved
  <1>1. Rows(disk') /\ disk' = backups[i].rows
    BY DEF Shapes, IsBackups, IsBackup
  <1>2. Shapes'
    BY <1>1 DEF Shapes
  <1>3. Kept'
    BY <1>1 DEF Kept, Holds, Synced, Rotating
  <1>4. OneIdentity'
    BY <1>1 DEF OneIdentity, Identity
  <1>5. Places'
    BY PlacesStay
  <1> QED
    BY <1>2, <1>3, <1>4, <1>5

-----------------------------------------------------------------------------
LEMMA NextKeeps == BootInv /\ [Next]_vars => BootInv'
  <1> SUFFICES ASSUME BootInv, [Next]_vars PROVE BootInv'
    OBVIOUS
  <1>1. CASE UNCHANGED vars
    BY <1>1 DEF vars, store, identity, saved, BootInv, Shapes, Kept, Holds, OneIdentity,
                Identity, Places
  <1>2. ASSUME NEW i \in Sent, Receive(i) PROVE BootInv'
    BY <1>2, ReceiveKeeps
  <1>3. ASSUME NEW i \in 1..BackupsKept, Restore(i) PROVE BootInv'
    BY <1>3, RestoreKeeps
  <1>4. CASE Next
    BY <1>2, <1>3, <1>4, StartKeeps, LadderKeeps, ImportKeeps, SaveKeeps, RenameKeeps,
       RotateKeeps, VacuumKeeps, VacuumedKeeps, BackupFailsKeeps, IdentifyKeeps, MintKeeps,
       PublishKeeps, KillKeeps, MovedIdentityKeeps DEF Next
  <1> QED
    BY <1>1, <1>4

LEMMA BootInductive == Spec => []BootInv
  BY InitHolds, NextKeeps, PTL DEF Spec

(* A server that serves holds what an older one left, through any boots,    *)
(* kills and restored backups: until the JSON file is gone the rows are     *)
(* empty or hold it, and so does every backup (#migrateFromJson).           *)
THEOREM LegacyIsServed == Spec => []LegacyServed
  <1>1. BootInv => LegacyServed
    BY DEF BootInv, Kept, Synced, Holds, LegacyServed
  <1> QED
    BY <1>1, BootInductive, PTL

(* No identity is put over skills and orders of another one unless the      *)
(* operator said so (createApp).                                            *)
THEOREM IdentityAlwaysContinues == Spec => []IdentityContinues
  <1>1. BootInv => IdentityContinues
    BY DEF BootInv, OneIdentity, Identity, IdentityContinues
  <1> QED
    BY <1>1, BootInductive, PTL

(* The latest complete backup outlives the next two boots, and any number   *)
(* of boots that leave no incomplete one behind (#backupRotate).            *)
THEOREM BackupAlwaysSurvives == Spec => []BackupSurvives
  <1>1. BootInv => BackupSurvives
    BY DEF BootInv, Places, BackupSurvives
  <1> QED
    BY <1>1, BootInductive, PTL

-----------------------------------------------------------------------------
(* Recursion and folds *)

(* Induction over the natural numbers, stated with sets: the library's      *)
(* theorems take a predicate as a parameter.                               *)
LEMMA LeastNatural ==
    ASSUME NEW B \in SUBSET Nat, B # {}
    PROVE  \E m \in B : \A k \in B : m <= k
  <1>1. PICK m \in B : ~\E k \in B : <<k, m>> \in OpToRel(<, Nat)
    BY NatLessThanWellFounded, WFMin
  <1> QED
    BY <1>1 DEF OpToRel

LEMMA NatSetInduction ==
    ASSUME NEW N, 0 \in N, \A n \in Nat : n \in N => n + 1 \in N
    PROVE  Nat \subseteq N
  <1> DEFINE B == {n \in Nat : n \notin N}
  <1> SUFFICES ASSUME B # {} PROVE FALSE
    OBVIOUS
  <1>1. PICK m \in B : \A k \in B : m <= k
    BY LeastNatural
  <1>2. m # 0
    BY <1>1
  <1>3. m - 1 \in Nat /\ m - 1 \notin B
    BY <1>1, <1>2
  <1> QED
    BY <1>1, <1>3

(* The folds take the last position of an interval, and leave a shorter one. *)
LEMMA LastOfInterval ==
    ASSUME NEW n \in Nat, n # 0
    PROVE  Max(1..n) = n /\ (1..n) \ {n} = 1..(n - 1)
  <1>1. n \in 1..n /\ \A y \in 1..n : n >= y
    OBVIOUS
  <1>2. \A x \in 1..n : (\A y \in 1..n : x >= y) => x = n
    OBVIOUS
  <1> QED
    BY <1>1, <1>2 DEF Max

(* A set of positions has a last one. *)
LEMMA LastOfSet ==
    ASSUME NEW n \in Nat, NEW S \in SUBSET (1..n), S # {}
    PROVE  Max(S) \in S /\ Max(S) \in 1..n /\ S \ {Max(S)} \in SUBSET (1..n)
  <1> DEFINE B == {n - x : x \in S}
  <1>1. \A x \in S : n - x \in Nat
    OBVIOUS
  <1>2. B \in SUBSET Nat /\ B # {}
    BY <1>1
  <1>3. PICK m \in B : \A k \in B : m <= k
    BY <1>2, LeastNatural
  <1>4. PICK x \in S : m = n - x
    OBVIOUS
  <1>5. \A y \in S : n - x <= n - y
    BY <1>3, <1>4
  <1>6. \A y \in S : x >= y
    BY <1>5
  <1> QED
    BY <1>6 DEF Max

(* A recursion over the subsets of a finite set, that takes one chosen      *)
(* element after another from them, exists.                                 *)
Recursion(D, pick, base, step, g) ==
    g = [S \in SUBSET D |-> IF S = {} THEN base ELSE step[<<g[S \ {pick[S]}], pick[S]>>]]

(* By induction on the size of the set. *)
LEMMA RecursionExists ==
    ASSUME NEW T, NEW D, IsFiniteSet(D), NEW base \in T, NEW step \in [T \X D -> T],
           NEW pick, \A S \in SUBSET D : S # {} => pick[S] \in S
    PROVE  \E g \in [SUBSET D -> T] : Recursion(D, pick, base, step, g)
  <1> DEFINE Small(n) == {S \in SUBSET D : Cardinality(S) <= n}
             Of(g, S) == IF S = {} THEN base ELSE step[<<g[S \ {pick[S]}], pick[S]>>]
             N == {n \in Nat : \E g \in [Small(n) -> T] : \A S \in Small(n) : g[S] = Of(g, S)}
  <1>2. \A S \in SUBSET D : IsFiniteSet(S) /\ Cardinality(S) \in Nat
    BY FS_Subset, FS_CardinalityType
  <1>3. ASSUME NEW S \in SUBSET D, S # {}
        PROVE  /\ pick[S] \in D /\ S \ {pick[S]} \in SUBSET D
               /\ Cardinality(S \ {pick[S]}) = Cardinality(S) - 1
    BY <1>2, <1>3, FS_RemoveElement
  <1>4. 0 \in N
    <2> DEFINE g == [S \in Small(0) |-> base]
    <2>1. \A S \in Small(0) : S = {}
      BY <1>2, FS_EmptySet
    <2>2. g \in [Small(0) -> T] /\ \A S \in Small(0) : g[S] = Of(g, S)
      BY <2>1
    <2> QED
      BY <2>2
  <1>5. ASSUME NEW n \in Nat, n \in N PROVE n + 1 \in N
    <2>1. PICK g \in [Small(n) -> T] : \A S \in Small(n) : g[S] = Of(g, S)
      BY <1>5
    <2> DEFINE h == [S \in Small(n + 1) |-> Of(g, S)]
    <2>2. ASSUME NEW S \in Small(n + 1), S # {} PROVE S \ {pick[S]} \in Small(n)
      <3>1. Cardinality(S) \in Nat /\ Cardinality(S) <= n + 1
        BY <1>2
      <3>2. S \ {pick[S]} \in SUBSET D /\ Cardinality(S \ {pick[S]}) = Cardinality(S) - 1
        BY <1>3, <2>2
      <3> QED
        BY <3>1, <3>2
    <2>3. ASSUME NEW S \in Small(n + 1) PROVE Of(g, S) \in T
      BY <1>3, <2>2
    <2>4. h \in [Small(n + 1) -> T]
      BY <2>3
    <2>5. \A S \in Small(n) : S \in Small(n + 1) /\ h[S] = g[S]
      <3>1. \A S \in Small(n) : Cardinality(S) \in Nat
        BY <1>2
      <3>2. \A S \in Small(n) : S \in Small(n + 1)
        BY <3>1
      <3> QED
        BY <2>1, <3>2
    <2>6. ASSUME NEW S \in Small(n + 1) PROVE h[S] = Of(h, S)
      <3>1. h[S] = Of(g, S)
        OBVIOUS
      <3>2. S # {} => h[S \ {pick[S]}] = g[S \ {pick[S]}]
        BY <2>2, <2>5
      <3> HIDE DEF h, Small
      <3> QED
        BY <3>1, <3>2
    <2> HIDE DEF h, Small, Of
    <2> QED
      BY <2>4, <2>6
  <1> HIDE DEF N
  <1>6. Nat \subseteq N
    BY <1>4, <1>5, NatSetInduction
  <1>7. PICK g \in [Small(Cardinality(D)) -> T] :
            \A S \in Small(Cardinality(D)) : g[S] = Of(g, S)
    BY <1>2, <1>6 DEF N
  <1>8. Small(Cardinality(D)) = SUBSET D
    BY FS_Subset
  <1>9. g = [S \in SUBSET D |-> Of(g, S)]
    BY <1>7, <1>8
  <1> QED
    BY <1>7, <1>8, <1>9 DEF Recursion

(* FoldLeft takes the last position from a set of positions: the folds of   *)
(* the first positions are a run of one step after another.                 *)
FoldsOver(T, step, base, last, h) ==
    \A S \in SUBSET (1..last) :
        h[S] = IF S = {} THEN base
               ELSE IF h[S \ {Max(S)}] \in T THEN step[<<h[S \ {Max(S)}], Max(S)>>]
               ELSE h[S]

IsRun(T, step, base, last, p, result) ==
    /\ p \in [0..last -> T] /\ p[0] = base /\ p[last] = result
    /\ \A n \in 1..last : p[n] = step[<<p[n - 1], n>>]

TakesLast(step, base, last, g) ==
    \A S \in SUBSET (1..last) :
        g[S] = IF S = {} THEN base ELSE step[<<g[S \ {Max(S)}], Max(S)>>]

(* A fold of a sequence is a recursion that takes the last position. *)
LEMMA FoldExists ==
    ASSUME NEW T, NEW last \in Nat, NEW step \in [T \X (1..last) -> T], NEW base \in T
    PROVE  \E g \in [SUBSET (1..last) -> T] : TakesLast(step, base, last, g)
  <1> DEFINE pick == [S \in SUBSET (1..last) |-> Max(S)]
  <1>1. IsFiniteSet(1..last)
    BY FS_Interval
  <1>2. \A S \in SUBSET (1..last) : S # {} => pick[S] = Max(S) /\ pick[S] \in S
    BY LastOfSet
  <1> HIDE DEF pick
  <1>3. PICK g \in [SUBSET (1..last) -> T] : Recursion(1..last, pick, base, step, g)
    BY <1>1, <1>2, RecursionExists
  <1>4. TakesLast(step, base, last, g)
    BY <1>2, <1>3 DEF Recursion, TakesLast
  <1> QED
    BY <1>4

(* What such a recursion yields of all positions is the end of a run. *)
LEMMA RunOf ==
    ASSUME NEW T, NEW last \in Nat, NEW step \in [T \X (1..last) -> T], NEW base \in T,
           NEW h, FoldsOver(T, step, base, last, h)
    PROVE  \E p : IsRun(T, step, base, last, p, h[1..last])
  <1> DEFINE N == {n \in Nat : n <= last => h[1..n] \in T}
  <1>2. h[1..0] = base
    <2>1. 1..0 = {} /\ {} \in SUBSET (1..last)
      OBVIOUS
    <2> QED
      BY <2>1 DEF FoldsOver
  <1>3. ASSUME NEW n \in 1..last, h[1..(n - 1)] \in T
        PROVE  h[1..n] = step[<<h[1..(n - 1)], n>>] /\ h[1..n] \in T
    <2>1. Max(1..n) = n /\ (1..n) \ {n} = 1..(n - 1)
      BY LastOfInterval
    <2>2. 1..n \in SUBSET (1..last) /\ 1..n # {}
      <3>1. n \in Nat /\ 1 <= n /\ n <= last
        OBVIOUS
      <3>2. n \in 1..n /\ \A i \in 1..n : i \in 1..last
        BY <3>1
      <3> QED
        BY <3>2
    <2>3. h[1..n] = step[<<h[1..(n - 1)], n>>]
      BY <1>3, <2>1, <2>2 DEF FoldsOver
    <2>4. <<h[1..(n - 1)], n>> \in T \X (1..last)
      BY <1>3
    <2> QED
      BY <2>3, <2>4
  <1>4. 0 \in N
    BY <1>2
  <1>5. ASSUME NEW n \in Nat, n \in N PROVE n + 1 \in N
    <2> SUFFICES ASSUME n + 1 <= last PROVE h[1..(n + 1)] \in T
      OBVIOUS
    <2>1. n + 1 \in 1..last /\ (n + 1) - 1 = n /\ h[1..n] \in T
      BY <1>5
    <2> QED
      BY <1>3, <2>1
  <1> HIDE DEF N
  <1>6. \A n \in 0..last : h[1..n] \in T
    <2>1. Nat \subseteq N
      BY <1>4, <1>5, NatSetInduction
    <2> QED
      BY <2>1 DEF N
  <1> DEFINE p == [n \in 0..last |-> h[1..n]]
  <1>7. p \in [0..last -> T]
    BY <1>6
  <1>8. p[0] = base /\ p[last] = h[1..last]
    BY <1>2
  <1>9. ASSUME NEW n \in 1..last PROVE p[n] = step[<<p[n - 1], n>>]
    <2>1. n \in 0..last /\ n - 1 \in 0..last
      OBVIOUS
    <2> QED
      BY <1>3, <1>6, <2>1
  <1> HIDE DEF p
  <1> QED
    BY <1>7, <1>8, <1>9 DEF IsRun

-----------------------------------------------------------------------------
(* Sums: SumFunctionOnSet adds one chosen element after another; Adds says  *)
(* that g holds the sums that are met on the way, of every subset of S.     *)

Choice(s) == CHOOSE x \in s : TRUE
Adds(f, S, g) == g = [s \in SUBSET S |-> IF s = {} THEN 0 ELSE f[Choice(s)] + g[s \ {Choice(s)}]]

LEMMA ChoiceIn == ASSUME NEW s, s # {} PROVE Choice(s) \in s
  BY DEF Choice

(* Induction on the subsets of a finite set, by their size. *)
LEMMA SubsetInduction ==
    ASSUME NEW S, IsFiniteSet(S), NEW T,
           {} \in T,
           \A A \in SUBSET S : A # {} /\ (\A x \in A : A \ {x} \in T) => A \in T
    PROVE  SUBSET S \subseteq T
  <1> DEFINE N == {n \in Nat : \A A \in SUBSET S : Cardinality(A) = n => A \in T}
  <1>1. \A A \in SUBSET S : IsFiniteSet(A) /\ Cardinality(A) \in Nat
    BY FS_Subset, FS_CardinalityType
  <1>2. 0 \in N
    BY <1>1, FS_EmptySet
  <1>3. ASSUME NEW n \in Nat, n \in N PROVE n + 1 \in N
    <2> SUFFICES ASSUME NEW A \in SUBSET S, Cardinality(A) = n + 1 PROVE A \in T
      OBVIOUS
    <2>1. A # {}
      BY FS_EmptySet
    <2>2. ASSUME NEW x \in A PROVE A \ {x} \in T
      <3>1. Cardinality(A \ {x}) = n
        BY <1>1, FS_RemoveElement
      <3> QED
        BY <1>3, <3>1
    <2> QED
      BY <2>1, <2>2
  <1> HIDE DEF N
  <1>4. Nat \subseteq N
    BY <1>2, <1>3, NatSetInduction
  <1> QED
    BY <1>1, <1>4 DEF N

(* The sums exist. *)
LEMMA AddsExists ==
    ASSUME NEW S, IsFiniteSet(S), NEW f, \A x \in S : f[x] \in Int
    PROVE  \E g : Adds(f, S, g)
  <1> DEFINE pick == [s \in SUBSET S |-> Choice(s)]
             step == [x \in Int \X S |-> f[x[2]] + x[1]]
  <1>1. ASSUME NEW s \in SUBSET S, s # {}
        PROVE  pick[s] = Choice(s) /\ Choice(s) \in S /\ s \ {Choice(s)} \in SUBSET S
               /\ pick[s] \in s
    BY <1>1, ChoiceIn
  <1>2. step \in [Int \X S -> Int] /\ \A n \in Int, x \in S : step[<<n, x>>] = f[x] + n
    OBVIOUS
  <1> HIDE DEF pick, step
  <1>3. PICK g \in [SUBSET S -> Int] : Recursion(S, pick, 0, step, g)
    <2>1. \A s \in SUBSET S : s # {} => pick[s] \in s
      BY <1>1
    <2>2. step \in [Int \X S -> Int] /\ 0 \in Int
      BY <1>2
    <2> QED
      BY <2>1, <2>2, RecursionExists
  <1> DEFINE h == [s \in SUBSET S |-> IF s = {} THEN 0 ELSE f[Choice(s)] + g[s \ {Choice(s)}]]
  <1>4. ASSUME NEW s \in SUBSET S PROVE g[s] = h[s]
    <2>1. CASE s = {}
      BY <1>3, <2>1 DEF Recursion
    <2>2. CASE s # {}
      <3>1. g[s] = step[<<g[s \ {Choice(s)}], Choice(s)>>]
        BY <1>1, <1>3, <2>2 DEF Recursion
      <3>2. g[s \ {Choice(s)}] \in Int
        BY <1>1, <2>2
      <3> QED
        BY <1>1, <1>2, <2>2, <3>1, <3>2
    <2> QED
      BY <2>1, <2>2
  <1>5. g = h
    BY <1>4
  <1> QED
    BY <1>5 DEF Adds

LEMMA AddsFacts ==
    ASSUME NEW f, NEW S, NEW g, Adds(f, S, g)
    PROVE  /\ g[{}] = 0
           /\ \A s \in SUBSET S : s # {} => g[s] = f[Choice(s)] + g[s \ {Choice(s)}]
  BY DEF Adds

LEMMA AddsType ==
    ASSUME NEW S, IsFiniteSet(S), NEW f, \A x \in S : f[x] \in Int, NEW g, Adds(f, S, g)
    PROVE  \A s \in SUBSET S : g[s] \in Int
  <1> DEFINE T == {s \in SUBSET S : g[s] \in Int}
  <1>1. {} \in T
    BY AddsFacts
  <1>2. ASSUME NEW A \in SUBSET S, A # {}, \A x \in A : A \ {x} \in T PROVE A \in T
    <2> DEFINE c == Choice(A)
    <2>1. c \in A /\ g[A] = f[c] + g[A \ {c}]
      BY <1>2, ChoiceIn, AddsFacts
    <2> HIDE DEF c
    <2>2. f[c] \in Int /\ g[A \ {c}] \in Int
      BY <1>2, <2>1
    <2> QED
      BY <2>1, <2>2
  <1> HIDE DEF T
  <1>3. SUBSET S \subseteq T
    BY <1>1, <1>2, SubsetInduction
  <1> QED
    BY <1>3 DEF T

(* The order of the summands does not matter. *)
LEMMA AddsAny ==
    ASSUME NEW S, IsFiniteSet(S), NEW f, \A x \in S : f[x] \in Int, NEW g, Adds(f, S, g)
    PROVE  \A s \in SUBSET S : \A x \in s : g[s] = f[x] + g[s \ {x}]
  <1> DEFINE T == {s \in SUBSET S : \A x \in s : g[s] = f[x] + g[s \ {x}]}
  <1>1. {} \in T
    OBVIOUS
  <1>2. ASSUME NEW A \in SUBSET S, A # {}, \A x \in A : A \ {x} \in T PROVE A \in T
    <2> SUFFICES ASSUME NEW x \in A PROVE g[A] = f[x] + g[A \ {x}]
      OBVIOUS
    <2> DEFINE c == Choice(A)
    <2>1. c \in A /\ g[A] = f[c] + g[A \ {c}]
      BY <1>2, ChoiceIn, AddsFacts
    <2> HIDE DEF c
    <2>2. CASE x = c
      BY <2>1, <2>2
    <2>3. CASE x # c
      <3>1. g[A \ {c}] = f[x] + g[(A \ {c}) \ {x}]
        BY <1>2, <2>1, <2>3
      <3>2. g[A \ {x}] = f[c] + g[(A \ {x}) \ {c}]
        BY <1>2, <2>1, <2>3
      <3>3. (A \ {c}) \ {x} = (A \ {x}) \ {c}
        OBVIOUS
      <3>4. f[x] \in Int /\ f[c] \in Int
        BY <2>1
      <3>5. (A \ {x}) \ {c} \in SUBSET S
        OBVIOUS
      <3>6. g[(A \ {x}) \ {c}] \in Int
        BY <3>5, AddsType
      <3> DEFINE r == g[(A \ {x}) \ {c}]
      <3>7. g[A] = f[c] + (f[x] + r) /\ g[A \ {x}] = f[c] + r
        BY <2>1, <3>1, <3>2, <3>3
      <3>8. r \in Int
        BY <3>6
      <3> HIDE DEF r
      <3> QED
        BY <3>4, <3>7, <3>8
    <2> QED
      BY <2>2, <2>3
  <1> HIDE DEF T
  <1>3. SUBSET S \subseteq T
    BY <1>1, <1>2, SubsetInduction
  <1> QED
    BY <1>3 DEF T

(* Sums of functions that agree. *)
LEMMA AddsAgree ==
    ASSUME NEW S, IsFiniteSet(S), NEW R \in SUBSET S,
           NEW f, NEW h, \A x \in R : f[x] = h[x],
           NEW g, Adds(f, S, g), NEW k, Adds(h, R, k)
    PROVE  g[R] = k[R]
  <1> DEFINE T == {s \in SUBSET R : g[s] = k[s]}
  <1>0. IsFiniteSet(R)
    BY FS_Subset
  <1>1. {} \in T
    BY AddsFacts
  <1>2. ASSUME NEW A \in SUBSET R, A # {}, \A x \in A : A \ {x} \in T PROVE A \in T
    <2> DEFINE c == Choice(A)
    <2>1. c \in A /\ g[A] = f[c] + g[A \ {c}] /\ k[A] = h[c] + k[A \ {c}]
      BY <1>2, ChoiceIn, AddsFacts
    <2> QED
      BY <1>2, <2>1
  <1> HIDE DEF T
  <1>3. SUBSET R \subseteq T
    BY <1>0, <1>1, <1>2, SubsetInduction
  <1> QED
    BY <1>3 DEF T

(* SumFunctionOnSet is one of them. *)
LEMMA SumOf ==
    ASSUME NEW S, IsFiniteSet(S), NEW f, \A x \in S : f[x] \in Int
    PROVE  \E g : Adds(f, S, g) /\ SumFunctionOnSet(f, S) = g[S]
  <1> DEFINE g == CHOOSE g : Adds(f, S, g)
  <1>1. Adds(f, S, g)
    BY AddsExists, Zenon
  <1>2. SumFunctionOnSet(f, S) = g[S]
    BY Zenon DEF SumFunctionOnSet, FoldFunctionOnSet, MapThenFoldSet, Adds, Choice
  <1> HIDE DEF g
  <1> QED
    BY <1>1, <1>2

LEMMA SumInt ==
    ASSUME NEW S, IsFiniteSet(S), NEW f, \A x \in S : f[x] \in Int
    PROVE  SumFunctionOnSet(f, S) \in Int
  <1>1. PICK g : Adds(f, S, g) /\ SumFunctionOnSet(f, S) = g[S]
    BY SumOf
  <1> QED
    BY <1>1, AddsType

LEMMA SumAgree ==
    ASSUME NEW S, IsFiniteSet(S), NEW f, \A x \in S : f[x] \in Int,
           NEW h, \A x \in S : f[x] = h[x]
    PROVE  SumFunctionOnSet(f, S) = SumFunctionOnSet(h, S)
  <1>1. PICK g : Adds(f, S, g) /\ SumFunctionOnSet(f, S) = g[S]
    BY SumOf
  <1>2. PICK k : Adds(h, S, k) /\ SumFunctionOnSet(h, S) = k[S]
    BY SumOf
  <1>3. S \in SUBSET S
    OBVIOUS
  <1> QED
    BY <1>1, <1>2, <1>3, AddsAgree

(* Any summand can be taken out. *)
LEMMA SumRemove ==
    ASSUME NEW S, IsFiniteSet(S), NEW f, \A x \in S : f[x] \in Int, NEW x \in S
    PROVE  SumFunctionOnSet(f, S) = f[x] + SumFunctionOnSet(f, S \ {x})
  <1>1. PICK g : Adds(f, S, g) /\ SumFunctionOnSet(f, S) = g[S]
    BY SumOf
  <1>2. IsFiniteSet(S \ {x}) /\ S \ {x} \in SUBSET S
    BY FS_RemoveElement
  <1>3. PICK k : Adds(f, S \ {x}, k) /\ SumFunctionOnSet(f, S \ {x}) = k[S \ {x}]
    BY <1>2, SumOf
  <1>4. g[S \ {x}] = k[S \ {x}]
    BY <1>1, <1>2, <1>3, AddsAgree
  <1>5. g[S] = f[x] + g[S \ {x}]
    BY <1>1, AddsAny
  <1> QED
    BY <1>1, <1>3, <1>4, <1>5

(* A sequence with one element more sums to that much more. *)
LEMMA SumLonger ==
    ASSUME NEW n \in Nat, NEW f \in [1..n -> Int], NEW g \in [1..(n + 1) -> Int],
           \A i \in 1..n : g[i] = f[i]
    PROVE  SumFunction(g) = SumFunction(f) + g[n + 1]
  <1>1. IsFiniteSet(1..n) /\ IsFiniteSet(1..(n + 1))
    BY FS_Interval
  <1>2. n + 1 \in 1..(n + 1) /\ (1..(n + 1)) \ {n + 1} = 1..n
    OBVIOUS
  <1>3. \A i \in 1..n : f[i] \in Int
    OBVIOUS
  <1>4. \A i \in 1..(n + 1) : g[i] \in Int
    OBVIOUS
  <1>5. SumFunctionOnSet(g, 1..(n + 1)) = g[n + 1] + SumFunctionOnSet(g, 1..n)
    BY <1>1, <1>2, <1>4, SumRemove
  <1>6. SumFunctionOnSet(f, 1..n) = SumFunctionOnSet(g, 1..n)
    BY <1>1, <1>3, SumAgree
  <1>7. SumFunctionOnSet(f, 1..n) \in Int /\ g[n + 1] \in Int
    BY <1>1, <1>2, <1>3, <1>4, SumInt
  <1>8. /\ SumFunction(g) = SumFunctionOnSet(g, 1..(n + 1))
        /\ SumFunction(f) = SumFunctionOnSet(f, 1..n)
    BY DEF SumFunction
  <1> QED
    BY <1>5, <1>6, <1>7, <1>8

(* One summand more, where the others stay. *)
LEMMA SumRaised ==
    ASSUME NEW S, IsFiniteSet(S), NEW f \in [S -> Int], NEW x \in S, NEW n \in Int
    PROVE  SumFunction([f EXCEPT ![x] = @ + n]) = SumFunction(f) + n
  <1> DEFINE g == [f EXCEPT ![x] = @ + n]
  <1>1. g \in [S -> Int] /\ g[x] = f[x] + n /\ \A y \in S \ {x} : f[y] = g[y]
    OBVIOUS
  <1> HIDE DEF g
  <1>2. IsFiniteSet(S \ {x})
    BY FS_RemoveElement
  <1>3. (\A y \in S : f[y] \in Int) /\ (\A y \in S : g[y] \in Int)
    BY <1>1
  <1>4. SumFunctionOnSet(g, S) = g[x] + SumFunctionOnSet(g, S \ {x})
    BY <1>3, SumRemove
  <1>5. SumFunctionOnSet(f, S) = f[x] + SumFunctionOnSet(f, S \ {x})
    BY <1>3, SumRemove
  <1>6. SumFunctionOnSet(f, S \ {x}) = SumFunctionOnSet(g, S \ {x})
    BY <1>1, <1>2, <1>3, SumAgree
  <1>7. SumFunctionOnSet(f, S \ {x}) \in Int /\ f[x] \in Int
    BY <1>2, <1>3, SumInt
  <1>8. SumFunction(g) = SumFunctionOnSet(g, S) /\ SumFunction(f) = SumFunctionOnSet(f, S)
    BY <1>1 DEF SumFunction
  <1>9. SumFunction(g) = SumFunction(f) + n
    BY <1>1, <1>4, <1>5, <1>6, <1>7, <1>8
  <1> QED
    BY <1>9 DEF g

-----------------------------------------------------------------------------
(* Counts per agent *)

Maps == [Names -> Nat]
Entries == Names \X Nat

(* FoldKey yields a name. *)
LEMMA FoldAgentType ==
    ASSUME NEW map \in Maps, NEW entry \in Entries
    PROVE  /\ FoldKey(map, entry[1]) \in Names
           /\ FoldAgent(map, entry) \in Maps
  <1>1. FoldKey(map, entry[1]) \in Names
    BY DEF FoldKey, Names, Entries
  <1>2. entry[2] \in Nat
    BY DEF Entries
  <1> DEFINE k == FoldKey(map, entry[1])
  <1> HIDE DEF k
  <1>3. [map EXCEPT ![k] = @ + entry[2]] \in Maps
    <2>1. k \in Names
      BY <1>1 DEF k
    <2>2. map[k] + entry[2] \in Nat
      BY <1>2, <2>1 DEF Maps
    <2> QED
      BY <2>1, <2>2 DEF Maps
  <1> QED
    BY <1>1, <1>3 DEF FoldAgent, k

FoldsAgents(map, agents, h) ==
    h = [S \in SUBSET DOMAIN agents |->
            IF S = {} THEN map ELSE FoldAgent(h[S \ {Max(S)}], agents[Max(S)])]

(* Folding the agents of an item is a run of FoldAgent over its entries. *)
LEMMA FoldAgentsRun ==
    ASSUME NEW map \in Maps, NEW agents \in Seq(Entries)
    PROVE  \E p \in [0..Len(agents) -> Maps] :
              /\ p[0] = map /\ p[Len(agents)] = FoldAgents(map, agents)
              /\ \A n \in 1..Len(agents) : p[n] = FoldAgent(p[n - 1], agents[n])
  <1> DEFINE last == Len(agents)
             step == [x \in Maps \X (1..last) |-> FoldAgent(x[1], agents[x[2]])]
             h == CHOOSE h : FoldsAgents(map, agents, h)
  <1>1. DOMAIN agents = 1..last /\ last \in Nat /\ \A n \in 1..last : agents[n] \in Entries
    OBVIOUS
  <1>2. step \in [Maps \X (1..last) -> Maps]
    BY <1>1, FoldAgentType
  <1>3. \A x \in Maps, n \in 1..last : step[<<x, n>>] = FoldAgent(x, agents[n])
    OBVIOUS
  <1> HIDE DEF step, last
  <1>4. PICK g \in [SUBSET (1..last) -> Maps] : TakesLast(step, map, last, g)
    BY <1>1, <1>2, FoldExists
  <1>5. FoldsAgents(map, agents, g)
    <2> DEFINE f == [S \in SUBSET DOMAIN agents |->
                       IF S = {} THEN map ELSE FoldAgent(g[S \ {Max(S)}], agents[Max(S)])]
    <2>1. \A S \in SUBSET (1..last) : g[S] = f[S]
      BY <1>1, <1>3, <1>4, LastOfSet DEF TakesLast
    <2>2. g = f
      BY <1>1, <2>1
    <2> QED
      BY <2>2 DEF FoldsAgents
  <1>6. FoldsAgents(map, agents, h)
    BY <1>5, Zenon
  <1>7. FoldAgents(map, agents) = h[DOMAIN agents]
    BY Zenon DEF FoldAgents, FoldLeft, MapThenFoldSet, FoldsAgents
  <1> HIDE DEF h
  <1>8. FoldsOver(Maps, step, map, last, h)
    <2>1. \A S \in SUBSET (1..last) :
              h[S] = IF S = {} THEN map ELSE FoldAgent(h[S \ {Max(S)}], agents[Max(S)])
      BY <1>1, <1>6 DEF FoldsAgents
    <2> QED
      BY <1>1, <1>3, <2>1, LastOfSet DEF FoldsOver
  <1>9. PICK p : IsRun(Maps, step, map, last, p, h[1..last])
    BY <1>1, <1>2, <1>8, RunOf
  <1>10. ASSUME NEW n \in 1..last PROVE p[n] = FoldAgent(p[n - 1], agents[n])
    <2>1. n - 1 \in 0..last
      BY <1>1
    <2> QED
      BY <1>3, <1>9, <2>1 DEF IsRun
  <1> QED
    BY <1>1, <1>7, <1>9, <1>10 DEF IsRun, last

(* What clampCount returns. *)
LEMMA ClampedCount ==
    ASSUME NEW n \in Int
    PROVE  /\ ClampCount(n) \in Nat
           /\ n = 1 => ClampCount(n) = n
  <1>1. MaxCount \in Nat /\ MaxCount >= 1
    BY BoundsAssumption
  <1>2. Min({n, MaxCount}) = IF n <= MaxCount THEN n ELSE MaxCount
    BY <1>1 DEF Min
  <1> QED
    BY <1>1, <1>2 DEF ClampCount

LEMMA KeepCountedType ==
    ASSUME NEW kept \in Seq(Entries), NEW entry \in Names \X Int
    PROVE  KeepCounted(kept, entry) \in Seq(Entries)
  <1>1. entry[1] \in Names /\ ClampCount(entry[2]) \in Nat
    BY ClampedCount
  <1>2. <<entry[1], ClampCount(entry[2])>> \in Entries
    BY <1>1 DEF Entries
  <1> QED
    BY <1>2 DEF KeepCounted

KeepsCounted(kept, agents, h) ==
    h = [S \in SUBSET DOMAIN agents |->
            IF S = {} THEN kept ELSE KeepCounted(h[S \ {Max(S)}], agents[Max(S)])]

(* So is clamping them, of KeepCounted. *)
LEMMA ClampedRun ==
    ASSUME NEW kept \in Seq(Entries), NEW agents \in Seq(Names \X Int)
    PROVE  \E p \in [0..Len(agents) -> Seq(Entries)] :
              /\ p[0] = kept /\ p[Len(agents)] = FoldLeft(KeepCounted, kept, agents)
              /\ \A n \in 1..Len(agents) : p[n] = KeepCounted(p[n - 1], agents[n])
  <1> DEFINE last == Len(agents)
             step == [x \in Seq(Entries) \X (1..last) |-> KeepCounted(x[1], agents[x[2]])]
             h == CHOOSE h : KeepsCounted(kept, agents, h)
  <1>1. DOMAIN agents = 1..last /\ last \in Nat /\ \A n \in 1..last : agents[n] \in Names \X Int
    OBVIOUS
  <1>2. step \in [Seq(Entries) \X (1..last) -> Seq(Entries)]
    BY <1>1, KeepCountedType
  <1>3. \A x \in Seq(Entries), n \in 1..last : step[<<x, n>>] = KeepCounted(x, agents[n])
    OBVIOUS
  <1> HIDE DEF step, last
  <1>4. PICK g \in [SUBSET (1..last) -> Seq(Entries)] : TakesLast(step, kept, last, g)
    BY <1>1, <1>2, FoldExists
  <1>5. KeepsCounted(kept, agents, g)
    <2> DEFINE f == [S \in SUBSET DOMAIN agents |->
                       IF S = {} THEN kept ELSE KeepCounted(g[S \ {Max(S)}], agents[Max(S)])]
    <2>1. \A S \in SUBSET (1..last) : g[S] = f[S]
      BY <1>1, <1>3, <1>4, LastOfSet DEF TakesLast
    <2>2. g = f
      BY <1>1, <2>1
    <2> QED
      BY <2>2 DEF KeepsCounted
  <1>6. KeepsCounted(kept, agents, h)
    BY <1>5, Zenon
  <1>7. FoldLeft(KeepCounted, kept, agents) = h[DOMAIN agents]
    BY Zenon DEF FoldLeft, MapThenFoldSet, KeepsCounted
  <1> HIDE DEF h
  <1>8. FoldsOver(Seq(Entries), step, kept, last, h)
    <2>1. \A S \in SUBSET (1..last) :
              h[S] = IF S = {} THEN kept ELSE KeepCounted(h[S \ {Max(S)}], agents[Max(S)])
      BY <1>1, <1>6 DEF KeepsCounted
    <2> QED
      BY <1>1, <1>3, <2>1, LastOfSet DEF FoldsOver
  <1>9. PICK p : IsRun(Seq(Entries), step, kept, last, p, h[1..last])
    BY <1>1, <1>2, <1>8, RunOf
  <1>10. ASSUME NEW n \in 1..last PROVE p[n] = KeepCounted(p[n - 1], agents[n])
    <2>1. n - 1 \in 0..last
      BY <1>1
    <2> QED
      BY <1>3, <1>9, <2>1 DEF IsRun
  <1> QED
    BY <1>1, <1>7, <1>9, <1>10 DEF IsRun, last

-----------------------------------------------------------------------------
(* What folding adds *)

Few(map) == Cardinality(Named(map)) <= MaxAgentKeys

LEMMA NamesAreFinite == IsFiniteSet(Names)
  BY AgentsAssumption, FS_AddElement DEF Names

(* One entry adds its count, under a key that leaves room for no more than  *)
(* MaxAgentKeys named ones.                                                 *)
LEMMA FoldAgentAdds ==
    ASSUME NEW map \in Maps, NEW entry \in Entries
    PROVE  /\ SumFunction(FoldAgent(map, entry)) = SumFunction(map) + entry[2]
           /\ Few(map) => Few(FoldAgent(map, entry))
  <1> DEFINE a == entry[1]
             k == FoldKey(map, a)
             new == FoldAgent(map, entry)
  <1>1. k \in Names /\ new \in Maps /\ entry[2] \in Nat /\ a \in Names
    BY FoldAgentType DEF Entries
  <1>2. new = [map EXCEPT ![k] = @ + entry[2]]
    BY DEF FoldAgent
  <1>3. k = a \/ k = Other
    BY DEF FoldKey
  <1>4. map[a] > 0 \/ Cardinality(Named(map)) < MaxAgentKeys \/ k = Other
    BY DEF FoldKey
  <1> HIDE DEF k, new
  <1>5. SumFunction(new) = SumFunction(map) + entry[2]
    <2>1. map \in [Names -> Int] /\ entry[2] \in Int
      BY <1>1 DEF Maps
    <2> QED
      BY <1>1, <1>2, <2>1, NamesAreFinite, SumRaised
  <1>6. ASSUME Few(map) PROVE Few(new)
    <2>1. Named(new) \subseteq Named(map) \cup {k} /\ Other \notin Named(new)
      BY <1>1, <1>2 DEF Named, Maps
    <2>2. IsFiniteSet(Named(map)) /\ IsFiniteSet(Named(new)) /\ Cardinality(Named(map)) \in Nat
      BY NamesAreFinite, FS_Subset, FS_CardinalityType DEF Named
    <2>3. CASE map[a] > 0 \/ k = Other
      <3>1. Named(new) \subseteq Named(map)
        BY <1>1, <1>2, <1>3, <2>1, <2>3 DEF Named, Maps
      <3>2. Cardinality(Named(new)) <= Cardinality(Named(map)) /\ Cardinality(Named(new)) \in Nat
        BY <2>2, <3>1, FS_Subset, FS_CardinalityType
      <3> QED
        BY <1>6, <2>2, <3>2, BoundsAssumption DEF Few
    <2>4. CASE Cardinality(Named(map)) < MaxAgentKeys
      <3>1. Cardinality(Named(map) \cup {k}) <= Cardinality(Named(map)) + 1
            /\ IsFiniteSet(Named(map) \cup {k})
        <4>1. /\ IsFiniteSet(Named(map) \cup {k})
              /\ Cardinality(Named(map) \cup {k}) =
                    IF k \in Named(map) THEN Cardinality(Named(map)) ELSE Cardinality(Named(map)) + 1
          BY <2>2, FS_AddElement
        <4> QED
          BY <2>2, <4>1
      <3>2. Cardinality(Named(new)) <= Cardinality(Named(map) \cup {k})
            /\ Cardinality(Named(new)) \in Nat /\ Cardinality(Named(map) \cup {k}) \in Nat
        BY <2>1, <2>2, <3>1, FS_Subset, FS_CardinalityType
      <3> QED
        BY <2>2, <2>4, <3>1, <3>2, BoundsAssumption DEF Few
    <2> QED
      BY <1>4, <2>3, <2>4
  <1> QED
    BY <1>5, <1>6 DEF new

CountsIn(entries, n) == [i \in 1..n |-> entries[i][2]]

LEMMA SumNone == SumFunction([i \in 1..0 |-> 0]) = 0 /\ \A f : DOMAIN f = {} => SumFunction(f) = 0
  <1>1. ASSUME NEW f, DOMAIN f = {} PROVE SumFunction(f) = 0
    <2>1. PICK g : Adds(f, {}, g) /\ SumFunctionOnSet(f, {}) = g[{}]
      BY SumOf, FS_EmptySet
    <2> QED
      BY <1>1, <2>1, AddsFacts DEF SumFunction
  <1>2. DOMAIN [i \in 1..0 |-> 0] = {}
    OBVIOUS
  <1> QED
    BY <1>1, <1>2

(* All of the entries add their counts. *)
LEMMA FoldAgentsAdds ==
    ASSUME NEW map \in Maps, NEW agents \in Seq(Entries)
    PROVE  /\ FoldAgents(map, agents) \in Maps
           /\ SumFunction(FoldAgents(map, agents)) =
                 SumFunction(map) + SumFunction(CountsIn(agents, Len(agents)))
           /\ Few(map) => Few(FoldAgents(map, agents))
  <1> DEFINE last == Len(agents)
  <1>1. last \in Nat /\ \A n \in 1..last : agents[n] \in Entries /\ agents[n][2] \in Nat
    BY DEF Entries
  <1>2. PICK p \in [0..last -> Maps] :
            /\ p[0] = map /\ p[last] = FoldAgents(map, agents)
            /\ \A n \in 1..last : p[n] = FoldAgent(p[n - 1], agents[n])
    BY FoldAgentsRun
  <1> DEFINE N == {n \in Nat : n <= last =>
                      /\ SumFunction(p[n]) = SumFunction(map) + SumFunction(CountsIn(agents, n))
                      /\ Few(map) => Few(p[n])}
  <1> HIDE DEF last
  <1>3. SumFunction(map) \in Int
    BY NamesAreFinite, SumInt DEF Maps, SumFunction
  <1>4. ASSUME NEW n \in Nat, n <= last
        PROVE  CountsIn(agents, n) \in [1..n -> Int] /\ SumFunction(CountsIn(agents, n)) \in Int
    <2>1. CountsIn(agents, n) \in [1..n -> Int]
      BY <1>1, <1>4 DEF CountsIn
    <2>2. IsFiniteSet(1..n)
      BY FS_Interval
    <2> QED
      BY <2>1, <2>2, SumInt DEF SumFunction
  <1>5. 0 \in N
    <2>1. SumFunction(CountsIn(agents, 0)) = 0
      BY SumNone DEF CountsIn
    <2> QED
      BY <1>2, <1>3, <2>1
  <1>6. ASSUME NEW n \in Nat, n \in N PROVE n + 1 \in N
    <2> SUFFICES ASSUME n + 1 <= last
                 PROVE  /\ SumFunction(p[n + 1]) =
                              SumFunction(map) + SumFunction(CountsIn(agents, n + 1))
                        /\ Few(map) => Few(p[n + 1])
      OBVIOUS
    <2>1. n <= last /\ n \in 0..last /\ n + 1 \in 1..last /\ (n + 1) - 1 = n
      BY <1>1
    <2>2. p[n] \in Maps /\ p[n + 1] = FoldAgent(p[n], agents[n + 1]) /\ agents[n + 1] \in Entries
      BY <1>1, <1>2, <2>1
    <2>3. SumFunction(p[n]) = SumFunction(map) + SumFunction(CountsIn(agents, n))
          /\ (Few(map) => Few(p[n]))
      BY <1>6, <2>1
    <2>4. SumFunction(CountsIn(agents, n + 1)) = SumFunction(CountsIn(agents, n)) + agents[n + 1][2]
      <3>1. \A i \in 1..n : CountsIn(agents, n + 1)[i] = CountsIn(agents, n)[i]
        BY DEF CountsIn
      <3>2. CountsIn(agents, n + 1)[n + 1] = agents[n + 1][2]
        BY DEF CountsIn
      <3> QED
        <4>1. n + 1 \in Nat /\ CountsIn(agents, n) \in [1..n -> Int]
              /\ CountsIn(agents, n + 1) \in [1..(n + 1) -> Int]
          BY <1>4, <2>1
        <4> QED
          BY <3>1, <3>2, <4>1, SumLonger
    <2>5. /\ SumFunction(p[n + 1]) = SumFunction(p[n]) + agents[n + 1][2]
          /\ Few(p[n]) => Few(p[n + 1])
      BY <2>2, FoldAgentAdds
    <2>6. agents[n + 1][2] \in Int /\ SumFunction(CountsIn(agents, n)) \in Int
      <3>1. agents[n + 1][2] \in Nat
        BY <1>1, <2>1
      <3>2. SumFunction(CountsIn(agents, n)) \in Int
        BY <1>4, <2>1
      <3> QED
        BY <3>1, <3>2
    <2> QED
      BY <1>3, <2>3, <2>4, <2>5, <2>6
  <1> HIDE DEF N
  <1>7. last \in N
    <2>1. Nat \subseteq N
      BY <1>5, <1>6, NatSetInduction
    <2> QED
      BY <1>1, <2>1
  <1> QED
    BY <1>1, <1>2, <1>7 DEF N, last

(* Clamping keeps the counts that count for something. *)
ClampsIn(agents, n) == [i \in 1..n |-> ClampCount(agents[i][2])]

LEMMA KeepCountedAdds ==
    ASSUME NEW kept \in Seq(Entries), NEW entry \in Names \X Int
    PROVE  SumFunction(CountsIn(KeepCounted(kept, entry), Len(KeepCounted(kept, entry)))) =
              SumFunction(CountsIn(kept, Len(kept))) + ClampCount(entry[2])
  <1> DEFINE n == Len(kept)
             c == ClampCount(entry[2])
             e == <<entry[1], c>>
             longer == Append(kept, e)
  <1>1. n \in Nat /\ \A i \in 1..n : kept[i][2] \in Nat
    BY DEF Entries
  <1>2. c \in Nat
    BY ClampedCount
  <1>3. CountsIn(kept, n) \in [1..n -> Int] /\ SumFunction(CountsIn(kept, n)) \in Int
    <2>1. CountsIn(kept, n) \in [1..n -> Int]
      BY <1>1 DEF CountsIn
    <2>2. IsFiniteSet(1..n)
      BY FS_Interval
    <2> QED
      BY <2>1, <2>2, SumInt DEF SumFunction
  <1>4. Len(longer) = n + 1 /\ longer[n + 1] = e /\ \A i \in 1..n : longer[i] = kept[i]
    <2>1. e \in Entries
      BY <1>2 DEF Entries
    <2> QED
      BY <2>1
  <1>5. KeepCounted(kept, entry) = IF c > 0 THEN longer ELSE kept
    BY DEF KeepCounted
  <1>6. e[2] = c
    OBVIOUS
  <1> HIDE DEF n, c, e, longer
  <1>7. SumFunction(CountsIn(longer, n + 1)) = SumFunction(CountsIn(kept, n)) + c
    <2>1. \A i \in 1..n : CountsIn(longer, n + 1)[i] = CountsIn(kept, n)[i]
      BY <1>1, <1>4 DEF CountsIn
    <2>2. CountsIn(longer, n + 1)[n + 1] = c
      BY <1>1, <1>4, <1>6 DEF CountsIn
    <2>3. CountsIn(longer, n + 1) \in [1..(n + 1) -> Int]
      <3>1. ASSUME NEW i \in 1..(n + 1) PROVE longer[i][2] \in Int
        <4>1. i \in 1..n \/ i = n + 1
          BY <1>1
        <4> QED
          BY <1>1, <1>2, <1>4, <1>6, <4>1
      <3> QED
        BY <3>1 DEF CountsIn
    <2> QED
      BY <1>1, <1>3, <2>1, <2>2, <2>3, SumLonger
  <1> QED
    BY <1>2, <1>3, <1>4, <1>5, <1>7 DEF n, c

(* The counts that are kept sum up to those that were sent, clamped. *)
LEMMA ClampedAdds ==
    ASSUME NEW agents \in Seq(Names \X Int)
    PROVE  /\ Clamped(agents) \in Seq(Entries)
           /\ SumFunction(CountsIn(Clamped(agents), Len(Clamped(agents)))) =
                 SumFunction(ClampsIn(agents, Len(agents)))
           /\ SumFunction(ClampsIn(agents, Len(agents))) \in Int
  <1> DEFINE last == Len(agents)
             CountOf(s) == SumFunction(CountsIn(s, Len(s)))
  <1>1. last \in Nat /\ \A n \in 1..last : agents[n] \in Names \X Int /\ agents[n][2] \in Int
    OBVIOUS
  <1>2. PICK p \in [0..last -> Seq(Entries)] :
            /\ p[0] = <<>> /\ p[last] = FoldLeft(KeepCounted, <<>>, agents)
            /\ \A n \in 1..last : p[n] = KeepCounted(p[n - 1], agents[n])
    BY ClampedRun, <<>> \in Seq(Entries)
  <1> HIDE DEF last
  <1>3. ASSUME NEW n \in Nat, n <= last
        PROVE  ClampsIn(agents, n) \in [1..n -> Int] /\ SumFunction(ClampsIn(agents, n)) \in Int
    <2>1. ClampsIn(agents, n) \in [1..n -> Int]
      <3>1. ASSUME NEW i \in 1..n PROVE ClampCount(agents[i][2]) \in Int
        <4> DEFINE c == agents[i][2]
        <4>1. c \in Int
          BY <1>1, <1>3
        <4> HIDE DEF c
        <4>2. ClampCount(c) \in Int
          BY <4>1, ClampedCount
        <4> QED
          BY <4>2 DEF c
      <3> QED
        BY <3>1 DEF ClampsIn
    <2>2. IsFiniteSet(1..n)
      BY FS_Interval
    <2> QED
      BY <2>1, <2>2, SumInt DEF SumFunction
  <1> DEFINE N == {n \in Nat : n <= last => CountOf(p[n]) = SumFunction(ClampsIn(agents, n))}
  <1>4. 0 \in N
    <2>1. SumFunction(ClampsIn(agents, 0)) = 0
      BY SumNone DEF ClampsIn
    <2>2. CountOf(p[0]) = 0
      BY <1>2, SumNone DEF CountsIn
    <2> QED
      BY <2>1, <2>2
  <1>5. ASSUME NEW n \in Nat, n \in N PROVE n + 1 \in N
    <2> SUFFICES ASSUME n + 1 <= last
                 PROVE  CountOf(p[n + 1]) = SumFunction(ClampsIn(agents, n + 1))
      OBVIOUS
    <2>1. n <= last /\ n \in 0..last /\ n + 1 \in 1..last /\ (n + 1) - 1 = n
      BY <1>1
    <2>2. p[n] \in Seq(Entries) /\ p[n + 1] = KeepCounted(p[n], agents[n + 1])
          /\ agents[n + 1] \in Names \X Int
      BY <1>1, <1>2, <2>1
    <2>3. CountOf(p[n]) = SumFunction(ClampsIn(agents, n))
      BY <1>5, <2>1
    <2>4. CountOf(p[n + 1]) = CountOf(p[n]) + ClampCount(agents[n + 1][2])
      BY <2>2, KeepCountedAdds
    <2>5. SumFunction(ClampsIn(agents, n + 1)) =
              SumFunction(ClampsIn(agents, n)) + ClampCount(agents[n + 1][2])
      <3>1. \A i \in 1..n : ClampsIn(agents, n + 1)[i] = ClampsIn(agents, n)[i]
        BY DEF ClampsIn
      <3>2. ClampsIn(agents, n + 1)[n + 1] = ClampCount(agents[n + 1][2])
        BY DEF ClampsIn
      <3>3. n + 1 \in Nat /\ ClampsIn(agents, n) \in [1..n -> Int]
            /\ ClampsIn(agents, n + 1) \in [1..(n + 1) -> Int]
        BY <1>3, <2>1
      <3> QED
        BY <3>1, <3>2, <3>3, SumLonger
    <2> QED
      BY <2>3, <2>4, <2>5
  <1> HIDE DEF N
  <1>6. last \in N
    <2>1. Nat \subseteq N
      BY <1>4, <1>5, NatSetInduction
    <2> QED
      BY <1>1, <2>1
  <1>7. Clamped(agents) = p[last] /\ p[last] \in Seq(Entries)
    BY <1>1, <1>2 DEF Clamped
  <1> QED
    BY <1>1, <1>3, <1>6, <1>7 DEF N, last

-----------------------------------------------------------------------------
(* Reports and events *)

(* An event counts each of its agents once. *)
Counted == {i \in Items : i.kind # "report" => \A n \in DOMAIN i.agents : i.agents[n][2] = 1}
Of(b) == {i \in Counted : BufferOf(i) = b}

LEMMA ItemFields ==
    ASSUME NEW i \in Items
    PROVE  /\ i.kind \in {"report", "install", "update"} /\ i.sessions \in Int
           /\ i.agents \in Seq(Names \X Int)
           /\ i = [kind |-> i.kind, sessions |-> i.sessions, agents |-> i.agents]
  BY DEF Items

LEMMA OfBuffer ==
    ASSUME NEW i \in Counted
    PROVE  /\ BufferOf(i) \in Buffers /\ i \in Of(BufferOf(i))
           /\ BufferOf(i) = "reports" <=> i.kind = "report"
           /\ BufferOf(i) = "events" <=> i.kind # "report"
  BY DEF BufferOf, Buffers, Of

LEMMA CountsAre ==
    ASSUME NEW i \in Items
    PROVE  /\ Counts(i) = SumFunction(ClampsIn(i.agents, Len(i.agents)))
           /\ Counts(i) \in Int
  <1>1. i.agents \in Seq(Names \X Int) /\ DOMAIN i.agents = 1..Len(i.agents)
    BY ItemFields
  <1>2. Counts(i) = SumFunction(ClampsIn(i.agents, Len(i.agents)))
    BY <1>1 DEF Counts, SumAlong, ClampsIn
  <1> QED
    BY <1>1, <1>2, ClampedAdds

(* What the elements of a sequence count for together, by the values v *)
SumBy(s, v) == SumFunction([n \in DOMAIN s |-> v[s[n]]])

(* It grows by what the next element counts for. *)
LEMMA SumAppend ==
    ASSUME NEW E, NEW v \in [E -> Int], NEW s \in Seq(E), NEW e \in E
    PROVE  SumBy(Append(s, e), v) = SumBy(s, v) + v[e]
  <1> DEFINE len == Len(s)
             t == Append(s, e)
             f == [n \in DOMAIN s |-> v[s[n]]]
             g == [n \in DOMAIN t |-> v[t[n]]]
  <1>1. len \in Nat /\ DOMAIN s = 1..len /\ DOMAIN t = 1..(len + 1)
        /\ t[len + 1] = e /\ \A n \in 1..len : t[n] = s[n] /\ s[n] \in E
    OBVIOUS
  <1>2. \A n \in 1..(len + 1) : t[n] \in E
    <2>1. t \in Seq(E)
      OBVIOUS
    <2> QED
      BY <1>1, <2>1
  <1> HIDE DEF len, t
  <1>3. f \in [1..len -> Int] /\ g \in [1..(len + 1) -> Int]
    BY <1>1, <1>2
  <1>4. \A n \in 1..len : g[n] = f[n]
    BY <1>1
  <1>5. g[len + 1] = v[e]
    BY <1>1
  <1> HIDE DEF f, g
  <1>6. SumFunction(g) = SumFunction(f) + v[e]
    BY <1>1, <1>3, <1>4, <1>5, SumLonger
  <1> QED
    BY <1>6 DEF f, g, t, SumBy

LEMMA SumTyped ==
    ASSUME NEW E, NEW v \in [E -> Int], NEW s \in Seq(E)
    PROVE  SumBy(s, v) \in Int
  <1> DEFINE f == [n \in DOMAIN s |-> v[s[n]]]
  <1>1. DOMAIN s = 1..Len(s) /\ DOMAIN f = 1..Len(s) /\ \A n \in 1..Len(s) : f[n] \in Int
    OBVIOUS
  <1>2. IsFiniteSet(1..Len(s))
    BY FS_Interval
  <1> HIDE DEF f
  <1>3. SumFunction(f) \in Int
    BY <1>1, <1>2, SumInt DEF SumFunction
  <1> QED
    BY <1>3 DEF f, SumBy

SessionsOf == [i \in Items |-> ClampCount(i.sessions)]
CountsOf == [i \in Items |-> Counts(i)]
InstallOf == [i \in Items |-> IfInstall(i, 1)]
InstallCountsOf == [i \in Items |-> IfInstall(i, Counts(i))]

LEMMA ValuesTyped ==
    {SessionsOf, CountsOf, InstallOf, InstallCountsOf} \subseteq [Items -> Int]
  <1>1. \A i \in Items : ClampCount(i.sessions) \in Int
    BY ItemFields, ClampedCount
  <1>2. \A i \in Items : Counts(i) \in Int
    BY CountsAre
  <1>3. \A i \in Items : IfInstall(i, 1) \in Int /\ IfInstall(i, Counts(i)) \in Int
    BY <1>2 DEF IfInstall
  <1>4. SessionsOf \in [Items -> Int]
    BY <1>1 DEF SessionsOf
  <1>5. CountsOf \in [Items -> Int]
    BY <1>2 DEF CountsOf
  <1>6. InstallOf \in [Items -> Int]
    BY <1>3 DEF InstallOf
  <1>7. InstallCountsOf \in [Items -> Int]
    BY <1>3 DEF InstallCountsOf
  <1> QED
    BY <1>4, <1>5, <1>6, <1>7

(* Exactness in terms of these values. *)
LEMMA ExactValues ==
    ASSUME NEW t, NEW s \in Seq(Items)
    PROVE  /\ ExactReports(t, s) <=>
                 /\ t.reports = Len(s) /\ t.sessions = SumBy(s, SessionsOf)
                 /\ SumFunction(t.byAgent) = SumBy(s, CountsOf) /\ Few(t.byAgent)
           /\ ExactEvents(t, s) <=>
                 /\ t.installs + t.updates = Len(s) /\ t.installs = SumBy(s, InstallOf)
                 /\ SumFunction(t.installsByAgent) = SumBy(s, InstallCountsOf)
                 /\ Few(t.installsByAgent)
  <1>1. \A n \in DOMAIN s : s[n] \in Items
    OBVIOUS
  <1>2. [n \in DOMAIN s |-> ClampCount(s[n].sessions)] = [n \in DOMAIN s |-> SessionsOf[s[n]]]
    BY <1>1 DEF SessionsOf
  <1>3. [n \in DOMAIN s |-> Counts(s[n])] = [n \in DOMAIN s |-> CountsOf[s[n]]]
    BY <1>1 DEF CountsOf
  <1>4. [n \in DOMAIN s |-> IfInstall(s[n], 1)] = [n \in DOMAIN s |-> InstallOf[s[n]]]
    BY <1>1 DEF InstallOf
  <1>5. [n \in DOMAIN s |-> IfInstall(s[n], Counts(s[n]))] = [n \in DOMAIN s |-> InstallCountsOf[s[n]]]
    BY <1>1 DEF InstallCountsOf
  <1>6. ExactReports(t, s) <=>
                 /\ t.reports = Len(s) /\ t.sessions = SumBy(s, SessionsOf)
                 /\ SumFunction(t.byAgent) = SumBy(s, CountsOf) /\ Few(t.byAgent)
    BY <1>2, <1>3 DEF ExactReports, SumAlong, SumBy, Few
  <1>7. ExactEvents(t, s) <=>
                 /\ t.installs + t.updates = Len(s) /\ t.installs = SumBy(s, InstallOf)
                 /\ SumFunction(t.installsByAgent) = SumBy(s, InstallCountsOf)
                 /\ Few(t.installsByAgent)
    BY <1>4, <1>5 DEF ExactEvents, SumAlong, SumBy, Few
  <1> QED
    BY <1>6, <1>7

LEMMA SumGrows ==
    ASSUME NEW s \in Seq(Items), NEW i \in Items,
           NEW v \in {SessionsOf, CountsOf, InstallOf, InstallCountsOf}
    PROVE  SumBy(Append(s, i), v) = SumBy(s, v) + v[i] /\ SumBy(s, v) \in Int /\ v[i] \in Int
  <1>1. v \in [Items -> Int]
    BY ValuesTyped
  <1> QED
    BY <1>1, SumAppend, SumTyped

LEMMA TotalsFields ==
    ASSUME NEW t \in Totals
    PROVE  /\ t.reports \in Nat /\ t.sessions \in Nat /\ t.installs \in Nat /\ t.updates \in Nat
           /\ t.byAgent \in Maps /\ t.installsByAgent \in Maps
           /\ t = [reports |-> t.reports, sessions |-> t.sessions,
                   installs |-> t.installs, updates |-> t.updates,
                   byAgent |-> t.byAgent, installsByAgent |-> t.installsByAgent]
  BY DEF Totals, Maps

(* A report counts once, with its sessions and its agents, and no event does. *)
LEMMA ReportCounts ==
    ASSUME NEW t \in Totals, NEW i \in Of("reports")
    PROVE  /\ FoldItem(t, i) \in Totals
           /\ \A s \in Seq(Items) :
                 ExactReports(t, s) => ExactReports(FoldItem(t, i), Append(s, i))
           /\ \A s \in Seq(Items) : ExactEvents(t, s) => ExactEvents(FoldItem(t, i), s)
  <1> DEFINE byAgent == FoldAgents(t.byAgent, Clamped(i.agents))
             new == FoldReport(t, i)
  <1>1. i \in Items /\ i.kind = "report"
    BY OfBuffer DEF Of, Counted
  <1>2. ClampCount(i.sessions) \in Nat
    BY <1>1, ItemFields, ClampedCount
  <1>3. t.byAgent \in Maps
    BY DEF Totals, Maps
  <1>4. Clamped(i.agents) \in Seq(Entries)
        /\ SumFunction(CountsIn(Clamped(i.agents), Len(Clamped(i.agents)))) = Counts(i)
    BY <1>1, ItemFields, ClampedAdds, CountsAre
  <1>5. /\ byAgent \in Maps /\ SumFunction(byAgent) = SumFunction(t.byAgent) + Counts(i)
        /\ Few(t.byAgent) => Few(byAgent)
    BY <1>3, <1>4, FoldAgentsAdds
  <1> DEFINE sessions == t.sessions + ClampCount(i.sessions)
  <1>6. new = [t EXCEPT !.reports = @ + 1, !.sessions = sessions, !.byAgent = byAgent]
    BY DEF FoldReport, Totals
  <1> HIDE DEF byAgent, new, sessions
  <1>7. /\ new \in Totals /\ new.reports = t.reports + 1
        /\ new.sessions = t.sessions + ClampCount(i.sessions) /\ new.byAgent = byAgent
        /\ new.installs = t.installs /\ new.updates = t.updates
        /\ new.installsByAgent = t.installsByAgent
    <2>1. t.reports + 1 \in Nat /\ sessions \in Nat /\ byAgent \in [Names -> Nat]
      BY <1>2, <1>5, TotalsFields DEF sessions, Maps
    <2> QED
      BY <1>6, <2>1 DEF Totals, sessions
  <1>8. FoldItem(t, i) = new
    BY <1>1 DEF FoldItem, new
  <1>9. ASSUME NEW s \in Seq(Items), ExactReports(t, s) PROVE ExactReports(new, Append(s, i))
    <2>1. /\ t.reports = Len(s) /\ t.sessions = SumBy(s, SessionsOf)
          /\ SumFunction(t.byAgent) = SumBy(s, CountsOf) /\ Few(t.byAgent)
      BY <1>9, ExactValues
    <2>2. Append(s, i) \in Seq(Items) /\ Len(Append(s, i)) = Len(s) + 1
      BY <1>1
    <2>3. SumBy(Append(s, i), SessionsOf) = SumBy(s, SessionsOf) + ClampCount(i.sessions)
      BY <1>1, SumGrows DEF SessionsOf
    <2>4. SumBy(Append(s, i), CountsOf) = SumBy(s, CountsOf) + Counts(i)
      BY <1>1, SumGrows DEF CountsOf
    <2> QED
      BY <1>5, <1>7, <2>1, <2>2, <2>3, <2>4, ExactValues
  <1>10. ASSUME NEW s \in Seq(Items), ExactEvents(t, s) PROVE ExactEvents(new, s)
    BY <1>7, <1>10 DEF ExactEvents
  <1> QED
    BY <1>7, <1>8, <1>9, <1>10

(* An event counts once, an install with its agents, and no report does. *)
LEMMA EventCounts ==
    ASSUME NEW t \in Totals, NEW i \in Of("events")
    PROVE  /\ FoldItem(t, i) \in Totals
           /\ \A s \in Seq(Items) :
                 ExactEvents(t, s) => ExactEvents(FoldItem(t, i), Append(s, i))
           /\ \A s \in Seq(Items) : ExactReports(t, s) => ExactReports(FoldItem(t, i), s)
  <1> DEFINE byAgent == FoldAgents(t.installsByAgent, i.agents)
             new == FoldEvent(t, i)
  <1>1. i \in Items /\ i.kind # "report" /\ \A n \in DOMAIN i.agents : i.agents[n][2] = 1
    BY OfBuffer DEF Of, Counted
  <1>2. i.agents \in Seq(Names \X Int) /\ DOMAIN i.agents = 1..Len(i.agents)
    BY <1>1, ItemFields
  <1>3. t.installsByAgent \in Maps
    BY DEF Totals, Maps
  <1>4. i.agents \in Seq(Entries)
    <2>1. ASSUME NEW n \in 1..Len(i.agents) PROVE i.agents[n] \in Entries
      <3>1. i.agents[n] \in Names \X Int
        BY <1>2
      <3>2. i.agents[n][2] = 1
        BY <1>1, <1>2
      <3> QED
        BY <3>1, <3>2 DEF Entries
    <2> DEFINE agents == i.agents
    <2>2. agents \in Seq(Names \X Int) /\ \A n \in 1..Len(agents) : agents[n] \in Entries
      BY <1>2, <2>1
    <2> HIDE DEF agents
    <2>3. agents \in Seq(Entries)
      BY <2>2
    <2> QED
      BY <2>3 DEF agents
  <1>5. CountsIn(i.agents, Len(i.agents)) = ClampsIn(i.agents, Len(i.agents))
    <2>1. ClampCount(1) = 1
      BY ClampedCount
    <2> QED
      BY <1>1, <1>2, <2>1 DEF CountsIn, ClampsIn
  <1>6. /\ byAgent \in Maps /\ SumFunction(byAgent) = SumFunction(t.installsByAgent) + Counts(i)
        /\ Few(t.installsByAgent) => Few(byAgent)
    BY <1>1, <1>3, <1>4, <1>5, FoldAgentsAdds, CountsAre
  <1>7. FoldItem(t, i) = new
    BY <1>1 DEF FoldItem
  <1>8. new = IF i.kind = "install"
              THEN [t EXCEPT !.installs = @ + 1, !.installsByAgent = byAgent]
              ELSE [t EXCEPT !.updates = @ + 1]
    BY DEF FoldEvent
  <1> HIDE DEF byAgent, new
  <1>9. /\ new \in Totals /\ new.reports = t.reports /\ new.sessions = t.sessions
        /\ new.byAgent = t.byAgent
    <2>1. t.installs + 1 \in Nat /\ t.updates + 1 \in Nat /\ byAgent \in [Names -> Nat]
      BY <1>6, TotalsFields DEF Maps
    <2> QED
      BY <1>8, <2>1 DEF Totals
  <1>10. ASSUME NEW s \in Seq(Items), ExactEvents(t, s) PROVE ExactEvents(new, Append(s, i))
    <2>1. /\ t.installs + t.updates = Len(s) /\ t.installs = SumBy(s, InstallOf)
          /\ SumFunction(t.installsByAgent) = SumBy(s, InstallCountsOf) /\ Few(t.installsByAgent)
      BY <1>10, ExactValues
    <2>2. Append(s, i) \in Seq(Items) /\ Len(Append(s, i)) = Len(s) + 1
      BY <1>1
    <2>3. SumBy(Append(s, i), InstallOf) = SumBy(s, InstallOf) + IfInstall(i, 1)
      BY <1>1, SumGrows DEF InstallOf
    <2>4. SumBy(Append(s, i), InstallCountsOf) = SumBy(s, InstallCountsOf) + IfInstall(i, Counts(i))
      BY <1>1, SumGrows DEF InstallCountsOf
    <2>5. SumBy(s, InstallOf) \in Int /\ SumBy(s, InstallCountsOf) \in Int
          /\ t.updates \in Nat /\ t.installs \in Nat
      BY <1>1, SumGrows, TotalsFields
    <2>6. CASE i.kind = "install"
      <3>1. new.installs = t.installs + 1 /\ new.updates = t.updates /\ new.installsByAgent = byAgent
        BY <1>8, <2>6 DEF Totals
      <3>2. IfInstall(i, 1) = 1 /\ IfInstall(i, Counts(i)) = Counts(i)
        BY <2>6 DEF IfInstall
      <3>3. /\ new.installs + new.updates = Len(Append(s, i))
            /\ new.installs = SumBy(Append(s, i), InstallOf)
            /\ SumFunction(new.installsByAgent) = SumBy(Append(s, i), InstallCountsOf)
            /\ Few(new.installsByAgent)
        BY <1>6, <2>1, <2>2, <2>3, <2>4, <2>5, <3>1, <3>2
      <3> QED
        BY <2>2, <3>3, ExactValues
    <2>7. CASE i.kind # "install"
      <3>1. /\ new.installs = t.installs /\ new.updates = t.updates + 1
            /\ new.installsByAgent = t.installsByAgent
        BY <1>8, <2>7 DEF Totals
      <3>2. IfInstall(i, 1) = 0 /\ IfInstall(i, Counts(i)) = 0
        BY <2>7 DEF IfInstall
      <3>3. /\ new.installs + new.updates = Len(Append(s, i))
            /\ new.installs = SumBy(Append(s, i), InstallOf)
            /\ SumFunction(new.installsByAgent) = SumBy(Append(s, i), InstallCountsOf)
            /\ Few(new.installsByAgent)
        BY <2>1, <2>2, <2>3, <2>4, <2>5, <3>1, <3>2
      <3> QED
        BY <2>2, <3>3, ExactValues
    <2> QED
      BY <2>6, <2>7
  <1>11. ASSUME NEW s \in Seq(Items), ExactReports(t, s) PROVE ExactReports(new, s)
    BY <1>9, <1>11 DEF ExactReports
  <1> QED
    BY <1>7, <1>9, <1>10, <1>11

-----------------------------------------------------------------------------
(* Whole buffers *)

(* The part of the totals that is about a buffer's items. *)
ExactFor(b, totals, items) ==
    IF b = "reports" THEN ExactReports(totals, items) ELSE ExactEvents(totals, items)

(* An item is counted in its own part of the totals. *)
LEMMA ItemCounts ==
    ASSUME NEW t \in Totals, NEW i \in Counted
    PROVE  /\ FoldItem(t, i) \in Totals
           /\ \A s \in Seq(Items) : ExactFor(BufferOf(i), t, s)
                 => ExactFor(BufferOf(i), FoldItem(t, i), Append(s, i))
           /\ \A s \in Seq(Items), b \in Buffers \ {BufferOf(i)} :
                 ExactFor(b, t, s) => ExactFor(b, FoldItem(t, i), s)
  <1>1. CASE BufferOf(i) = "reports"
    <2>1. i \in Of("reports") /\ Buffers \ {BufferOf(i)} = {"events"}
      BY <1>1, OfBuffer DEF Buffers
    <2> QED
      BY <1>1, <2>1, ReportCounts DEF ExactFor
  <1>2. CASE BufferOf(i) = "events"
    <2>1. i \in Of("events") /\ Buffers \ {BufferOf(i)} = {"reports"}
      BY <1>2, OfBuffer DEF Buffers
    <2> QED
      BY <1>2, <2>1, EventCounts DEF ExactFor
  <1> QED
    BY <1>1, <1>2, OfBuffer DEF Buffers

FoldsItems(totals, items, h) ==
    h = [S \in SUBSET DOMAIN items |->
            IF S = {} THEN totals ELSE FoldItem(h[S \ {Max(S)}], items[Max(S)])]

(* Folding a buffer is a run of FoldItem over its items. *)
LEMMA FoldItemsRun ==
    ASSUME NEW totals \in Totals, NEW items \in Seq(Counted)
    PROVE  \E p \in [0..Len(items) -> Totals] :
              /\ p[0] = totals /\ p[Len(items)] = FoldLeft(FoldItem, totals, items)
              /\ \A n \in 1..Len(items) : p[n] = FoldItem(p[n - 1], items[n])
  <1> DEFINE last == Len(items)
             step == [x \in Totals \X (1..last) |-> FoldItem(x[1], items[x[2]])]
             h == CHOOSE h : FoldsItems(totals, items, h)
  <1>1. DOMAIN items = 1..last /\ last \in Nat /\ \A n \in 1..last : items[n] \in Counted
    OBVIOUS
  <1>2. step \in [Totals \X (1..last) -> Totals]
    BY <1>1, ItemCounts
  <1>3. \A x \in Totals, n \in 1..last : step[<<x, n>>] = FoldItem(x, items[n])
    OBVIOUS
  <1> HIDE DEF step, last
  <1>4. PICK g \in [SUBSET (1..last) -> Totals] : TakesLast(step, totals, last, g)
    BY <1>1, <1>2, FoldExists
  <1>5. FoldsItems(totals, items, g)
    <2> DEFINE f == [S \in SUBSET DOMAIN items |->
                       IF S = {} THEN totals ELSE FoldItem(g[S \ {Max(S)}], items[Max(S)])]
    <2>1. \A S \in SUBSET (1..last) : g[S] = f[S]
      BY <1>1, <1>3, <1>4, LastOfSet DEF TakesLast
    <2>2. g = f
      BY <1>1, <2>1
    <2> QED
      BY <2>2 DEF FoldsItems
  <1>6. FoldsItems(totals, items, h)
    BY <1>5, Zenon
  <1>7. FoldLeft(FoldItem, totals, items) = h[DOMAIN items]
    BY Zenon DEF FoldLeft, MapThenFoldSet, FoldsItems
  <1> HIDE DEF h
  <1>8. FoldsOver(Totals, step, totals, last, h)
    <2>1. \A S \in SUBSET (1..last) :
              h[S] = IF S = {} THEN totals ELSE FoldItem(h[S \ {Max(S)}], items[Max(S)])
      BY <1>1, <1>6 DEF FoldsItems
    <2> QED
      BY <1>1, <1>3, <2>1, LastOfSet DEF FoldsOver
  <1>9. PICK p : IsRun(Totals, step, totals, last, p, h[1..last])
    BY <1>1, <1>2, <1>8, RunOf
  <1>10. ASSUME NEW n \in 1..last PROVE p[n] = FoldItem(p[n - 1], items[n])
    <2>1. n - 1 \in 0..last
      BY <1>1
    <2> QED
      BY <1>3, <1>9, <2>1 DEF IsRun
  <1> QED
    BY <1>1, <1>7, <1>9, <1>10 DEF IsRun, last

(* Folding a buffer counts all of its items, and changes no other part. *)
LEMMA FoldItemsCounts ==
    ASSUME NEW t \in Totals, NEW b \in Buffers, NEW items \in Seq(Of(b))
    PROVE  /\ FoldLeft(FoldItem, t, items) \in Totals
           /\ ExactFor(b, t, <<>>) => ExactFor(b, FoldLeft(FoldItem, t, items), items)
           /\ \A c \in Buffers \ {b} : \A s \in Seq(Items) :
                 ExactFor(c, t, s) => ExactFor(c, FoldLeft(FoldItem, t, items), s)
  <1> DEFINE last == Len(items)
             First(n) == SubSeq(items, 1, n)
  <1>1. last \in Nat /\ \A n \in 1..last : items[n] \in Counted /\ BufferOf(items[n]) = b
    BY DEF Of
  <1>2. items \in Seq(Counted) /\ items \in Seq(Items)
    <2>1. \A n \in 1..last : items[n] \in Counted /\ items[n] \in Items
      BY <1>1 DEF Counted
    <2> QED
      BY <2>1
  <1>3. PICK p \in [0..last -> Totals] :
            /\ p[0] = t /\ p[last] = FoldLeft(FoldItem, t, items)
            /\ \A n \in 1..last : p[n] = FoldItem(p[n - 1], items[n])
    BY <1>2, FoldItemsRun
  <1>4. First(0) = <<>> /\ First(last) = items
    BY <1>2
  <1>5. ASSUME NEW n \in 0..last PROVE First(n) \in Seq(Items)
    BY <1>2, <1>5
  <1>6. ASSUME NEW n \in Nat, n + 1 <= last
        PROVE  First(n + 1) = Append(First(n), items[n + 1])
    BY <1>2, <1>6
  <1> DEFINE Follows(n) ==
                /\ ExactFor(b, t, <<>>) => ExactFor(b, p[n], First(n))
                /\ \A c \in Buffers \ {b} : \A s \in Seq(Items) :
                      ExactFor(c, t, s) => ExactFor(c, p[n], s)
             N == {n \in Nat : n <= last => Follows(n)}
  <1> HIDE DEF last, First
  <1>7. 0 \in N
    BY <1>3, <1>4
  <1>8. ASSUME NEW n \in Nat, n \in N PROVE n + 1 \in N
    <2> SUFFICES ASSUME n + 1 <= last PROVE Follows(n + 1)
      OBVIOUS
    <2>1. n <= last /\ n \in 0..last /\ n + 1 \in 1..last /\ (n + 1) - 1 = n
      BY <1>1
    <2> DEFINE i == items[n + 1]
    <2>2. i \in Counted /\ BufferOf(i) = b /\ p[n] \in Totals /\ p[n + 1] = FoldItem(p[n], i)
      BY <1>1, <1>3, <2>1
    <2>3. First(n) \in Seq(Items) /\ First(n + 1) = Append(First(n), i)
      BY <1>5, <1>6, <2>1
    <2>4. Follows(n)
      BY <1>8, <2>1
    <2> HIDE DEF i, N
    <2> QED
      BY <2>2, <2>3, <2>4, ItemCounts
  <1> HIDE DEF N, Follows
  <1>9. last \in N
    <2>1. Nat \subseteq N
      BY <1>7, <1>8, NatSetInduction
    <2> QED
      BY <1>1, <2>1
  <1>10. Follows(last) /\ p[last] \in Totals
    BY <1>1, <1>3, <1>9 DEF N
  <1> QED
    BY <1>3, <1>4, <1>10 DEF Follows

-----------------------------------------------------------------------------
(* Buffers hold the latest items *)

(* A suffix, position by position. *)
LEMMA SuffixIs ==
    ASSUME NEW E, NEW s \in Seq(E), NEW t \in Seq(E)
    PROVE  IsSuffix(s, t) <=>
              /\ Len(s) <= Len(t)
              /\ \A k \in 1..Len(s) : s[k] = t[Len(t) - Len(s) + k]
  <1> DEFINE r == Reverse(s)
             q == Reverse(t)
             m == Len(s)
             n == Len(t)
  <1>1. m \in Nat /\ n \in Nat /\ \A k \in 1..n : t[k] \in E
    OBVIOUS
  <1>2. \A k \in 1..m : s[k] \in E
    OBVIOUS
  <1>3. r = [k \in 1..m |-> s[(m - k) + 1]] /\ q = [k \in 1..n |-> t[(n - k) + 1]]
    BY DEF Reverse
  <1> HIDE DEF r, q, m, n
  <1>4. r \in Seq(E) /\ Len(r) = m /\ \A k \in 1..m : r[k] = s[(m - k) + 1]
    BY <1>1, <1>2, <1>3
  <1>5. q \in Seq(E) /\ Len(q) = n /\ \A k \in 1..n : q[k] = t[(n - k) + 1]
    BY <1>1, <1>3
  <1>6. IsSuffix(s, t) <=> m <= n /\ SubSeq(r, 1, m) = SubSeq(q, 1, m)
    BY <1>4, <1>5 DEF IsSuffix, IsPrefix, r, q
  <1>7. ASSUME m <= n
        PROVE  SubSeq(r, 1, m) = SubSeq(q, 1, m) <=> \A k \in 1..m : r[k] = q[k]
    <2>1. \A k \in 1..m : k \in 1..n
      BY <1>1, <1>7
    <2>2. SubSeq(r, 1, m) \in Seq(E) /\ SubSeq(q, 1, m) \in Seq(E)
          /\ Len(SubSeq(r, 1, m)) = m /\ Len(SubSeq(q, 1, m)) = m
          /\ \A k \in 1..m : SubSeq(r, 1, m)[k] = r[k] /\ SubSeq(q, 1, m)[k] = q[k]
      BY <1>1, <1>4, <1>5, <1>7
    <2> DEFINE a == SubSeq(r, 1, m)
               b == SubSeq(q, 1, m)
    <2> HIDE DEF a, b
    <2>3. a \in Seq(E) /\ b \in Seq(E) /\ Len(a) = m /\ Len(b) = m
          /\ \A k \in 1..m : a[k] = r[k] /\ b[k] = q[k]
      BY <2>2 DEF a, b
    <2>4. a = b <=> \A k \in 1..m : a[k] = b[k]
      BY <2>3
    <2> QED
      BY <2>3, <2>4 DEF a, b
  <1>8. ASSUME m <= n
        PROVE  (\A k \in 1..m : r[k] = q[k]) <=> \A k \in 1..m : s[k] = t[n - m + k]
    <2>1. \A k \in 1..m : k \in 1..n /\ (m - k) + 1 \in 1..m
          /\ (m - ((m - k) + 1)) + 1 = k /\ (n - ((m - k) + 1)) + 1 = n - m + k
          /\ n - m + ((m - k) + 1) = (n - k) + 1
      BY <1>1, <1>8
    <2>2. ASSUME \A k \in 1..m : r[k] = q[k], NEW k \in 1..m PROVE s[k] = t[n - m + k]
      <3> DEFINE j == (m - k) + 1
      <3>1. j \in 1..m /\ j \in 1..n /\ (m - j) + 1 = k /\ (n - j) + 1 = n - m + k
        BY <2>1
      <3> HIDE DEF j
      <3> QED
        BY <1>4, <1>5, <2>2, <3>1
    <2>3. ASSUME \A k \in 1..m : s[k] = t[n - m + k], NEW k \in 1..m PROVE r[k] = q[k]
      <3> DEFINE j == (m - k) + 1
      <3>1. j \in 1..m /\ k \in 1..n /\ n - m + j = (n - k) + 1
        BY <2>1
      <3>2. r[k] = s[j] /\ q[k] = t[(n - k) + 1] /\ s[j] = t[n - m + j]
        BY <1>4, <1>5, <2>3, <3>1
      <3> QED
        BY <3>1, <3>2
    <2> QED
      BY <2>2, <2>3
  <1> QED
    BY <1>6, <1>7, <1>8 DEF m, n

RecentIn(buffer, received) ==
    /\ IsSuffix(buffer, received)
    /\ Len(buffer) < MaxBuffer => buffer = received

LEMMA WholeIsRecent == ASSUME NEW s \in Seq(Items) PROVE RecentIn(s, s)
  <1>1. Len(s) <= Len(s) /\ \A k \in 1..Len(s) : s[k] = s[Len(s) - Len(s) + k]
    OBVIOUS
  <1> QED
    BY <1>1, SuffixIs DEF RecentIn

(* A trimmed buffer still holds the latest items. *)
LEMMA TrimmedIsRecent ==
    ASSUME NEW s \in Seq(Items), NEW t \in Seq(Items), NEW i \in Items,
           RecentIn(s, t), Len(s) <= MaxBuffer
    PROVE  /\ Trim(Append(s, i)) \in Seq(Items) /\ Len(Trim(Append(s, i))) <= MaxBuffer
           /\ RecentIn(Trim(Append(s, i)), Append(t, i))
  <1> DEFINE a == Append(s, i)
             b == Append(t, i)
             m == Len(s)
             n == Len(t)
  <1>0. MaxBuffer \in Nat
    BY BoundsAssumption
  <1>1. m \in Nat /\ n \in Nat /\ m <= MaxBuffer
    OBVIOUS
  <1>2. m <= n /\ \A k \in 1..m : s[k] = t[n - m + k]
    BY SuffixIs DEF RecentIn
  <1>3. a \in Seq(Items) /\ Len(a) = m + 1 /\ a[m + 1] = i /\ \A k \in 1..m : a[k] = s[k]
    OBVIOUS
  <1>4. b \in Seq(Items) /\ Len(b) = n + 1 /\ b[n + 1] = i /\ \A k \in 1..n : b[k] = t[k]
    OBVIOUS
  <1>5. m < MaxBuffer => a = b
    BY DEF RecentIn
  <1> HIDE DEF a, b, m, n
  <1>6. \A k \in 1..(m + 1) : a[k] = b[(n + 1) - (m + 1) + k]
    <2> TAKE k \in 1..(m + 1)
    <2>1. CASE k = m + 1
      <3>1. (n + 1) - (m + 1) + k = n + 1
        BY <1>1, <2>1
      <3> QED
        BY <1>3, <1>4, <2>1, <3>1
    <2>2. CASE k # m + 1
      <3>1. k \in 1..m /\ n - m + k \in 1..n /\ (n + 1) - (m + 1) + k = n - m + k
        BY <1>1, <1>2, <2>2
      <3> QED
        BY <1>2, <1>3, <1>4, <3>1
    <2> QED
      BY <2>1, <2>2
  <1>7. CASE m < MaxBuffer
    <2>1. Trim(a) = a
      BY <1>0, <1>1, <1>3, <1>7 DEF Trim
    <2>2. RecentIn(a, b)
      BY <1>3, <1>5, <1>7, WholeIsRecent
    <2> QED
      BY <1>0, <1>1, <1>3, <1>7, <2>1, <2>2 DEF a, b
  <1>8. CASE m = MaxBuffer
    <2> DEFINE c == SubSeq(a, 2, m + 1)
    <2>1. Trim(a) = c
      BY <1>0, <1>1, <1>3, <1>8 DEF Trim
    <2>2. c \in Seq(Items) /\ Len(c) = m /\ \A k \in 1..m : c[k] = a[k + 1]
      BY <1>1, <1>3
    <2> HIDE DEF c
    <2>3. Len(c) <= Len(b)
      BY <1>1, <1>2, <1>4, <2>2
    <2>4. \A k \in 1..m : c[k] = b[Len(b) - m + k]
      <3> TAKE k \in 1..m
      <3>1. k + 1 \in 1..(m + 1) /\ (n + 1) - (m + 1) + (k + 1) = (n + 1) - m + k
        BY <1>1
      <3> QED
        BY <1>4, <1>6, <2>2, <3>1
    <2>5. IsSuffix(c, b)
      BY <1>4, <2>2, <2>3, <2>4, SuffixIs
    <2> QED
      BY <1>0, <1>8, <2>1, <2>2, <2>5 DEF RecentIn, a, b
  <1> QED
    BY <1>0, <1>1, <1>7, <1>8

-----------------------------------------------------------------------------
(* Rows with exact totals *)

Sound(d) == d \in Data /\ Exact(d) /\ \A b \in Buffers : Len(d.buffer[b]) <= MaxBuffer

LEMMA DataFields ==
    ASSUME NEW d \in Data
    PROVE  /\ d.schema \in 0..SchemaVersion + 1 /\ d.signed \in SUBSET Keys
           /\ d.totals \in Totals /\ d.folded \in SUBSET Buffers
           /\ d.buffer \in [Buffers -> Seq(Items)] /\ d.received \in [Buffers -> Seq(Items)]
           /\ d = [schema |-> d.schema, signed |-> d.signed, totals |-> d.totals,
                   buffer |-> d.buffer, folded |-> d.folded, received |-> d.received]
  BY DEF Data

LEMMA ExactIs ==
    ASSUME NEW d
    PROVE  Exact(d) <=> \A b \in Buffers : /\ ExactFor(b, d.totals, d.received[b])
                                           /\ RecentIn(d.buffer[b], d.received[b])
  BY DEF Exact, ExactFor, Recent, RecentIn, Buffers

(* The version and the identities do not matter. *)
LEMMA SoundAlike ==
    ASSUME NEW d, Sound(d), NEW v \in 0..SchemaVersion + 1, NEW k \in SUBSET Keys,
           NEW e, e = [d EXCEPT !.schema = v, !.signed = k]
    PROVE  Sound(e) /\ e.schema = v /\ e.signed = k /\ e.received = d.received
  <1>1. /\ e \in Data /\ e.totals = d.totals /\ e.buffer = d.buffer /\ e.received = d.received
        /\ e.schema = v /\ e.signed = k
    BY DEF Sound, Data
  <1> QED
    BY <1>1, ExactIs DEF Sound

(* What a route keeps of an item is an item that can be counted. *)
LEMMA CleanCounted ==
    ASSUME NEW i \in Counted PROVE Clean(i) \in Counted
  <1> DEFINE agents == i.agents
  <1>1. i \in Items /\ agents \in Seq(Names \X Int) /\ DOMAIN agents = 1..Len(agents)
        /\ Len(agents) \in Nat
    BY ItemFields DEF Counted
  <1>2. \A m \in Nat : Min({Len(agents), m}) \in 0..Len(agents)
    <2> TAKE m \in Nat
    <2>1. Min({Len(agents), m}) = IF Len(agents) <= m THEN Len(agents) ELSE m
      BY <1>1, Z3 DEF Min
    <2> QED
      BY <1>1, <2>1
  <1>3. ASSUME NEW n \in 0..Len(agents)
        PROVE  /\ SubSeq(agents, 1, n) \in Seq(Names \X Int)
               /\ DOMAIN SubSeq(agents, 1, n) = 1..n
               /\ \A k \in 1..n : SubSeq(agents, 1, n)[k] = agents[k]
    BY <1>1, <1>3
  <1> HIDE DEF agents
  <1>4. CASE i.kind = "report"
    <2> DEFINE s == ClampCount(i.sessions)
               a == Clamped(SubSeq(agents, 1, Min({Len(agents), MaxAgentKeys})))
    <2>1. s \in Int
      BY <1>1, ItemFields, ClampedCount
    <2>2. a \in Seq(Names \X Int)
      <3>1. a \in Seq(Entries)
        BY <1>2, <1>3, ClampedAdds, BoundsAssumption
      <3>2. Entries \subseteq Names \X Int
        BY DEF Entries
      <3> HIDE DEF a
      <3> QED
        BY <3>1, <3>2
    <2>3. Clean(i) = [i EXCEPT !.sessions = s, !.agents = a]
      BY <1>1, <1>4 DEF Clean, Items, agents
    <2> HIDE DEF s, a
    <2> QED
      BY <1>1, <1>4, <2>1, <2>2, <2>3 DEF Counted, Items
  <1>5. CASE i.kind # "report"
    <2> DEFINE n == Min({Len(agents), MaxEventAgents})
               a == SubSeq(agents, 1, n)
    <2>1. n \in 0..Len(agents)
      BY <1>2, BoundsAssumption
    <2>2. a \in Seq(Names \X Int) /\ DOMAIN a = 1..n /\ \A k \in 1..n : a[k] = agents[k]
      BY <1>3, <2>1
    <2>3. Clean(i) = [i EXCEPT !.agents = a]
      BY <1>1, <1>5 DEF Clean, Items, agents
    <2>4. \A k \in 1..Len(agents) : agents[k][2] = 1
      BY <1>1, <1>5 DEF Counted, agents
    <2> HIDE DEF n, a
    <2>5. \A k \in DOMAIN a : a[k][2] = 1
      BY <1>1, <2>1, <2>2, <2>4
    <2> QED
      BY <1>1, <1>5, <2>2, <2>3, <2>5 DEF Counted, Items
  <1> QED
    BY <1>4, <1>5

(* An item that is received is counted once, and remembered while there is room. *)
LEMMA AddedSound ==
    ASSUME NEW d, Sound(d), NEW i \in Counted
    PROVE  Sound(Added(d, i))
  <1> DEFINE c == BufferOf(i)
             totals == FoldItem(d.totals, i)
             buffer == [d.buffer EXCEPT ![c] = Trim(Append(@, i))]
             received == [d.received EXCEPT ![c] = Append(@, i)]
             e == Added(d, i)
  <1>1. /\ d.totals \in Totals /\ d.buffer \in [Buffers -> Seq(Items)]
        /\ d.received \in [Buffers -> Seq(Items)]
        /\ \A b \in Buffers : Len(d.buffer[b]) <= MaxBuffer
    BY DataFields DEF Sound
  <1>2. \A b \in Buffers : /\ ExactFor(b, d.totals, d.received[b])
                           /\ RecentIn(d.buffer[b], d.received[b])
    BY ExactIs DEF Sound
  <1>3. c \in Buffers /\ i \in Items
    BY OfBuffer DEF Counted
  <1>4. e = [d EXCEPT !.totals = totals, !.buffer = buffer, !.received = received]
    BY DEF Added, Sound, Data
  <1> HIDE DEF c
  <1>5. /\ Trim(Append(d.buffer[c], i)) \in Seq(Items)
        /\ Len(Trim(Append(d.buffer[c], i))) <= MaxBuffer
        /\ RecentIn(Trim(Append(d.buffer[c], i)), Append(d.received[c], i))
    BY <1>1, <1>2, <1>3, TrimmedIsRecent
  <1>6. /\ buffer \in [Buffers -> Seq(Items)] /\ buffer[c] = Trim(Append(d.buffer[c], i))
        /\ \A b \in Buffers \ {c} : buffer[b] = d.buffer[b]
    BY <1>1, <1>3, <1>5
  <1>7. /\ received \in [Buffers -> Seq(Items)] /\ received[c] = Append(d.received[c], i)
        /\ \A b \in Buffers \ {c} : received[b] = d.received[b]
    BY <1>1, <1>3
  <1>8. /\ totals \in Totals
        /\ ExactFor(c, totals, Append(d.received[c], i))
        /\ \A b \in Buffers \ {c} : ExactFor(b, totals, d.received[b])
    BY <1>1, <1>2, <1>3, ItemCounts DEF c
  <1> HIDE DEF totals, buffer, received, e
  <1>9. e \in Data /\ e.totals = totals /\ e.buffer = buffer /\ e.received = received
    BY <1>4, <1>6, <1>7, <1>8 DEF Sound, Data
  <1>10. ASSUME NEW b \in Buffers
         PROVE  /\ ExactFor(b, totals, received[b]) /\ RecentIn(buffer[b], received[b])
                /\ Len(buffer[b]) <= MaxBuffer
    BY <1>1, <1>2, <1>5, <1>6, <1>7, <1>8
  <1> QED
    BY <1>9, <1>10, ExactIs DEF Sound, e

-----------------------------------------------------------------------------
(* The stores of older servers *)

LEMMA SumOfZeros ==
    ASSUME NEW S, IsFiniteSet(S), NEW f, DOMAIN f = S, \A x \in S : f[x] = 0
    PROVE  SumFunction(f) = 0
  <1>1. PICK g : Adds(f, S, g) /\ SumFunctionOnSet(f, S) = g[S]
    BY SumOf
  <1> DEFINE T == {s \in SUBSET S : g[s] = 0}
  <1>2. {} \in T
    BY <1>1, AddsFacts
  <1>3. ASSUME NEW A \in SUBSET S, A # {}, \A x \in A : A \ {x} \in T PROVE A \in T
    <2>1. Choice(A) \in A /\ g[A] = f[Choice(A)] + g[A \ {Choice(A)}]
      BY <1>1, <1>3, ChoiceIn, AddsFacts
    <2> QED
      BY <1>3, <2>1
  <1> HIDE DEF T
  <1>4. SUBSET S \subseteq T
    BY <1>2, <1>3, SubsetInduction
  <1> QED
    BY <1>1, <1>4 DEF T, SumFunction

(* No totals stand for no items. *)
LEMMA NothingIsExact == NoTotals \in Totals /\ \A b \in Buffers : ExactFor(b, NoTotals, <<>>)
  <1> DEFINE none == [a \in Names |-> 0]
  <1>1. SumFunction(none) = 0
    BY NamesAreFinite, SumOfZeros
  <1>2. Few(none)
    <2>1. Named(none) = {}
      BY DEF Named
    <2> QED
      BY <2>1, FS_EmptySet, BoundsAssumption DEF Few
  <1>3. <<>> \in Seq(Items) /\ Len(<<>>) = 0 /\ DOMAIN <<>> = {}
    OBVIOUS
  <1>4. ASSUME NEW v PROVE SumBy(<<>>, v) = 0
    BY <1>3, SumNone DEF SumBy
  <1> HIDE DEF none
  <1>5. /\ NoTotals.reports = 0 /\ NoTotals.sessions = 0 /\ NoTotals.installs = 0
        /\ NoTotals.updates = 0 /\ NoTotals.byAgent = none /\ NoTotals.installsByAgent = none
    BY DEF NoTotals, none
  <1>6. ExactReports(NoTotals, <<>>) /\ ExactEvents(NoTotals, <<>>)
    <2>1. /\ SumBy(<<>>, SessionsOf) = 0 /\ SumBy(<<>>, CountsOf) = 0
          /\ SumBy(<<>>, InstallOf) = 0 /\ SumBy(<<>>, InstallCountsOf) = 0
      BY <1>4
    <2>2. /\ NoTotals.reports = Len(<<>>) /\ NoTotals.sessions = SumBy(<<>>, SessionsOf)
          /\ SumFunction(NoTotals.byAgent) = SumBy(<<>>, CountsOf) /\ Few(NoTotals.byAgent)
      BY <1>1, <1>2, <1>3, <1>5, <2>1
    <2>3. /\ NoTotals.installs + NoTotals.updates = Len(<<>>)
          /\ NoTotals.installs = SumBy(<<>>, InstallOf)
          /\ SumFunction(NoTotals.installsByAgent) = SumBy(<<>>, InstallCountsOf)
          /\ Few(NoTotals.installsByAgent)
      BY <1>1, <1>2, <1>3, <1>5, <2>1
    <2> QED
      BY <1>3, <2>2, <2>3, ExactValues
  <1>7. NoTotals \in Totals
    BY DEF NoTotals, Totals
  <1> QED
    BY <1>6, <1>7 DEF ExactFor

(* Every item is still in its buffer, and counted if the buffer was folded. *)
Whole(d) ==
    /\ d \in Data
    /\ \A b \in Buffers :
          /\ d.buffer[b] = d.received[b] /\ d.received[b] \in Seq(Of(b))
          /\ Len(d.received[b]) <= MaxBuffer
          /\ ExactFor(b, d.totals, IF b \in d.folded THEN d.received[b] ELSE <<>>)

(* Folding a buffer keeps the store whole, and is needed once only. *)
LEMMA FoldedIsWhole ==
    ASSUME NEW d, Whole(d), NEW b \in Buffers
    PROVE  /\ Whole(FoldBuffer(d, b)) /\ ~NeedsFold(FoldBuffer(d, b), b)
           /\ \A c \in Buffers : ~NeedsFold(d, c) => ~NeedsFold(FoldBuffer(d, b), c)
  <1>1. CASE ~NeedsFold(d, b)
    BY <1>1 DEF FoldBuffer
  <1>2. CASE NeedsFold(d, b)
    <2> DEFINE totals == FoldLeft(FoldItem, d.totals, d.buffer[b])
               e == FoldBuffer(d, b)
    <2>1. b \notin d.folded
      BY <1>2 DEF NeedsFold
    <2>2. /\ d.totals \in Totals /\ d.received \in [Buffers -> Seq(Items)]
          /\ d.buffer[b] = d.received[b] /\ d.received[b] \in Seq(Of(b))
          /\ ExactFor(b, d.totals, <<>>)
      BY <2>1, DataFields DEF Whole
    <2>3. e = [d EXCEPT !.totals = totals, !.folded = @ \cup {b}]
      BY <1>2 DEF FoldBuffer
    <2>4. /\ totals \in Totals /\ ExactFor(b, totals, d.received[b])
          /\ \A c \in Buffers \ {b} : \A s \in Seq(Items) :
                ExactFor(c, d.totals, s) => ExactFor(c, totals, s)
      BY <2>2, FoldItemsCounts
    <2> HIDE DEF totals, e
    <2>5. /\ e \in Data /\ e.totals = totals /\ e.buffer = d.buffer /\ e.received = d.received
          /\ e.folded = d.folded \cup {b}
      BY <2>3, <2>4 DEF Whole, Data
    <2>6. ASSUME NEW c \in Buffers
          PROVE  ExactFor(c, totals, IF c \in e.folded THEN d.received[c] ELSE <<>>)
      <3>1. CASE c = b
        BY <2>4, <2>5, <3>1
      <3>2. CASE c # b
        <4> DEFINE s == IF c \in d.folded THEN d.received[c] ELSE <<>>
        <4>1. s \in Seq(Items) /\ ExactFor(c, d.totals, s)
          BY <2>2 DEF Whole
        <4> QED
          BY <2>4, <2>5, <3>2, <4>1
      <3> QED
        BY <3>1, <3>2
    <2>7. Whole(e)
      BY <2>5, <2>6 DEF Whole
    <2> QED
      BY <2>5, <2>7 DEF NeedsFold, e
  <1> QED
    BY <1>1, <1>2

(* An import counts what the older server did not. *)
LEMMA ImportedSound ==
    ASSUME NEW d, Whole(d) PROVE Whole(Imported(d)) /\ Sound(Imported(d))
  <1> DEFINE e == Imported(d)
  <1>1. "reports" \in Buffers /\ "events" \in Buffers /\ Buffers = {"reports", "events"}
    BY DEF Buffers
  <1>2. Whole(FoldBuffer(d, "reports")) /\ ~NeedsFold(FoldBuffer(d, "reports"), "reports")
    BY <1>1, FoldedIsWhole
  <1>3. Whole(e) /\ ~NeedsFold(e, "reports") /\ ~NeedsFold(e, "events")
    BY <1>1, <1>2, FoldedIsWhole DEF Imported
  <1> HIDE DEF e
  <1>4. e.received \in [Buffers -> Seq(Items)] /\ e \in Data
    BY <1>3, DataFields DEF Whole
  <1>5. ASSUME NEW b \in Buffers
        PROVE  ExactFor(b, e.totals, e.received[b]) /\ RecentIn(e.buffer[b], e.received[b])
               /\ Len(e.buffer[b]) <= MaxBuffer
    <2>1. ExactFor(b, e.totals, e.received[b])
      BY <1>1, <1>3 DEF Whole, NeedsFold
    <2> QED
      BY <1>3, <1>4, <2>1, WholeIsRecent DEF Whole
  <1>6. Sound(e)
    BY <1>4, <1>5, ExactIs DEF Sound
  <1> QED
    BY <1>3, <1>6 DEF e

LEMMA NoDataIs == Whole(NoData) /\ Sound(NoData)
  <1>1. NoData \in Data
    BY NothingIsExact DEF NoData, Data, SchemaVersion
  <1>2. \A b \in Buffers : NoData.buffer[b] = <<>> /\ NoData.received[b] = <<>>
    BY DEF NoData
  <1>3. NoData.totals = NoTotals /\ NoData.folded = {}
    BY DEF NoData
  <1>4. Len(<<>>) = 0 /\ \A S : <<>> \in Seq(S)
    OBVIOUS
  <1>5. Whole(NoData)
    <2>1. ASSUME NEW b \in Buffers
          PROVE  /\ NoData.buffer[b] = NoData.received[b] /\ NoData.received[b] \in Seq(Of(b))
                 /\ Len(NoData.received[b]) <= MaxBuffer
                 /\ ExactFor(b, NoData.totals, <<>>) /\ b \notin NoData.folded
      <3>1. NoData.received[b] = <<>> /\ NoData.buffer[b] = <<>>
        BY <1>2
      <3>2. <<>> \in Seq(Of(b)) /\ Len(<<>>) <= MaxBuffer
        BY <1>4, BoundsAssumption
      <3> QED
        BY <1>3, <3>1, <3>2, NothingIsExact
    <2> QED
      BY <1>1, <2>1 DEF Whole
  <1>6. Imported(NoData) = NoData
    BY <1>2 DEF Imported, FoldBuffer, NeedsFold, Buffers
  <1> QED
    BY <1>5, <1>6, ImportedSound

LEMMA LegacyIsWhole == ASSUME NEW d \in LegacyStores PROVE Whole(d)
  <1>1. ASSUME NEW u \in Untotalled PROVE Whole(u)
    <2>1. PICK h \in [Buffers -> UNION {[1..n -> Sent] : n \in 0..MaxBuffer}] :
              /\ \A b \in Buffers : \A n \in DOMAIN h[b] : BufferOf(h[b][n]) = b
              /\ u = [NoData EXCEPT !.signed = {1}, !.buffer = h, !.received = h]
      BY DEF Untotalled
    <2>2. MaxBuffer \in Nat /\ 1 \in Keys /\ Sent \subseteq Counted
      BY BoundsAssumption, SentAssumption DEF Keys, Counted
    <2>3. ASSUME NEW b \in Buffers PROVE h[b] \in Seq(Of(b)) /\ Len(h[b]) <= MaxBuffer
      <3>1. PICK n \in 0..MaxBuffer : h[b] \in [1..n -> Sent]
        OBVIOUS
      <3>2. n \in Nat /\ n <= MaxBuffer /\ DOMAIN h[b] = 1..n
        BY <2>2, <3>1
      <3>3. \A k \in 1..n : h[b][k] \in Of(b)
        BY <2>1, <2>2, <3>1, <3>2 DEF Of
      <3>4. h[b] \in [1..n -> Of(b)]
        BY <3>1, <3>3
      <3> QED
        BY <3>2, <3>4
    <2>4. \A b \in Buffers : h[b] \in Seq(Items)
      <3>1. \A b \in Buffers : Of(b) \subseteq Items
        BY DEF Of, Counted
      <3> QED
        BY <2>3, <3>1
    <2>5. h \in [Buffers -> Seq(Items)]
      BY <2>4
    <2>6. /\ u \in Data /\ u.buffer = h /\ u.received = h /\ u.totals = NoTotals /\ u.folded = {}
      <3>1. u = [schema |-> 0, signed |-> {1}, totals |-> NoTotals, buffer |-> h,
                 folded |-> {}, received |-> h]
        BY <2>1 DEF NoData
      <3>2. {1} \in SUBSET Keys /\ 0 \in 0..SchemaVersion + 1 /\ {} \in SUBSET Buffers
        BY <2>2 DEF SchemaVersion
      <3> QED
        BY <2>5, <3>1, <3>2, NothingIsExact DEF Data
    <2> QED
      BY <2>3, <2>6, NothingIsExact DEF Whole
  <1>2. "reports" \in Buffers
    BY DEF Buffers
  <1> QED
    BY <1>1, <1>2, FoldedIsWhole, ImportedSound DEF LegacyStores

-----------------------------------------------------------------------------
(* The totals through boots *)

(* The rows, those in memory and those of every backup are exact, and a     *)
(* JSON store holds every item its totals do not stand for.                *)
Ledger ==
    /\ Sound(disk) /\ Sound(mem) /\ Whole(json)
    /\ legacy \in [signed : SUBSET Keys, received : [Buffers -> Seq(Items)]]

Archive ==
    /\ backups \in [1..BackupsKept -> Backups]
    /\ \A i \in 1..BackupsKept : backups[i].boot > 0 => Sound(backups[i].rows)

Counters ==
    /\ {key, lost, minted} \subseteq Keys \cup {0}
    /\ latest \in 0..MaxBoots /\ boots \in 0..MaxBoots /\ (pc # "down" => boots > 0)
    /\ pc \in {"down"} \cup Loading \cup Synced
    /\ torn \in BOOLEAN /\ accepted \in BOOLEAN

TotalsInv == Ledger /\ Archive /\ Counters

LEMMA LedgerInit == Init => Ledger
  <1> SUFFICES ASSUME Init PROVE Ledger
    OBVIOUS
  <1>1. mem = NoData
    BY DEF Init
  <1>2. \/ json = NoData /\ disk = NoData /\ legacy = Left(NoData)
        \/ json \in LegacyStores /\ disk = NoData /\ legacy = Left(json)
        \/ /\ json = NoData
           /\ disk \in {[d EXCEPT !.schema = v] : d \in {d \in LegacyStores : Imported(d) = d},
                                                 v \in {1, SchemaVersion + 1}}
           /\ legacy = Left(disk)
    BY DEF Init
  <1>3. Whole(json)
    BY <1>2, NoDataIs, LegacyIsWhole
  <1>4. Sound(disk)
    <2>1. ASSUME NEW d \in LegacyStores, Imported(d) = d, NEW v \in {1, SchemaVersion + 1},
                 disk = [d EXCEPT !.schema = v]
          PROVE  Sound(disk)
      <3>1. Sound(d) /\ d \in Data
        BY <2>1, LegacyIsWhole, ImportedSound DEF Sound
      <3>2. d.signed \in SUBSET Keys /\ v \in 0..SchemaVersion + 1
        BY <3>1, DataFields DEF SchemaVersion
      <3>3. disk = [d EXCEPT !.schema = v, !.signed = d.signed]
        BY <2>1, <3>1 DEF Data
      <3> QED
        BY <3>1, <3>2, <3>3, SoundAlike
    <2> QED
      BY <1>2, <2>1, NoDataIs
  <1>5. \A d \in Data : Left(d) \in [signed : SUBSET Keys, received : [Buffers -> Seq(Items)]]
    BY DataFields DEF Left
  <1> QED
    BY <1>1, <1>2, <1>3, <1>4, <1>5, NoDataIs DEF Ledger, Sound, Whole

LEMMA TotalsInit == Init => TotalsInv
  <1> SUFFICES ASSUME Init PROVE TotalsInv
    OBVIOUS
  <1>1. NoBackup \in Backups /\ NoBackup.boot = 0
    BY DEF Backups, NoBackup
  <1>2. Archive
    BY <1>1 DEF Init, Archive
  <1>3. 1 \in Keys /\ MaxBoots \in Nat
    BY BoundsAssumption DEF Keys
  <1>4. Counters
    <2>1. minted \in {0, 1} /\ key = minted /\ lost = 0 /\ latest = 0 /\ boots = 0 /\ pc = "down"
          /\ torn = FALSE /\ accepted = FALSE
      BY DEF Init
    <2>2. 0 \in 0..MaxBoots
      BY <1>3
    <2> QED
      BY <1>3, <2>1, <2>2 DEF Counters
  <1> QED
    BY <1>2, <1>4, LedgerInit DEF TotalsInv

(* What a step does to the rows, and where the steps of a boot lead. *)
LEMMA LedgerStays == ASSUME Ledger, UNCHANGED store PROVE Ledger'
  BY DEF Ledger, store

LEMMA ArchiveStays == ASSUME Archive, UNCHANGED backups PROVE Archive'
  BY DEF Archive

LEMMA LadderTotals == ASSUME Ledger, Ladder PROVE Ledger'
  <1>1. /\ UNCHANGED <<legacy, json, mem>>
        /\ disk' = disk \/ disk' = [disk EXCEPT !.schema = SchemaVersion]
    BY DEF Ladder
  <1>2. Sound(disk')
    <2>1. CASE disk' = disk
      BY <2>1 DEF Ledger
    <2>2. CASE disk' = [disk EXCEPT !.schema = SchemaVersion]
      <3>1. disk.signed \in SUBSET Keys /\ SchemaVersion \in 0..SchemaVersion + 1
        BY DataFields DEF Ledger, Sound, SchemaVersion
      <3>2. disk' = [disk EXCEPT !.schema = SchemaVersion, !.signed = disk.signed]
        BY <2>2 DEF Ledger, Sound, Data
      <3> QED
        BY <3>1, <3>2, SoundAlike DEF Ledger
    <2> QED
      BY <1>1, <2>1, <2>2
  <1> QED
    BY <1>1, <1>2 DEF Ledger

LEMMA ImportTotals == ASSUME Ledger, Import PROVE Ledger'
  <1>1. /\ UNCHANGED <<legacy, json, disk>>
        /\ mem' = disk \/ mem' = [Imported(json) EXCEPT !.schema = disk.schema]
    BY DEF Import
  <1>2. CASE mem' = disk
    BY <1>1, <1>2 DEF Ledger
  <1>3. CASE mem' = [Imported(json) EXCEPT !.schema = disk.schema]
    <2> DEFINE d == Imported(json)
    <2>1. Sound(d) /\ d \in Data
      BY ImportedSound DEF Ledger, Sound
    <2>2. d.signed \in SUBSET Keys /\ disk.schema \in 0..SchemaVersion + 1
      BY <2>1, DataFields DEF Ledger, Sound
    <2>3. mem' = [d EXCEPT !.schema = disk.schema]
      BY <1>3
    <2> HIDE DEF d
    <2>4. mem' = [d EXCEPT !.schema = disk.schema, !.signed = d.signed]
      BY <2>1, <2>3 DEF Data
    <2>5. Sound(mem')
      BY <2>1, <2>2, <2>4, SoundAlike
    <2> QED
      BY <1>1, <2>5 DEF Ledger
  <1> QED
    BY <1>1, <1>2, <1>3

LEMMA PublishTotals == ASSUME BootInv, Ledger, Counters, Publish PROVE Ledger'
  <1>1. /\ mem' = [mem EXCEPT !.signed = @ \cup {key}] /\ disk' = mem'
        /\ UNCHANGED <<legacy, json>> /\ pc = "up"
    BY DEF Publish
  <1>2. key \in Keys
    BY <1>1 DEF BootInv, OneIdentity, Counters
  <1>3. mem.signed \in SUBSET Keys /\ mem.schema \in 0..SchemaVersion + 1
    BY DataFields DEF Ledger, Sound
  <1>4. mem' = [mem EXCEPT !.schema = mem.schema, !.signed = mem.signed \cup {key}]
    BY <1>1 DEF Ledger, Sound, Data
  <1>5. Sound(mem')
    <2>1. mem.signed \cup {key} \in SUBSET Keys
      BY <1>2, <1>3
    <2>2. Sound(mem)
      BY DEF Ledger
    <2> QED
      BY <1>3, <1>4, <2>1, <2>2, SoundAlike
  <1> QED
    BY <1>1, <1>5 DEF Ledger

LEMMA ReceiveTotals == ASSUME Ledger, NEW i \in Sent, Receive(i) PROVE Ledger'
  <1>1. mem' = Added(mem, Clean(i)) /\ disk' = mem' /\ UNCHANGED <<legacy, json>>
    BY DEF Receive
  <1>2. i \in Counted
    BY SentAssumption DEF Counted
  <1>3. Sound(mem')
    BY <1>1, <1>2, CleanCounted, AddedSound DEF Ledger
  <1> QED
    BY <1>1, <1>3 DEF Ledger

LEMMA RestoreTotals ==
    ASSUME Ledger, Archive, NEW i \in 1..BackupsKept, Restore(i) PROVE Ledger'
  BY DEF Restore, Ledger, Archive

(* The rows otherwise move as they are. *)
LEMMA OtherTotals ==
    ASSUME Ledger, Save \/ Rename \/ Identify \/ Kill PROVE Ledger'
  BY NoDataIs DEF Ledger, Save, Rename, Identify, Kill

LEMMA BackupTotals ==
    ASSUME Ledger, Archive, Counters, Rotate \/ Vacuum \/ Vacuumed \/ BackupFails
    PROVE  Archive'
  <1>1. /\ NoBackup \in Backups /\ NoBackup.boot = 0
        /\ Partial \in Backups /\ Partial.boot = -1
    BY DEF Backups, NoBackup, Partial
  <1>2. 1 \in 1..BackupsKept /\ backups \in [1..BackupsKept -> Backups]
        /\ \A i \in 1..BackupsKept : backups[i].boot > 0 => Sound(backups[i].rows)
    BY DEF Archive, BackupsKept
  <1>3. ASSUME NEW b \in Backups, b.boot > 0 => Sound(b.rows),
               backups' = [backups EXCEPT ![1] = b]
        PROVE  Archive'
    BY <1>2, <1>3 DEF Archive
  <1>4. CASE Rotate
    <2>1. PICK k \in {1, 2} : backups' = Shifted(backups, k)
      BY <1>4 DEF Rotate, Rotation
    <2>2. /\ k \in 1..BackupsKept /\ k + 1 \in 1..BackupsKept
          /\ \/ backups' = backups
             \/ backups' = [backups EXCEPT ![k] = NoBackup, ![k + 1] = backups[k]]
      BY <2>1 DEF Shifted, BackupsKept
    <2> QED
      <3>1. CASE backups' = backups
        BY <1>2, <3>1 DEF Archive
      <3>2. CASE backups' = [backups EXCEPT ![k] = NoBackup, ![k + 1] = backups[k]]
        <4>1. backups[k] \in Backups /\ (backups[k].boot > 0 => Sound(backups[k].rows))
          BY <1>2, <2>2
        <4> DEFINE b == backups[k]
        <4>2. backups' = [backups EXCEPT ![k] = NoBackup, ![k + 1] = b]
          BY <3>2
        <4> HIDE DEF b
        <4>3. backups' \in [1..BackupsKept -> Backups]
          BY <1>1, <1>2, <2>2, <4>1, <4>2 DEF b
        <4>4. \A i \in 1..BackupsKept : backups'[i] \in {NoBackup, b, backups[i]}
          BY <1>2, <2>2, <4>2
        <4>5. ~(NoBackup.boot > 0) /\ (b.boot > 0 => Sound(b.rows))
          BY <1>1, <4>1 DEF b
        <4> QED
          BY <1>2, <4>3, <4>4, <4>5 DEF Archive
      <3> QED
        BY <2>2, <3>1, <3>2
  <1>5. CASE Vacuum
    <2>1. backups' = [backups EXCEPT ![1] = Partial] /\ ~(Partial.boot > 0)
      BY <1>1, <1>5 DEF Vacuum
    <2> QED
      BY <1>1, <1>3, <2>1
  <1>6. CASE Vacuumed
    <2> DEFINE taken == [boot |-> boots, rows |-> disk]
    <2>1. taken \in Backups
      <3>1. boots \in 1..MaxBoots
        BY <1>6, BoundsAssumption DEF Vacuumed, Counters
      <3>2. disk \in Data
        BY DEF Ledger, Sound
      <3> QED
        BY <3>1, <3>2 DEF Backups
    <2>2. Sound(taken.rows)
      BY DEF Ledger
    <2>3. backups' = [backups EXCEPT ![1] = taken]
      BY <1>6 DEF Vacuumed
    <2> HIDE DEF taken
    <2> QED
      BY <1>3, <2>1, <2>2, <2>3
  <1>7. CASE BackupFails
    BY <1>1, <1>2, <1>3, <1>7 DEF BackupFails, Archive
  <1> QED
    BY <1>4, <1>5, <1>6, <1>7

(* The identities, the boots and the steps of a boot stay in range. *)
LEMMA CountersKept ==
    ASSUME BootInv, Counters, Next PROVE Counters'
  <1> USE DEF Counters, store, identity, saved
  <1>1. MaxBoots \in Nat /\ MaxKeys \in Nat \ {0}
    BY BoundsAssumption
  <1>2. CASE Start
    BY <1>1, <1>2 DEF Start, Loading
  <1>3. CASE Ladder
    BY <1>3 DEF Ladder, Loading
  <1>4. CASE Import
    BY <1>4 DEF Import, After, Loading, Synced, Rotating
  <1>5. CASE Save \/ Rename
    BY <1>5 DEF Save, Rename, After, Loading, Synced, Rotating
  <1>6. CASE Rotate \/ Vacuum \/ BackupFails
    BY <1>6 DEF Rotate, Vacuum, BackupFails, Synced, Rotating
  <1>7. CASE Vacuumed
    BY <1>7 DEF Vacuumed, Synced
  <1>8. CASE Identify
    BY <1>8 DEF Identify, Synced
  <1>9. CASE Mint
    <2>1. minted + 1 \in Keys
      BY <1>1, <1>9 DEF Mint, Keys
    <2> QED
      BY <1>9, <2>1 DEF Mint, Synced
  <1>10. CASE Publish \/ \E i \in Sent : Receive(i)
    BY <1>10 DEF Publish, Receive
  <1>11. CASE Kill
    BY <1>11 DEF Kill
  <1>12. CASE LoseIdentity \/ RestoreIdentity \/ \E i \in 1..BackupsKept : Restore(i)
    BY <1>12 DEF LoseIdentity, RestoreIdentity, Restore
  <1> QED
    BY <1>2, <1>3, <1>4, <1>5, <1>6, <1>7, <1>8, <1>9, <1>10, <1>11, <1>12 DEF Next

LEMMA TotalsKept == BootInv /\ TotalsInv /\ [Next]_vars => TotalsInv'
  <1> SUFFICES ASSUME BootInv, TotalsInv, [Next]_vars PROVE TotalsInv'
    OBVIOUS
  <1> USE DEF TotalsInv
  <1>1. CASE UNCHANGED vars
    BY <1>1, LedgerStays, ArchiveStays DEF vars, identity, saved, Counters
  <1>2. CASE Next
    <2>1. CASE Rotate \/ Vacuum \/ Vacuumed \/ BackupFails
      <3>1. UNCHANGED store
        BY <2>1 DEF Rotate, Vacuum, Vacuumed, BackupFails
      <3> QED
        BY <1>2, <2>1, <3>1, LedgerStays, BackupTotals, CountersKept
    <2>2. CASE Start \/ Mint \/ LoseIdentity \/ RestoreIdentity
      <3>1. UNCHANGED <<store, backups>>
        BY <2>2 DEF Start, Mint, LoseIdentity, RestoreIdentity, saved
      <3> QED
        BY <1>2, <3>1, LedgerStays, ArchiveStays, CountersKept
    <2>3. CASE \/ Ladder \/ Import \/ Save \/ Rename \/ Identify \/ Publish \/ Kill
               \/ (\E i \in Sent : Receive(i)) \/ \E i \in 1..BackupsKept : Restore(i)
      <3>1. UNCHANGED backups
        BY <2>3 DEF Ladder, Import, Save, Rename, Identify, Publish, Kill, Receive, Restore, saved
      <3>2. Ledger'
        BY <2>3, LadderTotals, ImportTotals, PublishTotals, ReceiveTotals, RestoreTotals,
           OtherTotals
      <3> QED
        BY <1>2, <3>1, <3>2, ArchiveStays, CountersKept
    <2> QED
      BY <1>2, <2>1, <2>2, <2>3 DEF Next
  <1> QED
    BY <1>1, <1>2

LEMMA TotalsInductive == Spec => [](BootInv /\ TotalsInv)
  BY BootInductive, TotalsInit, TotalsKept, PTL DEF Spec

(* The rows, the JSON store, the backups and the identities are well formed *)
(* through any boots, and no buffer grows over its limit: trimming keeps    *)
(* what an import or an addition makes longer within it (addReport,         *)
(* addEvent, #migrateFromJson).                                             *)
THEOREM BootTypeCorrect == Spec => []TypeOK
  <1>1. TotalsInv => TypeOK
    BY DEF TotalsInv, Ledger, Archive, Counters, Sound, Whole, TypeOK, Loading, Synced, Rotating
  <1> QED
    BY <1>1, TotalsInductive, PTL

(* The totals stand for every report and event that was ever received or    *)
(* imported, each once, over at most MaxAgentKeys named agents, in the      *)
(* store and in every complete backup: whatever the buffers have forgotten, *)
(* however often an import was repeated after a kill, whichever backup was  *)
(* restored (foldReport, foldEvent, addReport, addEvent, #migrateFromJson). *)
THEOREM TotalsStayExact == Spec => []ExactTotals
  <1>1. TotalsInv => ExactTotals
    BY DEF TotalsInv, Ledger, Archive, Sound, ExactTotals
  <1> QED
    BY <1>1, TotalsInductive, PTL
=============================================================================
