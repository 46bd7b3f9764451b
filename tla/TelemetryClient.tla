-------------------------- MODULE TelemetryClient --------------------------
(***************************************************************************)
(* Usage reporting in the CLI (packages/cli/lib/telemetry.js and the       *)
(* commands of packages/cli/bin/allodic.js that drive it).                 *)
(*                                                                         *)
(* Invocations of the CLI are processes of their own that share two files, *)
(* telemetry.json (the preference) and telemetry-queue.json, and a lock    *)
(* directory beside the queue.  Each file is replaced by an atomic rename, *)
(* so one read or one write of a file is one step; everything between two  *)
(* of them may interleave with the other processes, and a process may be   *)
(* killed at any step.  An invocation records one event, so the process    *)
(* stands for its event's uuid.                                            *)
(***************************************************************************)
EXTENDS Integers, Sequences, FiniteSets, Functions

CONSTANTS
    Procs,         \* invocations of the CLI
    MaxConcurrent, \* bound: how many of them run at a time
    MaxQueue,      \* MAX_QUEUE_EVENTS
    MaxBatch,      \* events per flush
    Envs,          \* the environments tried, see Enabled
    NoState, Free, Dead

ASSUME BoundsAssumption == MaxConcurrent \in Nat /\ MaxQueue \in Nat \ {0} /\ MaxBatch \in Nat \ {0}
ASSUME EnvsAssumption   == Envs \subseteq {"unset", "on", "off"}
ASSUME LockAssumption   == {Free, Dead} \cap Procs = {} /\ Free # Dead

Commands == {"use", "publish", "enable", "disable"}
Toggles  == {"enable", "disable"}

(* The preference; the installation id and the count of publications ride  *)
(* along in the same file and are left out.                                *)
States   == [enabled : BOOLEAN, notice : BOOLEAN]
NewState == [enabled |-> TRUE, notice |-> FALSE]

ASSUME StateAssumption == NoState \notin States

VARIABLES
    state,      \* telemetry.json
    queue,      \* telemetry-queue.json, oldest first
    lock,       \* the lock directory: Free, its owner, or Dead (left by a killed process)
    pc, cmd, env,
    st,         \* per process: the preference it read and will write back
    q,          \* per process: the queue it read
    ok,         \* per process: the events of its flush answered 2xx
    held,       \* per process: it created the lock directory
    informed,   \* history: the notice was printed, or the user set the preference
    owed,       \* history: events recorded and since then neither answered 2xx,
                \*   cut off the full queue, nor cleared by `disable`
    alone,      \* history: the last `disable` ran while nothing else did
    gaveUp      \* history: a process went on without the lock, or a live lock was removed

files == <<state, queue, lock>>
local == <<cmd, env, st, q, ok, held>>
past  == <<informed, owed, alone, gaveUp>>
vars  == <<files, pc, local, past>>

Init ==
    /\ state = NoState /\ queue = <<>> /\ lock = Free
    /\ pc  = [p \in Procs |-> "new"]
    /\ cmd = [p \in Procs |-> "use"]
    /\ env = [p \in Procs |-> "unset"]
    /\ st  = [p \in Procs |-> NoState]
    /\ q   = [p \in Procs |-> <<>>]
    /\ ok  = [p \in Procs |-> {}]
    /\ held = [p \in Procs |-> FALSE]
    /\ informed = FALSE /\ owed = {} /\ alone = FALSE
    /\ gaveUp = FALSE

Running  == {p \in Procs : pc[p] \notin {"new", "gone"}}
OptingOut == \E p \in Running : cmd[p] = "disable"
InQueue  == Range(queue)
Goto(p, l) == pc' = [pc EXCEPT ![p] = l]

EnabledByDefault(p) == env[p] # "off"       \* mutant of Enabled: the preference is not read

(* reportingDecision: "off" stands for DO_NOT_TRACK=1, ALLODIC_TELEMETRY=0 *)
(* and the CI and source-checkout defaults, "on" for ALLODIC_TELEMETRY=1;  *)
(* "unset" leaves it to the preference, which defaults to on.              *)
Enabled(p) ==
    \/ env[p] = "on"
    \/ env[p] = "unset" /\ (state # NoState => state.enabled)

-----------------------------------------------------------------------------
(* One invocation; its locals die with it. *)

Start(p, c, e) ==
    /\ pc[p] = "new" /\ Cardinality(Running) < MaxConcurrent
    /\ cmd' = [cmd EXCEPT ![p] = c]
    /\ env' = [env EXCEPT ![p] = e]
    /\ Goto(p, IF c \in Toggles THEN "toggle" ELSE "notice")
    /\ alone' = IF c = "disable" THEN Running = {}
                ELSE alone /\ c # "enable" /\ e # "on" /\ ~OptingOut
    /\ UNCHANGED <<files, st, q, ok, held, informed, owed, gaveUp>>

Gone(p) ==
    /\ Goto(p, "gone")
    /\ cmd' = [cmd EXCEPT ![p] = "use"]
    /\ env' = [env EXCEPT ![p] = "unset"]
    /\ st'  = [st EXCEPT ![p] = NoState]
    /\ q'   = [q EXCEPT ![p] = <<>>]
    /\ ok'  = [ok EXCEPT ![p] = {}]
    /\ held' = [held EXCEPT ![p] = FALSE]

End(p) == pc[p] = "end" /\ Gone(p) /\ UNCHANGED <<files, past>>

Skip(p) == Goto(p, "work") /\ UNCHANGED st

NoticeLater(p) == Skip(p)       \* mutant of Disclose: the command first

(* maybeShowFirstUseNotice, up to its read of the preference.  Once it has *)
(* passed, the file exists or reporting is off, so the later ensureState   *)
(* calls only read.                                                        *)
Disclose(p) ==
    IF ~Enabled(p) THEN Skip(p)
    ELSE /\ st' = [st EXCEPT ![p] = IF state = NoState THEN NewState ELSE state]
         /\ Goto(p, IF state = NoState THEN "create" ELSE IF state.notice THEN "work" ELSE "show")

Notice(p) ==
    /\ pc[p] = "notice"
    /\ Disclose(p)
    /\ UNCHANGED <<files, cmd, env, q, ok, held, past>>

(* ensureState writes a preference it found missing. *)
Create(p) ==
    /\ pc[p] = "create"
    /\ state' = st[p]
    /\ Goto(p, IF cmd[p] \in Toggles THEN "set" ELSE "show")
    /\ UNCHANGED <<queue, lock, local, past>>

Show(p) ==
    /\ pc[p] = "show"
    /\ state' = [st[p] EXCEPT !.notice = TRUE]
    /\ informed' = TRUE
    /\ Goto(p, "work")
    /\ UNCHANGED <<queue, lock, local, owed, alone, gaveUp>>

(* The command itself: publish counts its success in the preference file.  *)
Work(p) ==
    /\ pc[p] = "work"
    /\ IF cmd[p] = "publish" /\ Enabled(p)
       THEN st' = [st EXCEPT ![p] = IF state = NoState THEN NewState ELSE state] /\ Goto(p, "count")
       ELSE Goto(p, "record") /\ UNCHANGED st
    /\ UNCHANGED <<files, cmd, env, q, ok, held, past>>

Count(p) ==
    /\ pc[p] = "count"
    /\ state' = st[p]
    /\ Goto(p, "record")
    /\ UNCHANGED <<queue, lock, local, past>>

(* recordEvent; a command with nothing to report goes straight to the flush. *)
Record(p) ==
    /\ pc[p] = "record"
    /\ \/ Goto(p, "flush")
       \/ Enabled(p) /\ Goto(p, "lock")
    /\ UNCHANGED <<files, local, past>>

-----------------------------------------------------------------------------
(* withQueueLock, for recordEvent ("lock") and for flushTelemetry's removal *)
(* of what was delivered ("relock", which tries once).  The critical        *)
(* section is a few file operations, so a live owner's lock never grows     *)
(* stale.                                                                   *)

Wanting(p) == pc[p] \in {"lock", "relock"}
Reading(p) == IF pc[p] = "lock" THEN "append" ELSE "remove"

LockShared(p) == TRUE                        \* mutant of LockFree: mkdir -p

LockFree(p) == lock = Free

TakeLock(p) ==
    /\ Wanting(p) /\ LockFree(p)
    /\ lock' = p
    /\ held' = [held EXCEPT ![p] = TRUE]
    /\ Goto(p, Reading(p))
    /\ UNCHANGED <<state, queue, cmd, env, st, q, ok, past>>

(* mutant of Contend: retries until the owner has let go *)
ContendRetries(p) == Wanting(p) /\ lock # Free /\ UNCHANGED vars

(* The directory is there: an old one is judged stale, to be removed in the *)
(* next step; after its attempts the process goes on without the lock.      *)
Contend(p) ==
    /\ Wanting(p) /\ lock # Free
    /\ \/ /\ lock = Dead
          /\ Goto(p, IF pc[p] = "lock" THEN "steal" ELSE "resteal")
          /\ UNCHANGED gaveUp
       \/ /\ Goto(p, Reading(p))
          /\ gaveUp' = TRUE
    /\ UNCHANGED <<files, local, informed, owed, alone>>

(* The removal takes whichever directory is there by now; only recordEvent  *)
(* has attempts left to create its own.                                     *)
Steal(p) ==
    /\ pc[p] \in {"steal", "resteal"}
    /\ lock' = Free
    /\ Goto(p, IF pc[p] = "steal" THEN "lock" ELSE "remove")
    /\ gaveUp' = (gaveUp \/ lock \in Procs \/ pc[p] = "resteal")
    /\ UNCHANGED <<state, queue, local, informed, owed, alone>>

ReadQueue(p) ==
    /\ pc[p] \in {"append", "remove"}
    /\ q' = [q EXCEPT ![p] = queue]
    /\ Goto(p, IF pc[p] = "append" THEN "appendWrite" ELSE "removeWrite")
    /\ UNCHANGED <<files, cmd, env, st, ok, held, past>>

AllOfThem(s) == s                            \* mutant of Newest

(* Past MAX_QUEUE_EVENTS the oldest go. *)
Newest(s) == IF Len(s) <= MaxQueue THEN s ELSE SubSeq(s, Len(s) - MaxQueue + 1, Len(s))

WriteAppended(p) ==
    LET longer == Append(q[p], p)
    IN  /\ pc[p] = "appendWrite"
        /\ queue' = Newest(longer)
        /\ owed' = (owed \cup {p}) \ (Range(longer) \ Range(Newest(longer)))
        /\ Goto(p, "unlock")
        /\ UNCHANGED <<state, lock, local, informed, alone, gaveUp>>

(* What of a queue is not among the events done.  Written out, where        *)
(* SelectSeq would do, because the prover cannot look into that one.        *)
Without(s, done) ==
    LET kept[i \in 0..Len(s)] ==
            IF i = 0 THEN <<>>
            ELSE IF s[i] \in done THEN kept[i - 1] ELSE Append(kept[i - 1], s[i])
    IN  kept[Len(s)]

WriteRemaining(p) ==
    /\ pc[p] = "removeWrite"
    /\ queue' = Without(q[p], ok[p])
    /\ Goto(p, "unlock")
    /\ UNCHANGED <<state, lock, local, past>>

(* The finally block removes the directory of a process that created one;   *)
(* one whose lock was stolen removes the thief's.                           *)
Unlock(p) ==
    /\ pc[p] = "unlock"
    /\ lock' = IF held[p] THEN Free ELSE lock
    /\ held' = [held EXCEPT ![p] = FALSE]
    /\ Goto(p, IF ok[p] = {} THEN "flush" ELSE "end")
    /\ UNCHANGED <<state, queue, cmd, env, st, q, ok, past>>

-----------------------------------------------------------------------------
(* flushTelemetry: the decision and the batch are read once. *)
Flush(p) ==
    /\ pc[p] = "flush"
    /\ IF Enabled(p) /\ queue # <<>>
       THEN q' = [q EXCEPT ![p] = queue] /\ Goto(p, "send")
       ELSE Goto(p, "end") /\ UNCHANGED q
    /\ UNCHANGED <<files, cmd, env, st, ok, held, past>>

(* Each event of the batch is transmitted; any of them may be answered 2xx. *)
Send(p) ==
    LET batch == Range(SubSeq(q[p], 1, IF Len(q[p]) < MaxBatch THEN Len(q[p]) ELSE MaxBatch))
    IN  /\ pc[p] = "send"
        /\ \E delivered \in SUBSET batch :
              /\ ok' = [ok EXCEPT ![p] = delivered]
              /\ owed' = owed \ delivered
              /\ Goto(p, IF delivered = {} THEN "end" ELSE "relock")
        /\ UNCHANGED <<files, cmd, env, st, q, held, informed, alone, gaveUp>>

(* allodic telemetry enable / disable *)
Toggle(p) ==
    /\ pc[p] = "toggle"
    /\ st' = [st EXCEPT ![p] = IF state = NoState THEN NewState ELSE state]
    /\ Goto(p, IF state = NoState THEN "create" ELSE "set")
    /\ UNCHANGED <<files, cmd, env, q, ok, held, past>>

Set(p) ==
    /\ pc[p] = "set"
    /\ state' = [st[p] EXCEPT !.enabled = (cmd[p] = "enable")]
    /\ informed' = TRUE
    /\ Goto(p, IF cmd[p] = "disable" THEN "clear" ELSE "end")
    /\ UNCHANGED <<queue, lock, local, owed, alone, gaveUp>>

(* clearQueue does not take the lock. *)
Clear(p) ==
    /\ pc[p] = "clear"
    /\ queue' = <<>>
    /\ owed' = owed \ InQueue
    /\ Goto(p, "end")
    /\ UNCHANGED <<state, lock, local, informed, alone, gaveUp>>

(* The process is killed; a lock it held stays behind and grows stale. *)
Kill(p) ==
    /\ p \in Running
    /\ Gone(p)
    /\ lock' = IF lock = p THEN Dead ELSE lock
    /\ alone' = (alone /\ cmd[p] # "disable")
    /\ UNCHANGED <<state, queue, informed, owed, gaveUp>>

Step(p) ==
    \/ Notice(p) \/ Create(p) \/ Show(p) \/ Work(p) \/ Count(p) \/ Record(p)
    \/ TakeLock(p) \/ Contend(p) \/ Steal(p) \/ ReadQueue(p)
    \/ WriteAppended(p) \/ WriteRemaining(p) \/ Unlock(p)
    \/ Flush(p) \/ Send(p) \/ Toggle(p) \/ Set(p) \/ Clear(p) \/ End(p)

Next ==
    \E p \in Procs :
        \/ \E c \in Commands, e \in Envs : Start(p, c, e)
        \/ Step(p)
        \/ Kill(p)

Spec == Init /\ [][Next]_vars

-----------------------------------------------------------------------------
Labels == {"new", "notice", "create", "show", "work", "count", "record", "lock", "relock",
           "steal", "resteal", "append", "remove", "appendWrite", "removeWrite",
           "unlock", "flush", "send", "toggle", "set", "clear", "end", "gone"}

TypeOK ==
    /\ state \in States \cup {NoState}
    /\ queue \in Seq(Procs) /\ Len(queue) <= MaxQueue
    /\ lock \in Procs \cup {Free, Dead}
    /\ pc \in [Procs -> Labels]
    /\ cmd \in [Procs -> Commands] /\ env \in [Procs -> {"unset", "on", "off"}]
    /\ st \in [Procs -> States \cup {NoState}]
    /\ q \in [Procs -> Seq(Procs)] /\ ok \in [Procs -> SUBSET Procs]
    /\ held \in [Procs -> BOOLEAN]
    /\ owed \in SUBSET Procs
    /\ informed \in BOOLEAN /\ alone \in BOOLEAN /\ gaveUp \in BOOLEAN

(* The lock does its work: unless a process went on without it or took a    *)
(* live one for stale, concurrent invocations lose no event, wherever one   *)
(* is killed: each event recorded is still queued, was answered 2xx, was    *)
(* cut off the full queue or was cleared by the user.                       *)
NoEventLost ==
    ~gaveUp => owed \subseteq InQueue

(* An opt-out with nothing else running is complete: from then on, until    *)
(* the user enables reporting again, the preference stays off, the queue    *)
(* stays empty and no invocation is about to transmit.                      *)
LoneOptOutHolds ==
    (alone /\ ~OptingOut) =>
             /\ state # NoState /\ ~state.enabled
             /\ queue = <<>>
             /\ \A p \in Procs : pc[p] # "send"

(* No event leaves the machine before the notice was printed there or the   *)
(* user set the preference, whichever invocation recorded it and whichever  *)
(* was killed in between (maybeShowFirstUseNotice).                         *)
NoticeFirst == (\E p \in Procs : pc[p] = "send") => informed

(* Reporting never costs the user the command: an invocation that runs can  *)
(* always take its next step, whoever holds the lock and whoever was killed *)
(* holding it (the attempts of withQueueLock are counted).                  *)
NeverWaits ==
    \A p \in Running : ENABLED <<Step(p)>>_vars
=============================================================================
