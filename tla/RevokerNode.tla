----------------------------- MODULE RevokerNode -----------------------------
(***************************************************************************)
(* A participant node: bootstrap from a snapshot, replication through its  *)
(* engine, the gate on its checks, rotations of its own, crash and         *)
(* restart; composed with the engine, the server and the coordinator.      *)
(*                                                                         *)
(* The core revoker is the LSNs that its two filters hold, and those that  *)
(* a restart would find in the files of each.  An entry is in the log when *)
(* it is applied, until a save truncates the log: a save is one step, when *)
(* it ends (BloomFilterManager.tla has its steps), and has what the filter *)
(* held when it began.                                                     *)
(*                                                                         *)
(* faults also counts the rotations of the node's own, its saves during    *)
(* which an entry is applied, and those that outlive the revoker.          *)
(***************************************************************************)
EXTENDS SyncEngine

VARIABLES
    status,      \* "down", "starting" (init() takes a snapshot), "up", "closing"
    boot,        \* the bootstrap: "no", "queued", "asked" (the snapshot is in
                 \* transit), "stopping" (it waits for the engine), "installing"
    snapshot,    \* the one in transit or being installed, or NoSnapshot
    catchingUp,  \* the gate
    mark,        \* observation: the last event when the first stream since the gate
                 \* closed was accepted, or NoMark
    state,       \* sync-state-<id>.json
    blobs,       \* TRUE iff there is a blob on disk
    fileCurrent, filePrevious,
    current, previous,
    \* What the revoker and the engine that a bootstrap has replaced still do.
    stray,       \* what a save under way of that revoker writes, or NoCopy
    stale,       \* the LSN of the rotation that engine awaits, or 0
    exempt       \* observation: entries that the saves, the rotations and the
                 \* installations named in this module may lose

files == <<blobs, fileCurrent, filePrevious>>
replaced == <<stray, stale>>
core == <<files, current, previous, replaced, exempt>>
gate == <<catchingUp, mark>>
node == <<status, boot, snapshot, gate, state, core>>
vars == <<coordinator, stream, syncEngine, node, faults>>

NoSnapshot == [lsn |-> 0, generation |-> 0, current |-> {}, previous |-> {}]

NoMark == -1

NoCopy == {0}

\* The last event that a stream can deliver.
LastEvent ==
    CHOOSE n \in 0..Len(log) :
        /\ n > 0 => log[n] # "hole"
        /\ \A m \in (n + 1)..Len(log) : log[m] = "hole"

\* has(), getMiddleware().
Serving == status = "up" /\ ~catchingUp

-----------------------------------------------------------------------------
(* What the engine's events do to the node.                                *)

\* #scheduleRebootstrap: one at a time.
ScheduleRebootstrap == boot' = IF status = "up" /\ boot = "no" THEN "queued" ELSE boot

NodeApplyNothing(via) ==
    /\ ApplyNothing(via)
    /\ IF Incoming(via) = Keepalive
       THEN catchingUp' = FALSE /\ mark' = NoMark
       ELSE UNCHANGED gate
    /\ UNCHANGED <<status, boot, snapshot, state, core>>

\* In the log, in the filter; then the position is saved.
NodeApplyEntry(via) ==
    /\ ApplyEntry(via)
    /\ current' = current \cup {lastAppliedLsn'}
    /\ fileCurrent' = fileCurrent \cup {lastAppliedLsn'}
    /\ state' = [state EXCEPT !.lsn = lastAppliedLsn', !.generation = generation]
    /\ UNCHANGED <<status, boot, snapshot, gate, blobs, filePrevious, previous, replaced,
                   exempt>>

\* backupRotate, of what the filter held.
SaveRotated(copy) ==
    /\ blobs' = TRUE
    /\ filePrevious' = copy
    /\ fileCurrent' = {}

\* In memory the filters rotate, saved or not.
Rotated ==
    /\ previous' = current
    /\ current' = {}

\* Mutant: after a rotation only the position is saved.
RotationSavedInPart ==
    /\ FinishRotation
    /\ Rotated
    /\ SaveRotated(current)
    /\ state' = [state EXCEPT !.lsn = lastAppliedLsn']
    /\ UNCHANGED <<faults, status, boot, snapshot, gate, replaced, exempt>>

\* No entry is applied while it is awaited.
NodeFinishRotation ==
    /\ FinishRotation
    /\ Rotated
    /\ \/ SaveRotated(current) /\ UNCHANGED faults
       \/ Fault /\ UNCHANGED files
    /\ state' = [state EXCEPT !.lsn = lastAppliedLsn', !.generation = generation']
    /\ UNCHANGED <<status, boot, snapshot, gate, replaced, exempt>>

\* onRebootstrapRequired.
NodeFire ==
    /\ \/ \E via \in Sources : FireAnomaly(via) \/ FireUnapplied(via)
       \/ FireUnrotated
    /\ ScheduleRebootstrap
    /\ UNCHANGED <<status, snapshot, gate, state, core>>

NodeFireUnsaved(via) ==
    /\ FireUnsaved(via)
    /\ current' = current \cup {Incoming(via).lsn}
    /\ fileCurrent' = fileCurrent \cup {Incoming(via).lsn}
    /\ ScheduleRebootstrap
    /\ UNCHANGED <<status, snapshot, gate, state, blobs, filePrevious, previous, replaced,
                   exempt>>

\* The state file cannot be written after a rotation: it will be applied again.
NodeFireUnsavedRotation ==
    /\ FireUnrotated
    /\ Rotated
    /\ SaveRotated(current) \/ UNCHANGED files
    /\ exempt' = exempt \cup current
    /\ ScheduleRebootstrap
    /\ UNCHANGED <<status, snapshot, gate, state, replaced>>

-----------------------------------------------------------------------------
(* The core revoker's own timers.  The revoker lives as long as its engine.*)

\* What the filter held when a save began: the node had not applied all yet.
Copies == {{n \in current : n <= seen} : seen \in 0..lastAppliedLsn + 1}

Faults(n) == faults + n <= MaxFaults /\ faults' = faults + n

\* An entry that is applied during a save counts as a failure.
Cut(copy) == IF copy = current THEN 0 ELSE 1

\* A periodic save ends.  It empties the log, and the blob of a rotation whose
\* save failed is overwritten.  One that changes nothing is a stutter.
Backup ==
    /\ engine # "none"
    /\ \E copy \in Copies :
        /\ Faults(Cut(copy))
        /\ fileCurrent' = copy
        /\ exempt' = (exempt \cup fileCurrent) \ copy
    /\ blobs' = TRUE
    /\ UNCHANGED <<coordinator, stream, syncEngine, status, boot, snapshot, gate, state,
                   filePrevious, current, previous, replaced>>
    /\ core' # core

\* #onCoreRotation, of a rotation that no event of the stream has asked for.
SelfRotated(flagged) ==
    IF status = "closing" THEN UNCHANGED <<state, boot>>
    ELSE /\ state' = [state EXCEPT !.dirty = @ \/ flagged]
         /\ ScheduleRebootstrap

\* Core's timer: no rotation for safetyFactor times rotateTime.  While an event's
\* rotation is awaited it is taken for that one.  All that the node holds may
\* be gone before the coordinator's next rotations.
SelfRotate ==
    /\ engine # "none"
    /\ Rotated
    /\ exempt' = exempt \cup current \cup previous \cup fileCurrent \cup filePrevious
    /\ \E failed \in SUBSET {"save", "flag"}, copy \in Copies :
        /\ Faults(1 + Cardinality(failed) + Cut(copy))
        /\ IF "save" \in failed THEN UNCHANGED files ELSE SaveRotated(copy)
        /\ IF rotating # 0 THEN UNCHANGED <<state, boot>> ELSE SelfRotated("flag" \notin failed)
    /\ UNCHANGED <<coordinator, stream, syncEngine, status, snapshot, gate, replaced>>

-----------------------------------------------------------------------------
(* #bootstrapFromSnapshot.                                                 *)

\* The timer, the call and its handler; when it fails it is made again, but for
\* init(), which gives up.
AskSnapshot ==
    /\ boot = "queued"
    /\ up
    /\ boot' = "asked"
    /\ snapshot' \in Snapshot
    /\ UNCHANGED <<coordinator, stream, syncEngine, faults, status, gate, state, core>>

SnapshotFails ==
    /\ \/ boot = "queued" /\ ~up /\ status = "starting"
       \/ boot = "asked" /\ Fault
    /\ boot' = IF status = "up" THEN "queued" ELSE "no"
    /\ status' = IF status = "starting" THEN "down" ELSE status
    /\ snapshot' = NoSnapshot
    /\ boot = "queued" => UNCHANGED faults
    /\ UNCHANGED <<coordinator, stream, syncEngine, gate, state, core>>

\* The gate closes before the engine is stopped.  A shutdown closes the client
\* when the engine has stopped.
SnapshotArrives ==
    /\ boot = "asked"
    /\ status = "closing" => rotating # 0
    /\ boot' = IF StopWaits THEN "stopping" ELSE "installing"
    /\ catchingUp' = TRUE
    /\ mark' = NoMark
    /\ StopEngine
    /\ UNCHANGED <<coordinator, faults, status, snapshot, state, core>>

Installs == boot = "installing" \/ (boot = "stopping" /\ rotating = 0)

\* The old revoker is destroyed, which waits for nothing: a save of its own goes
\* on, or that of a rotation that nobody waited for.
Replace ==
    /\ stale' = IF rotating # 0 THEN rotating ELSE stale
    /\ \/ UNCHANGED <<stray, faults>>
       \/ /\ engine # "none" /\ stray = NoCopy
          /\ stray' = current
          /\ IF rotating # 0 THEN UNCHANGED faults ELSE Fault

InstallFiles ==
    /\ fileCurrent' = snapshot.current
    /\ filePrevious' = snapshot.previous
    /\ blobs' = (snapshot.current \cup snapshot.previous # {})

Installed ==
    /\ InstallFiles
    /\ exempt' = {}
    /\ state' = [lsn |-> snapshot.lsn, generation |-> snapshot.generation, dirty |-> FALSE]

\* Old files out, blobs and state in, a new revoker and a new engine; in a node
\* that was shut down meanwhile the engine finds its client closed.
Install ==
    /\ Installs
    /\ Replace
    /\ Installed
    /\ current' = snapshot.current /\ previous' = snapshot.previous
    /\ StartEngine(IF status = "closing" /\ boot = "stopping" THEN "stopped" ELSE "running",
                   snapshot.lsn, snapshot.generation)
    /\ status' = IF status = "starting" THEN "up" ELSE status
    /\ boot' = "no"
    /\ snapshot' = NoSnapshot
    /\ UNCHANGED <<coordinator, stream, gate>>

\* What an installation that is cut short leaves under the state of before:
\* nothing, or some of the blobs.
FilesCutShort ==
    /\ UNCHANGED state
    /\ \/ fileCurrent' = {} /\ filePrevious' = {} /\ blobs' = FALSE /\ UNCHANGED exempt
       \/ /\ fileCurrent' = snapshot.current
          /\ filePrevious' \in {{}, snapshot.previous}
          /\ blobs' = TRUE
          /\ exempt' = exempt \cup EntriesIn(1, state.lsn)

NoRevoker == current' = {} /\ previous' = {}

InstallFails ==
    /\ Installs
    /\ Fault
    /\ FilesCutShort \/ Installed
    /\ NoRevoker
    /\ stale' = IF rotating # 0 THEN rotating ELSE stale
    /\ stray' = IF rotating # 0 THEN current ELSE stray
    /\ engine' = "none"
    /\ rotating' = 0
    /\ boot' = IF status = "up" THEN "queued" ELSE "no"
    /\ status' = IF status = "starting" THEN "down" ELSE status
    /\ catchingUp' = (status # "starting")
    /\ snapshot' = NoSnapshot
    /\ UNCHANGED <<coordinator, stream, applyChain, lastAppliedLsn, generation, mark>>

\* The save of a destroyed revoker ends, over the files of the next one; it was
\* that of a timer or of a rotation.
StraySave ==
    /\ stray # NoCopy
    /\ stray' = NoCopy
    /\ blobs' = TRUE
    /\ \/ /\ stale = 0
          /\ fileCurrent' = stray
          /\ UNCHANGED <<filePrevious, state, boot>>
       \/ /\ fileCurrent' = {}
          /\ filePrevious' = stray
          /\ IF stale # 0 THEN UNCHANGED <<state, boot>> ELSE SelfRotated(TRUE)
    /\ exempt' = exempt \cup EntriesIn(1, state.lsn)
    /\ UNCHANGED <<coordinator, stream, syncEngine, faults, status, snapshot, gate, current,
                   previous, stale>>

\* The rotation that nobody waited for is saved in the state, over that of the
\* snapshot.  shutdown() has waited for it: it goes on, and the new revoker
\* takes no event any more.
StaleEnds ==
    /\ stale # 0
    /\ stray = NoCopy
    /\ stale' = 0
    /\ state' = [state EXCEPT !.lsn = stale, !.generation = Generation(stale)]
    /\ exempt' = exempt \cup EntriesIn(1, stale)
    /\ StopEngine
    /\ mark' = NoMark
    /\ UNCHANGED <<coordinator, faults, status, boot, snapshot, catchingUp, files, current,
                   previous, stray>>

-----------------------------------------------------------------------------
(* Crash, restart, shutdown.                                               *)

\* The process is gone.  A rotation under way is on disk or not, and is not in
\* the state: it will be applied again.
Halt ==
    /\ NoEngine
    /\ status' = "down"
    /\ boot' = "no"
    /\ snapshot' = NoSnapshot
    /\ catchingUp' = FALSE /\ mark' = NoMark
    /\ NoRevoker
    /\ stray' = NoCopy /\ stale' = 0
    /\ \/ UNCHANGED <<state, files, exempt>>
       \/ /\ rotating # 0
          /\ SaveRotated(current)
          /\ exempt' = exempt \cup current \cup fileCurrent
          /\ UNCHANGED state
       \/ Installs /\ FilesCutShort
    /\ UNCHANGED coordinator

Crash ==
    /\ status # "down"
    /\ Fault
    /\ Halt

\* init(): what is on disk, or a snapshot.
Resumable == blobs /\ ~state.dirty

Resume ==
    /\ status = "down"
    /\ Resumable
    /\ status' = "up"
    /\ StartEngine("running", state.lsn, state.generation)
    /\ current' = fileCurrent /\ previous' = filePrevious
    /\ UNCHANGED <<coordinator, stream, faults, boot, snapshot, gate, state, files, replaced,
                   exempt>>

Bootstrap ==
    /\ status = "down"
    /\ ~Resumable
    /\ status' = "starting"
    /\ boot' = "queued"
    /\ UNCHANGED <<coordinator, stream, faults, syncEngine, snapshot, gate, state, core>>

\* shutdown() awaits the engine: a rebootstrap that waits for its timer is
\* cancelled, one under way goes on.
Shutdown ==
    /\ status = "up"
    /\ Fault
    /\ status' = "closing"
    /\ boot' = IF boot = "queued" THEN "no" ELSE boot
    /\ StopEngine
    /\ UNCHANGED <<coordinator, snapshot, gate, state, core>>

Exit ==
    /\ status = "closing"
    /\ rotating = 0 /\ stale = 0
    /\ Halt
    /\ UNCHANGED faults

-----------------------------------------------------------------------------

Init ==
    /\ ServerInit
    /\ SyncInit
    /\ status = "down" /\ boot = "no" /\ snapshot = NoSnapshot
    /\ catchingUp = FALSE /\ mark = NoMark
    /\ state = [lsn |-> 0, generation |-> 0, dirty |-> FALSE]
    /\ blobs = FALSE /\ fileCurrent = {} /\ filePrevious = {}
    /\ current = {} /\ previous = {}
    /\ stray = NoCopy /\ stale = 0 /\ exempt = {}

ServerStep == ServerNext /\ UNCHANGED <<syncEngine, node>>

\* The first stream that is accepted while the gate is closed sets the mark.
NodeSubscribe ==
    /\ TrySubscribe
    /\ mark' = IF catchingUp /\ mark = NoMark /\ call' = "open" THEN LastEvent ELSE mark
    /\ UNCHANGED <<status, boot, snapshot, catchingUp, state, core>>

EngineStep ==
    /\ StreamEnds \/ Arrive \/ \E via \in Sources : StartRotation(via)
    /\ UNCHANGED node

WatchdogStep == Watchdog /\ UNCHANGED node

ApplyStep ==
    \/ \E via \in Sources : NodeApplyNothing(via) \/ NodeApplyEntry(via) \/ NodeFireUnsaved(via)
    \/ NodeFinishRotation \/ NodeFire \/ NodeFireUnsavedRotation

BootStep == AskSnapshot \/ SnapshotFails \/ SnapshotArrives \/ Install \/ InstallFails

ReplacedStep == StraySave \/ StaleEnds

Restart == Resume \/ Bootstrap \/ Exit

Next ==
    \/ ServerStep
    \/ NodeSubscribe \/ EngineStep \/ WatchdogStep \/ ApplyStep
    \/ Backup \/ SelfRotate
    \/ BootStep \/ ReplacedStep
    \/ Crash \/ Restart \/ Shutdown

\* Timers fire, handlers run, messages arrive unless the stream is silent, and
\* processes that stop are started again.  Nobody has to revoke a token, and
\* nothing has to fail.
Fairness ==
    /\ WF_vars(WriteStep /\ UNCHANGED <<syncEngine, node>>)
    /\ WF_vars((ZombieCloses \/ CoordinatorStart) /\ UNCHANGED <<syncEngine, node>>)
    /\ WF_vars(NodeSubscribe \/ EngineStep \/ WatchdogStep \/ ApplyStep)
    /\ WF_vars(BootStep \/ ReplacedStep \/ Restart)

Spec == Init /\ [][Next]_vars /\ Fairness

-----------------------------------------------------------------------------
(* Properties.                                                             *)

Messages == {Keepalive, Resnapshot, Down} \cup {Event(n) : n \in 1..MaxLsn}
Lsns == 0..MaxLsn
Positions == [lsn : Lsns, generation : Lsns, dirty : BOOLEAN]

TypeOK ==
    /\ log \in Seq({"entry", "rotate", "hole"}) /\ unsent \subseteq DOMAIN log
    /\ deletedMaxLsn \in Lsns
    /\ {up, zombie, silent, catchingUp, blobs} \subseteq BOOLEAN
    /\ call \in {"none", "open", "ended"}
    /\ chain \in Seq(Messages \cup {Drain}) /\ batch \subseteq Lsns /\ wire \in Seq(Messages)
    /\ engine \in {"none", "running", "fired", "stopped"}
    /\ applyChain \in Seq(Messages)
    /\ {lastWrittenLsn, lastAppliedLsn, rotating, stale, generation} \subseteq Lsns
    /\ status \in {"down", "starting", "up", "closing"}
    /\ boot \in {"no", "queued", "asked", "stopping", "installing"}
    /\ snapshot.lsn \in Lsns /\ snapshot.generation \in Lsns
    /\ mark \in Lsns \cup {NoMark} /\ state \in Positions
    /\ stray = NoCopy \/ stray \subseteq EntriesIn(1, Len(log))
    /\ current \cup previous \cup fileCurrent \cup filePrevious \cup exempt
         \cup snapshot.current \cup snapshot.previous \subseteq EntriesIn(1, Len(log))

\* A revocation that add() has reported, and that the coordinator has not
\* rotated out.
Owed(n) ==
    /\ log[n] = "entry" /\ n \notin unsent
    /\ Cardinality(RotationsIn(n, Len(log))) <= 1

\* Class comments of RevokerNode and SyncEngine: a node that answers checks has
\* every event up to its position, through gaps, redeliveries, rotations whose
\* save fails, failed writes, rebootstraps and restarts; but for what a save cut
\* from the log, and what exempt has otherwise.
NodeCoverage ==
    Serving => \A n \in 1..state.lsn :
        Owed(n) => n \in current \cup previous \cup exempt

\* Comment of StateFile: what is saved is what has been applied.  It is also
\* what the coordinator means by that position, so that a generation mismatch
\* is never the node's own doing.  A shutdown may leave an engine over a state
\* that an old rotation has overwritten (StaleEnds).
EngineConsistent ==
    /\ state.generation = Generation(state.lsn)
    /\ (engine = "running" /\ status = "up") =>
           lastAppliedLsn = state.lsn /\ generation = state.generation

\* The abstract specification: one event at a time, never over a hole; a
\* snapshot and the opening of the gate only where they lose nothing.
RL == INSTANCE ReplicatedLog WITH
    pos   <- state.lsn,
    alive <- status \in {"up", "closing"},
    gate  <- Serving

ReplicatesLog == RL!Spec

LastSent == CHOOSE n \in 0..Len(log) :
    /\ n > 0 => log[n] # "hole" /\ n \notin unsent
    /\ \A m \in (n + 1)..Len(log) : log[m] = "hole" \/ m \in unsent

\* Comment of add(): the coordinator goes on past the LSN of a failed append.
\* Until its next rotation no node gets over it.
Stuck == \E n \in (ConsistencyPoint + 1)..LastEvent : log[n] = "hole"

\* Whatever fails, the node ends up serving everything that was broadcast.
CatchesUp ==
    <>[](Stuck \/ (Serving /\ state.lsn >= LastSent /\ ~state.dirty))
=============================================================================
