---------------------------- MODULE Coordinator ----------------------------
(***************************************************************************)
(* The coordinator of a cluster: the canonical log (CanonicalWal), its     *)
(* checkpoint (Meta), and the core revoker it wraps, whose rotations the   *)
(* onRotation hook makes canonical.  The nodes see it through readSince,   *)
(* canServeFrom and getSnapshot.                                           *)
(*                                                                         *)
(* The core revoker is BloomFilterManager.tla at a coarser grain: a        *)
(* rotation is the capture of the filter, any number of adds, and the swap.*)
(* The hook is synchronous, so between its three writes only a crash can   *)
(* happen.                                                                 *)
(***************************************************************************)
EXTENDS Integers, FiniteSets

CONSTANTS
    Items,        \* the tokens
    None,         \* the item of a rotation marker
    ReplayLimit,  \* REPLAY_BATCH_LIMIT
    Faults,       \* what may fail: "append", "torn", "apply", "rotation", "meta"
    MaxLsn,       \* bound on the LSNs assigned
    MaxRotations, \* bound on the rotations of the core revoker
    MaxCrashes    \* bound on crashes and shutdowns

ASSUME NoneAssumption == None \notin Items
ASSUME BoundsAssumption ==
    {ReplayLimit, MaxLsn, MaxRotations, MaxCrashes} \subseteq Nat
ASSUME FaultsAssumption ==
    Faults \subseteq {"append", "torn", "apply", "rotation", "meta"}

VARIABLES
    status,      \* "running", "closing", "down"
    \* The core revoker.
    current, previous, blobCur, blobPrev, coreWal,
    rotating,    \* "no", "saved" or "unsaved" (before the swap), then the steps of
                 \* the hook: "marker", "meta", "retention"
    \* The canonical log: its lines, and what the process knows of it.
    lines,       \* events in the files: lsn, kind, file (generation), item
    torn,        \* TRUE iff the current file ends in a partial line
    nextLsn, canonGen, deletedMaxLsn,
    \* The checkpoint: #metaState and coordinator-meta-<id>.json.
    metaState, metaFile,
    \* Observations and bounds.
    issued,      \* every event that an LSN was assigned to and that was sent
    age,         \* rotations since an item was accepted (2: no promise)
    exempt,      \* accepted while, or saved by, a rotation that may not have it
    rotations, crashes

core   == <<current, previous, blobCur, blobPrev, coreWal>>
canon  == <<lines, torn, nextLsn, canonGen, deletedMaxLsn>>
meta   == <<metaState, metaFile>>
ghosts == <<issued, age, exempt>>
vars   == <<status, core, rotating, canon, meta, ghosts, rotations, crashes>>

Event(lsn, kind, item) == [lsn |-> lsn, kind |-> kind, file |-> canonGen, item |-> item]

-----------------------------------------------------------------------------
(* CanonicalWal.                                                           *)

\* A line appended to a torn one is malformed, and skipped by every reader.
Line(e) ==
    /\ lines' = IF torn THEN lines ELSE lines \cup {e}
    /\ torn' = FALSE

\* An append that fails may have written a part of its line.
MayTear(was) == torn' \in (IF "torn" \in Faults THEN {was, TRUE} ELSE {was})

\* readSince: by LSN, a tombstone overriding the entry of its LSN; the lowest
\* `limit` of them.
Effective == {e \in lines : ~\E d \in lines : d.lsn = e.lsn /\ d.kind = "T" /\ e.kind = "E"}
ReadSince(from, limit) ==
    {e \in Effective : /\ e.lsn > from
                       /\ Cardinality({d \in Effective : from < d.lsn /\ d.lsn <= e.lsn}) <= limit}

MaxOf(S, floor) == CHOOSE n \in S \cup {floor} : \A m \in S \cup {floor} : m <= n
ScanMaxLsn == MaxOf({e.lsn : e \in lines}, 0)
ScanMaxGeneration ==
    MaxOf({e.file : e \in lines} \cup {e.file + 1 : e \in {d \in lines : d.kind = "R"}}, 0)

\* truncateOldGenerations: never a file with an event above the floor.
Retired(keepFrom, floor) ==
    {g \in {e.file : e \in lines} :
        g < keepFrom /\ \A e \in lines : e.file = g => e.lsn <= floor}

CanServeFrom(from) == from >= deletedMaxLsn

-----------------------------------------------------------------------------
(* add().                                                                  *)

\* The core log holds the item, unless a backup that is under way empties it
\* (BloomFilterManager!NoLossWindow).
CoreAdd(i) ==
    /\ current' = current \cup {i}
    /\ coreWal' \in {coreWal, coreWal \cup {i}}
    /\ UNCHANGED <<previous, blobCur, blobPrev>>

\* The process is between two events: another process can look at it.
Quiet == rotating \in {"no", "saved", "unsaved"}

AddGuard == status = "running" /\ Quiet /\ nextLsn <= MaxLsn

Add(i) ==
    /\ AddGuard
    /\ LET e == Event(nextLsn, "E", i) IN Line(e) /\ issued' = issued \cup {e}
    /\ nextLsn' = nextLsn + 1
    /\ CoreAdd(i)
    /\ age' = [age EXCEPT ![i] = 0]
    /\ exempt' = IF torn \/ (rotating = "saved" /\ i \notin blobCur)
                 THEN exempt \cup {i} ELSE exempt \ {i}
    /\ UNCHANGED <<status, rotating, canonGen, deletedMaxLsn, meta, rotations, crashes>>

\* The local apply fails (saturation, disk): the LSN gets a tombstone, and the
\* entry is sent to the nodes all the same.
AddTombstoned(i) ==
    /\ "apply" \in Faults
    /\ AddGuard
    /\ LET e == Event(nextLsn, "E", i)
           t == Event(nextLsn, "T", i)
       IN  /\ lines' = IF torn THEN lines \cup {t} ELSE lines \cup {e, t}
           /\ issued' = issued \cup {e}
    /\ torn' = FALSE
    /\ nextLsn' = nextLsn + 1
    /\ UNCHANGED <<status, core, rotating, canonGen, deletedMaxLsn, meta, age, exempt,
                   rotations, crashes>>

\* The tombstone cannot be written either: the entry stays as it is, unsent.
AddUntombstoned(i) ==
    /\ {"apply", "append"} \subseteq Faults
    /\ AddGuard
    /\ LET e == Event(nextLsn, "E", i)
       IN  /\ lines' = IF torn THEN lines ELSE lines \cup {e}
           /\ issued' = issued \cup {e}
    /\ MayTear(FALSE)
    /\ nextLsn' = nextLsn + 1
    /\ UNCHANGED <<status, core, rotating, canonGen, deletedMaxLsn, meta, age, exempt,
                   rotations, crashes>>

\* The canonical append fails: the call fails, and the LSN is not used again.
AddFails ==
    /\ "append" \in Faults
    /\ AddGuard
    /\ nextLsn' = nextLsn + 1
    /\ MayTear(torn)
    /\ UNCHANGED <<status, core, rotating, lines, canonGen, deletedMaxLsn, meta,
                   ghosts, rotations, crashes>>

-----------------------------------------------------------------------------
(* The core revoker's own backups and rotations.                           *)

Backup ==
    /\ status \in {"running", "closing"}
    /\ rotating = "no"
    /\ blobCur' = current
    /\ coreWal' = {}
    /\ UNCHANGED <<status, current, previous, blobPrev, rotating, canon, meta, ghosts,
                   rotations, crashes>>

\* A rotation has saved the filter and emptied the log, or failed to; adds go
\* on until the swap.
RotateBegin ==
    /\ status = "running"
    /\ rotating = "no"
    /\ rotations < MaxRotations
    /\ rotations' = rotations + 1
    /\ \/ /\ rotating' = "saved"
          /\ blobCur' = current
          /\ coreWal' = {}
       \/ /\ "rotation" \in Faults
          /\ rotating' = "unsaved"
          /\ UNCHANGED <<blobCur, coreWal>>
    /\ UNCHANGED <<status, current, previous, blobPrev, canon, meta, ghosts, crashes>>

Aged == [i \in Items |-> IF age[i] < 2 THEN age[i] + 1 ELSE 2]

\* The swap; the hook runs next, unless shutdown() was called.
Swap ==
    /\ previous' = current
    /\ current' = {}
    /\ age' = Aged
    /\ rotating' = IF status = "closing" THEN "no" ELSE "marker"
    /\ UNCHANGED <<status, coreWal, canon, meta, issued, rotations, crashes>>

RotateEnd ==
    /\ rotating = "saved"
    /\ Swap
    /\ blobPrev' = blobCur
    /\ blobCur' = {}
    /\ UNCHANGED exempt

\* The save failed, or the renaming of the blob that follows it: the core
\* revoker rotates in memory only, and the hook fires all the same.
RotateUnsaved ==
    /\ "rotation" \in Faults
    /\ rotating \in {"saved", "unsaved"}
    /\ Swap
    /\ UNCHANGED <<blobCur, blobPrev>>
    /\ exempt' = exempt \cup {i \in Items : age[i] = 0}

-----------------------------------------------------------------------------
(* #onCoreRotation.                                                        *)

\* The marker goes to the file of the old generation.
HookMarker ==
    /\ rotating = "marker"
    /\ LET e == Event(nextLsn, "R", None) IN Line(e) /\ issued' = issued \cup {e}
    /\ nextLsn' = nextLsn + 1
    /\ canonGen' = metaState.generation + 1
    /\ rotating' = "meta"
    /\ UNCHANGED <<status, core, deletedMaxLsn, meta, age, exempt, rotations, crashes>>

HookMarkerFails ==
    /\ "append" \in Faults
    /\ rotating = "marker"
    /\ nextLsn' = nextLsn + 1
    /\ rotating' = "no"
    /\ MayTear(torn)
    /\ UNCHANGED <<status, core, lines, canonGen, deletedMaxLsn, meta, ghosts,
                   rotations, crashes>>

Checkpoint == [generation |-> canonGen, lastLsn |-> nextLsn - 1, lastBackupLsn |-> nextLsn - 1]

HookMeta ==
    /\ rotating = "meta"
    /\ metaState' = Checkpoint
    /\ metaFile' = Checkpoint
    /\ rotating' = "retention"
    /\ UNCHANGED <<status, core, canon, ghosts, rotations, crashes>>

\* The write of the checkpoint throws: the state in memory has moved on.
HookMetaFails ==
    /\ "meta" \in Faults
    /\ rotating = "meta"
    /\ metaState' = Checkpoint
    /\ rotating' = "no"
    /\ UNCHANGED <<status, core, canon, metaFile, ghosts, rotations, crashes>>

\* Mutants: what was deleted is not remembered; one LSN too many is.
HookRetentionForgets ==
    /\ rotating = "retention"
    /\ lines' = {e \in lines :
                    e.file \notin Retired(metaState.generation - 1, metaState.lastBackupLsn)}
    /\ rotating' = "no"
    /\ UNCHANGED <<status, core, torn, nextLsn, canonGen, deletedMaxLsn, meta, ghosts,
                   rotations, crashes>>

HookRetentionOffByOne ==
    /\ rotating = "retention"
    /\ lines' = {e \in lines :
                    e.file \notin Retired(metaState.generation - 1, metaState.lastBackupLsn)}
    /\ deletedMaxLsn' = nextLsn
    /\ rotating' = "no"
    /\ UNCHANGED <<status, core, torn, nextLsn, canonGen, meta, ghosts, rotations, crashes>>

HookRetention ==
    /\ rotating = "retention"
    /\ LET gone == Retired(metaState.generation - 1, metaState.lastBackupLsn)
       IN  /\ lines' = {e \in lines : e.file \notin gone}
           /\ deletedMaxLsn' = MaxOf({e.lsn : e \in {d \in lines : d.file \in gone}},
                                     deletedMaxLsn)
    /\ rotating' = "no"
    /\ UNCHANGED <<status, core, torn, nextLsn, canonGen, meta, ghosts, rotations, crashes>>

-----------------------------------------------------------------------------
(* Shutdown, crash, restart.                                               *)

Shutdown ==
    /\ status = "running"
    /\ Quiet
    /\ crashes < MaxCrashes
    /\ status' = "closing"
    /\ metaState' = [metaState EXCEPT !.lastLsn = nextLsn - 1]
    /\ metaFile' = metaState'
    /\ UNCHANGED <<core, rotating, canon, ghosts, rotations, crashes>>

\* The process ends: shutdown() has waited for the rotation, or a crash at any
\* point, which may leave half a line.
Stop ==
    /\ status # "down"
    /\ crashes < MaxCrashes
    /\ crashes' = crashes + 1
    /\ status' = "down"
    /\ current' = {} /\ previous' = {}
    /\ rotating' = "no"
    /\ torn' \in IF "torn" \in Faults /\ status = "running" /\ (Quiet \/ rotating = "marker")
                 THEN {torn, TRUE} ELSE {torn}
    /\ UNCHANGED <<blobCur, blobPrev, coreWal, lines, nextLsn, canonGen, deletedMaxLsn, meta,
                   ghosts, rotations>>

\* Mutants: only the checkpoint, or only the files, say where the LSNs go on.
ResumeLsnFromMeta == metaFile.lastLsn
ResumeLsnFromScan == ScanMaxLsn

\* Mutant: the next LSN is taken for the last one.
ResumeLsnOffByOne == MaxOf({metaFile.lastLsn, ScanMaxLsn}, 0) - 1

ResumeLsn == MaxOf({metaFile.lastLsn, ScanMaxLsn}, 0)
ResumeGeneration == MaxOf({metaFile.generation, ScanMaxGeneration}, 0)

\* Mutant: the core revoker's own restore is trusted.
TailSkipped == {}

Tail == {e.item : e \in {d \in ReadSince(metaFile.lastBackupLsn, ReplayLimit) : d.kind = "E"}}

\* What the limit cuts off, with a warning: the newest entries.
Skipped ==
    {e.item : e \in {d \in Effective : d.lsn > metaFile.lastBackupLsn /\ d.kind = "E"}
                  \ ReadSince(metaFile.lastBackupLsn, ReplayLimit)}

\* Mutant: the restart takes the end of the log for the consistency point.
StartAtEnd ==
    /\ status = "down"
    /\ status' = "running"
    /\ nextLsn' = ResumeLsn + 1
    /\ canonGen' = ResumeGeneration
    /\ deletedMaxLsn' = metaFile.lastBackupLsn
    /\ current' = blobCur \cup coreWal \cup Tail
    /\ previous' = blobPrev
    /\ coreWal' = coreWal \cup Tail
    /\ metaFile' = [generation |-> ResumeGeneration, lastLsn |-> ResumeLsn,
                    lastBackupLsn |-> ResumeLsn]
    /\ metaState' = metaFile'
    /\ age' = [i \in Items |-> IF i \in (exempt \cup Skipped) \ current' THEN 2 ELSE age[i]]
    /\ UNCHANGED <<blobCur, blobPrev, rotating, lines, torn, issued, exempt, rotations,
                   crashes>>

\* init(): the core revoker restores its files, then the canonical tail is
\* applied to it, log first.
Start ==
    /\ status = "down"
    /\ status' = "running"
    /\ nextLsn' = ResumeLsn + 1
    /\ canonGen' = ResumeGeneration
    /\ deletedMaxLsn' = metaFile.lastBackupLsn
    /\ current' = blobCur \cup coreWal \cup Tail
    /\ previous' = blobPrev
    /\ coreWal' = coreWal \cup Tail
    /\ metaFile' = [generation |-> ResumeGeneration, lastLsn |-> ResumeLsn,
                    lastBackupLsn |-> metaFile.lastBackupLsn]
    /\ metaState' = metaFile'
    /\ age' = [i \in Items |-> IF i \in (exempt \cup Skipped) \ current' THEN 2 ELSE age[i]]
    /\ UNCHANGED <<blobCur, blobPrev, rotating, lines, torn, issued, exempt, rotations,
                   crashes>>

\* init() stops after the replay: a crash, or the checkpoint cannot be written.
StartFails ==
    /\ status = "down"
    /\ coreWal' = coreWal \cup Tail
    /\ UNCHANGED <<status, current, previous, blobCur, blobPrev, rotating, canon, meta, ghosts,
                   rotations, crashes>>

Init ==
    /\ status = "running"
    /\ current = {} /\ previous = {} /\ blobCur = {} /\ blobPrev = {} /\ coreWal = {}
    /\ rotating = "no"
    /\ lines = {} /\ torn = FALSE
    /\ nextLsn = 1 /\ canonGen = 0 /\ deletedMaxLsn = 0
    /\ metaState = [generation |-> 0, lastLsn |-> 0, lastBackupLsn |-> 0]
    /\ metaFile = metaState
    /\ issued = {} /\ age = [i \in Items |-> 2] /\ exempt = {}
    /\ rotations = 0 /\ crashes = 0

Next ==
    \/ \E i \in Items : Add(i) \/ AddTombstoned(i) \/ AddUntombstoned(i)
    \/ AddFails \/ Backup
    \/ RotateBegin \/ RotateEnd \/ RotateUnsaved
    \/ HookMarker \/ HookMarkerFails \/ HookMeta \/ HookMetaFails \/ HookRetention
    \/ Shutdown \/ Stop \/ Start \/ StartFails

Spec == Init /\ [][Next]_vars

-----------------------------------------------------------------------------
(* Properties.                                                             *)

Kinds == {"E", "T", "R"}
Events == [lsn : Nat \ {0}, kind : Kinds, file : Nat, item : Items \cup {None}]
MetaStates == [generation : Nat, lastLsn : Nat, lastBackupLsn : Nat]

TypeOK ==
    /\ status \in {"running", "closing", "down"}
    /\ {current, previous, blobCur, blobPrev, coreWal} \subseteq SUBSET Items
    /\ rotating \in {"no", "saved", "unsaved", "marker", "meta", "retention"}
    /\ lines \subseteq Events /\ torn \in BOOLEAN
    /\ nextLsn \in Nat \ {0} /\ canonGen \in Nat /\ deletedMaxLsn \in Nat
    /\ metaState \in MetaStates /\ metaFile \in MetaStates
    /\ issued \subseteq Events /\ age \in [Items -> 0..2] /\ exempt \subseteq Items

\* Comment of CanonicalWal: every event carries an LSN of its own.  No restart,
\* retention or failed append makes the log number two events alike.
LsnUnique == \A d, e \in issued : d.lsn = e.lsn => d = e

\* What canServeFrom answers is sound: above the point it allows, readSince
\* still has every event that was ever sent.
RetainedComplete ==
    (status = "running" /\ Quiet) =>
        \A e \in issued : e.lsn > deletedMaxLsn => e \in lines

\* A node that has just bootstrapped can subscribe: the consistency point of a
\* snapshot is never below what canServeFrom allows.
SnapshotServable ==
    (status = "running" /\ Quiet) => CanServeFrom(metaState.lastBackupLsn)

\* What a node holds that installs the snapshot taken now and reads the tail.
Bootstrapped ==
    blobCur \cup blobPrev \cup
    {e.item : e \in {d \in Effective : d.lsn > metaState.lastBackupLsn /\ d.kind # "R"}}

\* Comment of getSnapshot: exact or conservative, whenever it is taken.  A node
\* that bootstraps covers every accepted token of the last two windows, but
\* for those a rotation may have missed.
SnapshotComplete ==
    (status = "running" /\ Quiet) =>
        \A i \in Items \ exempt : age[i] < 2 => i \in Bootstrapped

\* Class comment, "crash recovery": the coordinator's own filter has every
\* accepted token of the last two windows, even where the core revoker's log
\* was lost.
CoordinatorCoverage ==
    status = "running" => \A i \in Items :
        /\ age[i] = 0 => i \in current
        /\ age[i] = 1 => i \in current \cup previous

\* Comment in init(): a crash must not rewind either counter.
CheckpointMonotone ==
    [][/\ metaFile'.generation >= metaFile.generation
       /\ metaFile'.lastLsn >= metaFile.lastLsn
       /\ metaFile'.lastBackupLsn >= metaFile.lastBackupLsn]_vars

\* Comment of getSnapshot, as it stands: never lossy.
SnapshotLossless ==
    (status = "running" /\ Quiet) => \A i \in Items : age[i] < 2 => i \in Bootstrapped
=============================================================================
