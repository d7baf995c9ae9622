------------------------- MODULE BloomFilterManager -------------------------
(***************************************************************************)
(* One revoker instance of token-revoker: the BloomFilterManager, which    *)
(* keeps a current and a previous Bloom filter and rotates them, and the   *)
(* BloomFilterBackupManager, which keeps two filter blobs and a write-ahead*)
(* log (the "temp file") on disk, for an instance with backups enabled and *)
(* without the write buffer (WriteBuffer.tla is the buffered mode).        *)
(*                                                                         *)
(* JavaScript runs one synchronous block at a time, so an action is what   *)
(* runs between two awaits that let another event in.  Every periodic      *)
(* backup, scheduled rotation and rotation on demand is a job with a phase *)
(* of its own, and the disk steps of a job are separate actions.           *)
(*                                                                         *)
(* A filter is the exact set of its items: what the properties are about   *)
(* is the absence of false negatives, which false positives cannot hide.   *)
(***************************************************************************)
EXTENDS Integers, FiniteSets

CONSTANTS
    Items,            \* the tokens
    Tasks,            \* activations of the backup interval that may overlap
    TimerJobs,        \* activations of the rotation interval that may overlap
    Demands,          \* callers of rotateOnDemand that may overlap
    Sources,          \* which entry points are used: "add", "apply"
    Faults,           \* which disk operations may fail: "torn", "periodic", "rotation"
    SaturationLimit,  \* numItems * MAX_SATURATION_RATIO
    MaxTries,         \* attempts of one periodic backup (3 in the code)
    MaxInsertions,    \* bound on the insertions counted since a rotation
    Budget            \* bound on how often each of BudgetKinds happens

Rotators == TimerJobs \cup Demands
Jobs == Tasks \cup Rotators
BudgetKinds == {"rotation", "crash", "reset"}

ASSUME JobsAssumption ==
    Tasks \cap Rotators = {} /\ TimerJobs \cap Demands = {}
ASSUME LimitsAssumption ==
    /\ SaturationLimit \in Nat /\ MaxInsertions \in Nat /\ MaxTries \in Nat \ {0}
    /\ Budget \in [BudgetKinds -> Nat]
ASSUME FaultsAssumption ==
    Faults \subseteq {"torn", "periodic", "rotation"} /\ Sources \subseteq {"add", "apply"}

VARIABLES
    status,       \* "running", "closing" (shutdown called), "destroyed", "down"
    current,      \* the filter that takes new tokens
    previous,     \* the filter of the previous window
    insertions,   \* #currentInsertions
    timers,       \* live rotation intervals
    handle,       \* how many of them rotationInterval names: 0 (null) or 1
    generation,   \* #generation of the backup manager
    backupGen,    \* the generation the running backup interval captured
    phase,        \* phase[j]: where job j is
    gen,          \* gen[t]: the generation backup t was scheduled in
    tries,        \* tries[t]: failed attempts of backup t
    aliased,      \* aliased[j]: the filter j saves is still the current one
    frozen,       \* frozen[j]: what that filter holds when it no longer is
    resetPc,      \* "idle", or the reset that waits for the mutex
    blobCur,      \* current-<id>.blob
    blobPrev,     \* previous-<id>.blob
    tmp,          \* current-<id>.blob.tmp while a job writes it, else {}
    wal,          \* temp-<id>.txt, the write-ahead log
    walTorn       \* TRUE iff the log ends in a partial line

\* Observations only: no guard of the program reads them, except the budget.
VARIABLES
    age,          \* age[i]: rotations since i was acknowledged (2: none is owed)
    atRisk,       \* acknowledged tokens that a crash may lose, see AckRisk
    budget        \* what is left of Budget

memory == <<current, previous, insertions>>
timing == <<timers, handle>>
disk   == <<blobCur, blobPrev, tmp, wal, walTorn>>
jobs   == <<phase, gen, tries, aliased, frozen>>
ghosts == <<age, atRisk>>
vars   == <<status, memory, timing, generation, backupGen, jobs, resetPc, disk,
            ghosts, budget>>

\* A rotation is inside the manager's mutex; a job is inside the file mutex.
Holding  == {"locked", "written", "renamed", "truncated"}
Rotating == {"queued"} \cup Holding
MgrFree  == \A r \in Rotators : phase[r] \notin Rotating
FileFree == \A j \in Jobs : phase[j] \notin Holding

Live    == status \in {"running", "closing"}
Content(j) == IF aliased[j] THEN current ELSE frozen[j]

-----------------------------------------------------------------------------
(* Jobs and timers.                                                        *)

\* The objects a job holds when `current` stops being the filter they name.
Detached == [j \in Jobs |-> IF aliased[j] THEN current ELSE frozen[j]]

EndJob(j) ==
    /\ phase' = [phase EXCEPT ![j] = "idle"]
    /\ gen' = [gen EXCEPT ![j] = 0]
    /\ tries' = [tries EXCEPT ![j] = 0]

\* End of a job that leaves the filters as they are.
Leave(j) ==
    /\ EndJob(j)
    /\ aliased' = [aliased EXCEPT ![j] = FALSE]
    /\ frozen' = [frozen EXCEPT ![j] = {}]

Advance(j, p) ==
    /\ phase' = [phase EXCEPT ![j] = p]
    /\ UNCHANGED <<gen, tries, aliased, frozen>>

\* Mutant: the interval is not started again.
FinishTimingMissed(r) == UNCHANGED timing

\* rotateOnDemand starts the interval again in its finally block: an interval
\* that another caller started meanwhile stays alive without a handle.
FinishTiming(r) ==
    IF r \in Demands THEN timers' = timers + 1 /\ handle' = 1
                     ELSE UNCHANGED timing

\* Mutant: a null rotationInterval is not checked.
StoppedTimersUnchecked == timers - 1

StoppedTimers == timers - handle

NoJobs ==
    /\ phase' = [j \in Jobs |-> "idle"]
    /\ gen' = [j \in Jobs |-> 0]
    /\ tries' = [j \in Jobs |-> 0]
    /\ aliased' = [j \in Jobs |-> FALSE]
    /\ frozen' = [j \in Jobs |-> {}]

-----------------------------------------------------------------------------
(* Acknowledgements.                                                       *)

\* A backup of the current filter is running: what it captured so far.
Captured(j) == IF phase[j] \in {"locked", "written"} THEN tmp ELSE blobCur
WindowOpen(j) == phase[j] \in Holding /\ aliased[j]

\* The acknowledgement of i is at risk when its log record joins a torn line,
\* or is written while a backup that does not contain i is about to empty the
\* log.  A token also is at risk once the backup of its rotation has failed.
AckRisk(i) ==
    walTorn \/ \E j \in Jobs : WindowOpen(j) /\ i \notin Captured(j)

Insert(i) ==
    /\ status = "running"
    /\ insertions < MaxInsertions
    /\ wal' = IF walTorn THEN wal ELSE wal \cup {i}
    /\ walTorn' = FALSE
    /\ current' = current \cup {i}
    /\ insertions' = insertions + 1
    /\ age' = [age EXCEPT ![i] = 0]
    /\ atRisk' = IF AckRisk(i) THEN atRisk \cup {i} ELSE atRisk \ {i}
    /\ UNCHANGED <<status, previous, timing, generation, backupGen, jobs, resetPc,
                   blobCur, blobPrev, tmp, budget>>

Add(i) ==
    /\ "add" \in Sources
    /\ ~(insertions > SaturationLimit)
    /\ Insert(i)

ApplyEntry(i) ==
    /\ "apply" \in Sources
    /\ Insert(i)

\* An append stops half way (disk full, crash): the add fails, or its next
\* attempt, which is Add again, continues the same line.
TornAppend ==
    /\ "torn" \in Faults
    /\ status = "running"
    /\ ~walTorn
    /\ walTorn' = TRUE
    /\ UNCHANGED <<status, memory, timing, generation, backupGen, jobs, resetPc,
                   blobCur, blobPrev, tmp, wal, ghosts, budget>>

-----------------------------------------------------------------------------
(* Periodic backups.                                                       *)

\* The interval fires: a backup of an older generation returns at once.
BackupTick(t) ==
    /\ Live
    /\ phase[t] = "idle"
    /\ backupGen = generation
    /\ phase' = [phase EXCEPT ![t] = "queued"]
    /\ gen' = [gen EXCEPT ![t] = backupGen]
    /\ aliased' = [aliased EXCEPT ![t] = TRUE]
    /\ UNCHANGED <<status, memory, timing, generation, backupGen, tries, frozen,
                   resetPc, disk, ghosts, budget>>

\* Mutants: no second generation check; no file mutex.
LockFileUnchecked(j) ==
    /\ phase[j] = "queued"
    /\ FileFree
    /\ Advance(j, "locked") /\ tmp' = Content(j)
    /\ UNCHANGED <<status, memory, timing, generation, backupGen, resetPc,
                   blobCur, blobPrev, wal, walTorn, ghosts, budget>>

LockFileShared(j) ==
    /\ phase[j] = "queued"
    /\ IF j \in Tasks /\ gen[j] # generation
       THEN Leave(j) /\ UNCHANGED tmp
       ELSE Advance(j, "locked") /\ tmp' = Content(j)
    /\ UNCHANGED <<status, memory, timing, generation, backupGen, resetPc,
                   blobCur, blobPrev, wal, walTorn, ghosts, budget>>

\* The file mutex is granted; a periodic backup checks its generation again.
LockFile(j) ==
    /\ phase[j] = "queued"
    /\ FileFree
    /\ IF j \in Tasks /\ gen[j] # generation
       THEN Leave(j) /\ UNCHANGED tmp
       ELSE Advance(j, "locked") /\ tmp' = Content(j)
    /\ UNCHANGED <<status, memory, timing, generation, backupGen, resetPc,
                   blobCur, blobPrev, wal, walTorn, ghosts, budget>>

\* Buffer.from shares the memory of the filter: a token added while the file
\* is written may or may not be in it.
WriteBlob(j) ==
    /\ phase[j] = "locked"
    /\ \E S \in SUBSET Content(j) : tmp' = tmp \cup S
    /\ Advance(j, "written")
    /\ UNCHANGED <<status, memory, timing, generation, backupGen, resetPc,
                   blobCur, blobPrev, wal, walTorn, ghosts, budget>>

RenameBlob(j) ==
    /\ phase[j] = "written"
    /\ blobCur' = tmp
    /\ tmp' = {}
    /\ atRisk' = atRisk \ tmp
    /\ Advance(j, "renamed")
    /\ UNCHANGED <<status, memory, timing, generation, backupGen, resetPc,
                   blobPrev, wal, walTorn, age, budget>>

TruncateLog(j) ==
    /\ phase[j] = "renamed"
    /\ wal' = {}
    /\ walTorn' = FALSE
    /\ IF j \in Tasks THEN Leave(j) ELSE Advance(j, "truncated")
    /\ UNCHANGED <<status, memory, timing, generation, backupGen, resetPc,
                   blobCur, blobPrev, tmp, ghosts, budget>>

\* Mutant: the mutex is not released on the error path.
BackupFailsHoldingMutex(t) ==
    /\ "periodic" \in Faults
    /\ phase[t] \in Holding \ {"truncated"}
    /\ Advance(t, "truncated")
    /\ UNCHANGED <<status, memory, timing, generation, backupGen, resetPc, disk,
                   ghosts, budget>>

BackupFails(t) ==
    /\ "periodic" \in Faults
    /\ phase[t] \in Holding
    /\ IF tries[t] + 1 < MaxTries
       THEN /\ phase' = [phase EXCEPT ![t] = "sleeping"]
            /\ tries' = [tries EXCEPT ![t] = @ + 1]
            /\ UNCHANGED <<gen, aliased, frozen>>
       ELSE Leave(t)
    /\ tmp' = {}
    /\ UNCHANGED <<status, memory, timing, generation, backupGen, resetPc, blobCur,
                   blobPrev, wal, walTorn, ghosts, budget>>

\* The retry delay is over: the loop checks the generation first.
BackupRetry(t) ==
    /\ phase[t] = "sleeping"
    /\ IF gen[t] # generation THEN Leave(t) ELSE Advance(t, "queued")
    /\ UNCHANGED <<status, memory, timing, generation, backupGen, resetPc, disk,
                   ghosts, budget>>

-----------------------------------------------------------------------------
(* Rotations.                                                              *)

RotationTick(r) ==
    /\ status # "down"
    /\ timers > 0
    /\ phase[r] = "idle"
    /\ budget["rotation"] > 0
    /\ Advance(r, "waiting")
    /\ budget' = [budget EXCEPT !["rotation"] = @ - 1]
    /\ UNCHANGED <<status, memory, timing, generation, backupGen, resetPc, disk,
                   ghosts>>

RotateOnDemand(r) ==
    /\ status = "running"
    /\ phase[r] = "idle"
    /\ budget["rotation"] > 0
    /\ timers' = StoppedTimers
    /\ handle' = 0
    /\ Advance(r, "waiting")
    /\ budget' = [budget EXCEPT !["rotation"] = @ - 1]
    /\ UNCHANGED <<status, memory, generation, backupGen, resetPc, disk, ghosts>>

\* The manager's mutex is granted.  backupRotate invalidates the periodic
\* backups before it waits for the file mutex; a destroyed manager has no
\* backup manager left and only swaps two empty filters.
AcquireManager(r) ==
    /\ phase[r] = "waiting"
    /\ MgrFree
    /\ IF Live
       THEN /\ generation' = generation + 1
            /\ phase' = [phase EXCEPT ![r] = "queued"]
            /\ aliased' = [aliased EXCEPT ![r] = TRUE]
            /\ UNCHANGED <<timing, insertions, gen, tries, frozen>>
       ELSE /\ Leave(r)
            /\ FinishTiming(r)
            /\ insertions' = 0
            /\ UNCHANGED generation
    /\ UNCHANGED <<status, current, previous, backupGen, resetPc, disk, ghosts, budget>>

\* Mutant: the new filter is made before the old one is promoted.
SwapFiltersReordered(r) ==
    /\ previous' = {}
    /\ current' = {}
    /\ insertions' = 0
    /\ backupGen' = IF Live THEN generation ELSE backupGen
    /\ EndJob(r)
    /\ aliased' = [j \in Jobs |-> FALSE]
    /\ frozen' = [Detached EXCEPT ![r] = {}]
    /\ FinishTiming(r)
    /\ UNCHANGED <<status, generation, resetPc, budget>>

\* The synchronous end of #rotate: the filters are swapped and the backup
\* interval starts again with the new filter and the present generation.
SwapFilters(r) ==
    /\ previous' = current
    /\ current' = {}
    /\ insertions' = 0
    /\ backupGen' = IF Live THEN generation ELSE backupGen
    /\ EndJob(r)
    /\ aliased' = [j \in Jobs |-> FALSE]
    /\ frozen' = [Detached EXCEPT ![r] = {}]
    /\ FinishTiming(r)
    /\ UNCHANGED <<status, generation, resetPc, budget>>

Aged == [i \in Items |-> IF age[i] < 2 THEN age[i] + 1 ELSE 2]

\* No event runs between the end of the truncation and the swap, so the rename
\* of the blob and the swap of the filters are one step.
FinishRotation(r) ==
    /\ phase[r] = "truncated"
    /\ blobPrev' = blobCur
    /\ blobCur' = {}
    /\ SwapFilters(r)
    /\ age' = Aged
    /\ UNCHANGED <<tmp, wal, walTorn, atRisk>>

\* Mutant: the rotation gives up, and its window passes all the same.
RotationAborts(r) ==
    /\ "rotation" \in Faults
    /\ phase[r] \in Holding
    /\ Leave(r)
    /\ FinishTiming(r)
    /\ age' = Aged
    /\ tmp' = {}
    /\ UNCHANGED <<status, memory, generation, backupGen, resetPc, blobCur, blobPrev,
                   wal, walTorn, atRisk, budget>>

\* The backup of the rotation fails at any of its steps: the rotation goes on
\* in memory only.
RotationBackupFails(r) ==
    /\ "rotation" \in Faults
    /\ phase[r] \in Holding
    /\ SwapFilters(r)
    /\ IF Live
       THEN age' = Aged /\ atRisk' = atRisk \cup current
       ELSE UNCHANGED <<age, atRisk>>
    /\ tmp' = {}
    /\ UNCHANGED <<blobCur, blobPrev, wal, walTorn>>

-----------------------------------------------------------------------------
(* Resets, shutdown, crash and restart.                                    *)

\* Mutant: the log is replayed only where there is no blob.
RestoreFilesBlobFirst ==
    /\ current' = IF blobCur # {} THEN blobCur ELSE wal
    /\ previous' = blobPrev
    /\ insertions' = 0
    /\ age' = [i \in Items |-> IF i \in atRisk \ (blobCur \cup wal) THEN 2 ELSE age[i]]

\* What the restore brings back; a token at risk may be gone for good.
RestoreFiles ==
    /\ current' = blobCur \cup wal
    /\ previous' = blobPrev
    /\ insertions' = 0
    /\ age' = [i \in Items |-> IF i \in atRisk \ (blobCur \cup wal) THEN 2 ELSE age[i]]

ResetCall ==
    /\ Live
    /\ resetPc = "idle"
    /\ budget["reset"] > 0
    /\ resetPc' = "restore"
    /\ budget' = [budget EXCEPT !["reset"] = @ - 1]
    /\ UNCHANGED <<status, memory, timing, generation, backupGen, jobs, disk, ghosts>>

\* The files go at once, the filters when the mutex is granted.
ClearCall ==
    /\ Live
    /\ resetPc = "idle"
    /\ budget["reset"] > 0
    /\ resetPc' = "clear"
    /\ budget' = [budget EXCEPT !["reset"] = @ - 1]
    /\ blobCur' = {} /\ blobPrev' = {} /\ wal' = {} /\ walTorn' = FALSE
    /\ insertions' = 0
    /\ age' = [i \in Items |-> 2]
    /\ UNCHANGED <<status, current, previous, timing, generation, backupGen, jobs,
                   tmp, atRisk>>

\* resetAndRestore inside the mutex.  The generation is left alone, and so are
\* the periodic backups that are under way.
ResetRun ==
    /\ resetPc # "idle"
    /\ MgrFree
    /\ resetPc' = "idle"
    /\ timers' = StoppedTimers + 1
    /\ handle' = 1
    /\ IF Live
       THEN /\ RestoreFiles
            /\ atRisk' = atRisk \cap (blobCur \cup wal)
            /\ backupGen' = generation
       ELSE insertions' = 0 /\ UNCHANGED <<current, previous, age, atRisk, backupGen>>
    /\ frozen' = Detached
    /\ aliased' = [j \in Jobs |-> FALSE]
    /\ UNCHANGED <<status, generation, phase, gen, tries, disk, budget>>

Shutdown ==
    /\ status = "running"
    /\ status' = "closing"
    /\ UNCHANGED <<memory, timing, generation, backupGen, jobs, resetPc, disk, ghosts,
                   budget>>

\* destroy(): called by the user at any time, or by shutdown() once it has had
\* the mutex.  The jobs that are under way go on.
Destroy ==
    /\ status = "running" \/ (status = "closing" /\ MgrFree)
    /\ status' = "destroyed"
    /\ timers' = StoppedTimers
    /\ handle' = 0
    /\ current' = {} /\ previous' = {}
    /\ frozen' = Detached
    /\ aliased' = [j \in Jobs |-> FALSE]
    /\ UNCHANGED <<insertions, generation, backupGen, phase, gen, tries, resetPc, disk,
                   ghosts, budget>>

\* The process ends, at any point of any job.
Crash ==
    /\ status # "down"
    /\ budget["crash"] > 0
    /\ status' = "down"
    /\ current' = {} /\ previous' = {} /\ insertions' = 0
    /\ timers' = 0 /\ handle' = 0
    /\ generation' = 0 /\ backupGen' = 0
    /\ NoJobs
    /\ resetPc' = "idle"
    /\ tmp' = {}
    /\ budget' = [budget EXCEPT !["crash"] = @ - 1]
    /\ UNCHANGED <<blobCur, blobPrev, wal, walTorn, ghosts>>

\* The constructor of the next process.
Start ==
    /\ status = "down"
    /\ status' = "running"
    /\ RestoreFiles
    /\ atRisk' = {}
    /\ timers' = 1 /\ handle' = 1
    /\ UNCHANGED <<generation, backupGen, jobs, resetPc, disk, budget>>

-----------------------------------------------------------------------------
Init ==
    /\ status = "running"
    /\ current = {} /\ previous = {} /\ insertions = 0
    /\ timers = 1 /\ handle = 1
    /\ generation = 0 /\ backupGen = 0
    /\ phase = [j \in Jobs |-> "idle"]
    /\ gen = [j \in Jobs |-> 0] /\ tries = [j \in Jobs |-> 0]
    /\ aliased = [j \in Jobs |-> FALSE] /\ frozen = [j \in Jobs |-> {}]
    /\ resetPc = "idle"
    /\ blobCur = {} /\ blobPrev = {} /\ tmp = {} /\ wal = {} /\ walTorn = FALSE
    /\ age = [i \in Items |-> 2] /\ atRisk = {}
    /\ budget = Budget

\* The steps of one job that its awaits wait for.
DiskStep(j) == LockFile(j) \/ WriteBlob(j) \/ RenameBlob(j) \/ TruncateLog(j)
TaskStep(t) == DiskStep(t) \/ BackupFails(t) \/ BackupRetry(t)
RotatorStep(r) ==
    DiskStep(r) \/ AcquireManager(r) \/ FinishRotation(r) \/ RotationBackupFails(r)

Next ==
    \/ \E i \in Items : Add(i) \/ ApplyEntry(i)
    \/ TornAppend
    \/ \E t \in Tasks : BackupTick(t) \/ TaskStep(t)
    \/ \E r \in TimerJobs : RotationTick(r)
    \/ \E r \in Demands : RotateOnDemand(r)
    \/ \E r \in Rotators : RotatorStep(r)
    \/ ResetCall \/ ClearCall \/ ResetRun
    \/ Shutdown \/ Destroy \/ Crash \/ Start

Spec == Init /\ [][Next]_vars

\* Timers, disk operations and the mutexes make progress.  The mutexes grant
\* in the order of the requests, so nobody is passed over for ever.
Fairness ==
    /\ \A t \in Tasks : SF_vars(TaskStep(t))
    /\ \A r \in Rotators : SF_vars(RotatorStep(r))
    /\ SF_vars(ResetRun)
    /\ SF_vars(status = "closing" /\ Destroy)

LiveSpec == Spec /\ Fairness

-----------------------------------------------------------------------------
(* Properties.                                                             *)

Phases == {"idle", "sleeping", "waiting"} \cup Rotating

TypeControl ==
    /\ status \in {"running", "closing", "destroyed", "down"}
    /\ resetPc \in {"idle", "restore", "clear"}
    /\ timers \in Nat /\ handle \in {0, 1} /\ handle <= timers
    /\ generation \in Nat /\ backupGen \in Nat
    /\ budget \in [BudgetKinds -> Nat]

TypeJobs ==
    /\ phase \in [Jobs -> Phases]
    /\ gen \in [Jobs -> Nat] /\ tries \in [Jobs -> Nat]
    /\ aliased \in [Jobs -> BOOLEAN] /\ frozen \in [Jobs -> SUBSET Items]

TypeFilters == current \in SUBSET Items /\ previous \in SUBSET Items /\ insertions \in Nat

TypeDisk ==
    /\ blobCur \in SUBSET Items /\ blobPrev \in SUBSET Items /\ tmp \in SUBSET Items
    /\ wal \in SUBSET Items /\ walTorn \in BOOLEAN

TypeGhosts == age \in [Items -> 0..2] /\ atRisk \in SUBSET Items

\* The type of every variable; a handle always names a live interval.
TypeOK == TypeControl /\ TypeJobs /\ TypeFilters /\ TypeDisk /\ TypeGhosts

\* README "Rotation and validity": a token whose add was acknowledged stays
\* revoked until two rotations have passed, across overlapping backups, failed
\* backups, failed rotations, crashes and restarts.  (A token at risk loses
\* the promise only if a restore did not find it.)
Coverage ==
    Live => \A i \in Items :
        /\ age[i] = 0 => i \in current
        /\ age[i] = 1 => i \in current \cup previous

\* Whatever instant the process dies at, the files still hold every promised
\* token that is not at risk, where the restore looks for it.
Durable ==
    \A i \in Items \ atRisk :
        /\ age[i] = 0 => i \in blobCur \cup wal
        /\ age[i] = 1 => i \in blobPrev \cup blobCur \cup wal

\* Comment of #generation: no stale periodic backup can overwrite
\* post-rotation state.  A blob is only ever replaced by the filter in use.
StaleBackupNeverLands ==
    [][\A t \in Tasks : (Live /\ phase[t] = "written" /\ phase'[t] = "renamed")
                            => aliased[t]]_vars

\* Comments in rotateOnDemand and #rotateWithRetry: the schedule is never lost
\* and never doubled.  While the manager lives there is exactly one interval,
\* or exactly one rotation on demand that will start it again.  (One caller
\* at a time, and no reset: a reset starts an interval of its own.)
OneSchedule ==
    (Live /\ budget["reset"] = Budget["reset"]) =>
        timers + Cardinality({r \in Demands : phase[r] # "idle"}) = 1

\* Comment in #rotate: expired tokens are evicted even when the backup of the
\* rotation fails.  In the life of one process a token is reported for at most
\* two rotations.
Evicted ==
    (Live /\ budget["crash"] = Budget["crash"] /\ budget["reset"] = Budget["reset"]) =>
        \A i \in Items : age[i] = 2 => i \notin current \cup previous

\* A rotation that was started is completed, whatever backups are in its way.
RotationCompletes == \A r \in Rotators : phase[r] = "waiting" ~> phase[r] = "idle"

\* A reset that was called is carried out.
ResetCompletes == resetPc # "idle" ~> resetPc = "idle"

\* shutdown() ends: waiting for the rotation in progress is not for ever.
ShutdownCompletes == status = "closing" ~> status # "closing"

(* Claims of the documentation, checked against the code in runs of their own. *)

\* Comment of rotateOnDemand: the interval is paused and restarted, so a manager
\* never has two rotation intervals.
NeverDoubled == Live => timers <= 1

\* README "Data-loss window": in synchronous mode the window is zero, so a
\* promised token is always in the files.
NoLossWindow ==
    \A i \in Items : age[i] = 0 => i \in blobCur \cup wal

=============================================================================
