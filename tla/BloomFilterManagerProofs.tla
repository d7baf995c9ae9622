---------------------- MODULE BloomFilterManagerProofs ----------------------
(***************************************************************************)
(* TLAPS proofs about BloomFilterManager, for any set of tokens, any number*)
(* of overlapping backups and rotations, every disk fault and any number of*)
(* crashes: type correctness, and, as long as nobody resets the instance,  *)
(* that no promised token is lost (Coverage, Durable), that the rotation   *)
(* schedule is neither lost nor doubled (OneSchedule) and that what is no  *)
(* longer promised is evicted (Evicted).                                   *)
(***************************************************************************)
EXTENDS BloomFilterManager, FiniteSetTheorems, TLAPS

\* The tokens that the current files must hold: those of this window, and those
\* of the window before that a restart brought back through the log.
Owed == {i \in Items \ atRisk : age[i] = 0 \/ (age[i] = 1 /\ i \notin blobPrev)}

\* Job j will empty the log, or is allowed to as soon as it gets the mutex.
Armed(j) ==
    \/ phase[j] \in Holding
    \/ j \in Rotators /\ phase[j] = "queued"
    \/ j \in Tasks /\ phase[j] \in {"queued", "sleeping"} /\ gen[j] = generation

NoReset == resetPc = "idle" /\ budget["reset"] = 0

OneHolder ==
    /\ \A j, k \in Jobs : phase[j] \in Holding /\ phase[k] \in Holding => j = k
    /\ \A r, s \in Rotators : phase[r] \in Rotating /\ phase[s] \in Rotating => r = s

\* A rotation invalidates the backups that were scheduled before it.
Generations ==
    /\ backupGen <= generation
    /\ \A t \in Tasks : gen[t] <= backupGen
    /\ Live => \A r \in Rotators : phase[r] \in Rotating => backupGen < generation

Stopped ==
    /\ ~Live => \A j \in Jobs : aliased[j] = FALSE
    /\ status = "down" => \A j \in Jobs : phase[j] = "idle"

\* An armed job saves the filter in use, and all of them the same one.
ArmedContent ==
    /\ Live => \A j \in Jobs : Armed(j) => aliased[j]
    /\ \A j \in Jobs : Armed(j) => Owed \subseteq Content(j)
    /\ \A j, k \in Jobs : Armed(j) /\ Armed(k) => Content(j) = Content(k)

OwedKept ==
    /\ Owed \subseteq blobCur \cup wal
    /\ Live => Owed \subseteq current
    /\ \A j \in Jobs : phase[j] \in Holding => Owed \subseteq Captured(j)
    /\ \A j \in Jobs : phase[j] \in {"locked", "written"} => tmp \subseteq Content(j)

\* The inductive invariant.
IInv ==
    /\ TypeOK /\ NoReset /\ Coverage
    /\ OneHolder /\ Generations /\ Stopped /\ ArmedContent /\ OwedKept
-----------------------------------------------------------------------------
(* Type correctness.                                                       *)

\* The ways a step changes the jobs keep their types.
LEMMA JobTypes ==
    ASSUME TypeJobs, NEW j \in Jobs
    PROVE  /\ Leave(j) => TypeJobs'
           /\ \A p \in Phases : Advance(j, p) => TypeJobs'
           /\ UNCHANGED jobs => TypeJobs'
           /\ NoJobs => TypeJobs'
           /\ Content(j) \in SUBSET Items \/ current \notin SUBSET Items
<1>1. Leave(j) => TypeJobs'
  BY DEF Leave, EndJob, TypeJobs, Phases
<1>2. ASSUME NEW p \in Phases, Advance(j, p) PROVE TypeJobs'
  BY <1>2 DEF Advance, TypeJobs
<1>3. UNCHANGED jobs => TypeJobs'
  BY DEF jobs, TypeJobs
<1>4. NoJobs => TypeJobs'
  BY DEF NoJobs, TypeJobs, Phases
<1>5. Content(j) \in SUBSET Items \/ current \notin SUBSET Items
  BY DEF Content, TypeJobs
<1> QED
  BY <1>1, <1>2, <1>3, <1>4, <1>5

\* So does the replacement of the filter in use.
LEMMA DetachTypes ==
    ASSUME TypeJobs, TypeFilters
    PROVE  /\ Detached \in [Jobs -> SUBSET Items]
           /\ [j \in Jobs |-> FALSE] \in [Jobs -> BOOLEAN]
BY DEF TypeJobs, TypeFilters, Detached

LEMMA AgedType == TypeGhosts => Aged \in [Items -> 0..2]
BY DEF TypeGhosts, Aged

LEMMA RestoreTypes ==
    TypeFilters /\ TypeDisk /\ TypeGhosts /\ RestoreFiles => TypeFilters' /\ age' \in [Items -> 0..2]
BY DEF TypeFilters, TypeDisk, TypeGhosts, RestoreFiles

LEMMA PhaseNames ==
    /\ Phases = {"idle", "sleeping", "waiting", "queued", "locked", "written", "renamed",
                 "truncated"}
    /\ Holding \subseteq Phases
BY DEF Phases, Rotating, Holding

LEMMA SwapTypes ==
    ASSUME TypeOK, NEW r \in Rotators, SwapFilters(r)
    PROVE  TypeControl' /\ TypeJobs' /\ TypeFilters'
<1>1. TypeControl'
  BY DEF TypeOK, TypeControl, SwapFilters, FinishTiming, timing
<1>2. TypeFilters'
  BY DEF TypeOK, TypeFilters, SwapFilters
<1>3. TypeJobs'
  BY DetachTypes, PhaseNames DEF TypeOK, TypeJobs, SwapFilters, EndJob, Jobs
<1> QED
  BY <1>1, <1>2, <1>3

\* Every step of the program keeps every variable in its type.
LEMMA TypeStep == TypeOK /\ [Next]_vars => TypeOK'
<1> SUFFICES ASSUME TypeOK, [Next]_vars PROVE TypeOK'
  OBVIOUS
<1> USE DEF TypeOK
<1>1. ASSUME NEW i \in Items, Insert(i) PROVE TypeOK'
  <2>1. TypeControl'
    BY <1>1 DEF Insert, TypeControl, timing
  <2>2. TypeJobs'
    BY <1>1 DEF Insert, jobs, TypeJobs
  <2>3. TypeFilters'
    BY <1>1 DEF Insert, TypeFilters, memory
  <2>4. TypeDisk'
    BY <1>1 DEF Insert, TypeDisk, disk
  <2>5. TypeGhosts'
    BY <1>1 DEF Insert, TypeGhosts, ghosts
  <2> QED
    BY <2>1, <2>2, <2>3, <2>4, <2>5
<1>2. CASE TornAppend
  <2>1. TypeControl'
    BY <1>2 DEF TornAppend, TypeControl, timing
  <2>2. TypeJobs'
    BY <1>2 DEF TornAppend, jobs, TypeJobs
  <2>3. TypeFilters'
    BY <1>2 DEF TornAppend, TypeFilters, memory
  <2>4. TypeDisk'
    BY <1>2 DEF TornAppend, TypeDisk, disk
  <2>5. TypeGhosts'
    BY <1>2 DEF TornAppend, TypeGhosts, ghosts
  <2> QED
    BY <2>1, <2>2, <2>3, <2>4, <2>5
<1>3. ASSUME NEW t \in Tasks, BackupTick(t) PROVE TypeOK'
  <2>1. TypeControl'
    BY <1>3 DEF BackupTick, TypeControl, timing
  <2>2. TypeJobs'
    BY <1>3, PhaseNames DEF BackupTick, TypeJobs, TypeControl, Jobs
  <2>3. TypeFilters'
    BY <1>3 DEF BackupTick, TypeFilters, memory
  <2>4. TypeDisk'
    BY <1>3 DEF BackupTick, TypeDisk, disk
  <2>5. TypeGhosts'
    BY <1>3 DEF BackupTick, TypeGhosts, ghosts
  <2> QED
    BY <2>1, <2>2, <2>3, <2>4, <2>5
<1>4. ASSUME NEW j \in Jobs, LockFile(j) PROVE TypeOK'
  <2>1. TypeControl'
    BY <1>4 DEF LockFile, TypeControl, timing
  <2>2. TypeJobs'
    BY <1>4, JobTypes, PhaseNames DEF LockFile
  <2>3. TypeFilters'
    BY <1>4 DEF LockFile, TypeFilters, memory
  <2>4. TypeDisk'
    BY <1>4, JobTypes DEF LockFile, TypeDisk, TypeFilters
  <2>5. TypeGhosts'
    BY <1>4 DEF LockFile, TypeGhosts, ghosts
  <2> QED
    BY <2>1, <2>2, <2>3, <2>4, <2>5
<1>5. ASSUME NEW j \in Jobs, WriteBlob(j) PROVE TypeOK'
  <2>1. TypeControl'
    BY <1>5 DEF WriteBlob, TypeControl, timing
  <2>2. TypeJobs'
    BY <1>5, JobTypes, PhaseNames DEF WriteBlob
  <2>3. TypeFilters'
    BY <1>5 DEF WriteBlob, TypeFilters, memory
  <2>4. TypeDisk'
    BY <1>5, JobTypes DEF WriteBlob, TypeDisk, TypeFilters
  <2>5. TypeGhosts'
    BY <1>5 DEF WriteBlob, TypeGhosts, ghosts
  <2> QED
    BY <2>1, <2>2, <2>3, <2>4, <2>5
<1>6. ASSUME NEW j \in Jobs, RenameBlob(j) PROVE TypeOK'
  <2>1. TypeControl'
    BY <1>6 DEF RenameBlob, TypeControl, timing
  <2>2. TypeJobs'
    BY <1>6, JobTypes, PhaseNames DEF RenameBlob
  <2>3. TypeFilters'
    BY <1>6 DEF RenameBlob, TypeFilters, memory
  <2>4. TypeDisk'
    BY <1>6 DEF RenameBlob, TypeDisk
  <2>5. TypeGhosts'
    BY <1>6 DEF RenameBlob, TypeGhosts, ghosts
  <2> QED
    BY <2>1, <2>2, <2>3, <2>4, <2>5
<1>7. ASSUME NEW j \in Jobs, TruncateLog(j) PROVE TypeOK'
  <2>1. TypeControl'
    BY <1>7 DEF TruncateLog, TypeControl, timing
  <2>2. TypeJobs'
    BY <1>7, JobTypes, PhaseNames DEF TruncateLog
  <2>3. TypeFilters'
    BY <1>7 DEF TruncateLog, TypeFilters, memory
  <2>4. TypeDisk'
    BY <1>7 DEF TruncateLog, TypeDisk
  <2>5. TypeGhosts'
    BY <1>7 DEF TruncateLog, TypeGhosts, ghosts
  <2> QED
    BY <2>1, <2>2, <2>3, <2>4, <2>5
<1>8. ASSUME NEW t \in Tasks, BackupFails(t) PROVE TypeOK'
  <2>1. TypeControl'
    BY <1>8 DEF BackupFails, TypeControl, timing
  <2>2. TypeJobs'
    BY <1>8, JobTypes, PhaseNames DEF BackupFails, Jobs, TypeJobs
  <2>3. TypeFilters'
    BY <1>8 DEF BackupFails, TypeFilters, memory
  <2>4. TypeDisk'
    BY <1>8 DEF BackupFails, TypeDisk, disk
  <2>5. TypeGhosts'
    BY <1>8 DEF BackupFails, TypeGhosts, ghosts
  <2> QED
    BY <2>1, <2>2, <2>3, <2>4, <2>5
<1>9. ASSUME NEW t \in Tasks, BackupRetry(t) PROVE TypeOK'
  <2>1. TypeControl'
    BY <1>9 DEF BackupRetry, TypeControl, timing
  <2>2. TypeJobs'
    BY <1>9, JobTypes, PhaseNames DEF BackupRetry, Jobs
  <2>3. TypeFilters'
    BY <1>9 DEF BackupRetry, TypeFilters, memory
  <2>4. TypeDisk'
    BY <1>9 DEF BackupRetry, TypeDisk, disk
  <2>5. TypeGhosts'
    BY <1>9 DEF BackupRetry, TypeGhosts, ghosts
  <2> QED
    BY <2>1, <2>2, <2>3, <2>4, <2>5
<1>10. ASSUME NEW r \in TimerJobs, RotationTick(r) PROVE TypeOK'
  <2>1. TypeControl'
    BY <1>10 DEF RotationTick, TypeControl, timing, BudgetKinds
  <2>2. TypeJobs'
    BY <1>10, JobTypes, PhaseNames DEF RotationTick, Jobs, Rotators
  <2>3. TypeFilters'
    BY <1>10 DEF RotationTick, TypeFilters, memory
  <2>4. TypeDisk'
    BY <1>10 DEF RotationTick, TypeDisk, disk
  <2>5. TypeGhosts'
    BY <1>10 DEF RotationTick, TypeGhosts, ghosts
  <2> QED
    BY <2>1, <2>2, <2>3, <2>4, <2>5
<1>11. ASSUME NEW r \in Demands, RotateOnDemand(r) PROVE TypeOK'
  <2>1. TypeControl'
    BY <1>11 DEF RotateOnDemand, TypeControl, StoppedTimers, BudgetKinds
  <2>2. TypeJobs'
    BY <1>11, JobTypes, PhaseNames DEF RotateOnDemand, Jobs, Rotators
  <2>3. TypeFilters'
    BY <1>11 DEF RotateOnDemand, TypeFilters, memory
  <2>4. TypeDisk'
    BY <1>11 DEF RotateOnDemand, TypeDisk, disk
  <2>5. TypeGhosts'
    BY <1>11 DEF RotateOnDemand, TypeGhosts, ghosts
  <2> QED
    BY <2>1, <2>2, <2>3, <2>4, <2>5
<1>12. ASSUME NEW r \in Rotators, AcquireManager(r) PROVE TypeOK'
  <2>1. TypeControl'
    BY <1>12 DEF AcquireManager, TypeControl, FinishTiming, timing
  <2>2. TypeJobs'
    BY <1>12, JobTypes, PhaseNames DEF AcquireManager, Jobs, TypeJobs
  <2>3. TypeFilters'
    BY <1>12 DEF AcquireManager, TypeFilters, memory
  <2>4. TypeDisk'
    BY <1>12 DEF AcquireManager, TypeDisk, disk
  <2>5. TypeGhosts'
    BY <1>12 DEF AcquireManager, TypeGhosts, ghosts
  <2> QED
    BY <2>1, <2>2, <2>3, <2>4, <2>5
<1>13. ASSUME NEW r \in Rotators, FinishRotation(r) PROVE TypeOK'
  <2>1. TypeControl'
    BY <1>13, SwapTypes DEF FinishRotation
  <2>2. TypeJobs'
    BY <1>13, SwapTypes DEF FinishRotation
  <2>3. TypeFilters'
    BY <1>13, SwapTypes DEF FinishRotation
  <2>4. TypeDisk'
    BY <1>13 DEF FinishRotation, TypeDisk
  <2>5. TypeGhosts'
    BY <1>13, AgedType DEF FinishRotation, TypeGhosts, TypeFilters
  <2> QED
    BY <2>1, <2>2, <2>3, <2>4, <2>5
<1>14. ASSUME NEW r \in Rotators, RotationBackupFails(r) PROVE TypeOK'
  <2>1. TypeControl'
    BY <1>14, SwapTypes DEF RotationBackupFails
  <2>2. TypeJobs'
    BY <1>14, SwapTypes DEF RotationBackupFails
  <2>3. TypeFilters'
    BY <1>14, SwapTypes DEF RotationBackupFails
  <2>4. TypeDisk'
    BY <1>14 DEF RotationBackupFails, TypeDisk
  <2>5. TypeGhosts'
    BY <1>14, AgedType DEF RotationBackupFails, TypeGhosts, TypeFilters
  <2> QED
    BY <2>1, <2>2, <2>3, <2>4, <2>5
<1>15. CASE ResetCall
  <2>1. TypeControl'
    BY <1>15 DEF ResetCall, TypeControl, timing, BudgetKinds
  <2>2. TypeJobs'
    BY <1>15 DEF ResetCall, jobs, TypeJobs
  <2>3. TypeFilters'
    BY <1>15 DEF ResetCall, TypeFilters, memory
  <2>4. TypeDisk'
    BY <1>15 DEF ResetCall, TypeDisk, disk
  <2>5. TypeGhosts'
    BY <1>15 DEF ResetCall, TypeGhosts, ghosts
  <2> QED
    BY <2>1, <2>2, <2>3, <2>4, <2>5
<1>16. CASE ClearCall
  <2>1. TypeControl'
    BY <1>16 DEF ClearCall, TypeControl, timing, BudgetKinds
  <2>2. TypeJobs'
    BY <1>16 DEF ClearCall, jobs, TypeJobs
  <2>3. TypeFilters'
    BY <1>16 DEF ClearCall, TypeFilters, memory
  <2>4. TypeDisk'
    BY <1>16 DEF ClearCall, TypeDisk, disk
  <2>5. TypeGhosts'
    BY <1>16 DEF ClearCall, TypeGhosts, ghosts
  <2> QED
    BY <2>1, <2>2, <2>3, <2>4, <2>5
<1>17. CASE ResetRun
  <2>1. TypeControl'
    BY <1>17 DEF ResetRun, TypeControl, StoppedTimers
  <2>2. TypeJobs'
    BY <1>17, DetachTypes DEF ResetRun, TypeJobs
  <2>3. TypeFilters'
    BY <1>17, RestoreTypes DEF ResetRun, TypeFilters
  <2>4. TypeDisk'
    BY <1>17 DEF ResetRun, TypeDisk, disk
  <2>5. TypeGhosts'
    BY <1>17, RestoreTypes DEF ResetRun, TypeGhosts
  <2> QED
    BY <2>1, <2>2, <2>3, <2>4, <2>5
<1>18. CASE Shutdown
  <2>1. TypeControl'
    BY <1>18 DEF Shutdown, TypeControl, timing
  <2>2. TypeJobs'
    BY <1>18 DEF Shutdown, jobs, TypeJobs
  <2>3. TypeFilters'
    BY <1>18 DEF Shutdown, TypeFilters, memory
  <2>4. TypeDisk'
    BY <1>18 DEF Shutdown, TypeDisk, disk
  <2>5. TypeGhosts'
    BY <1>18 DEF Shutdown, TypeGhosts, ghosts
  <2> QED
    BY <2>1, <2>2, <2>3, <2>4, <2>5
<1>19. CASE Destroy
  <2>1. TypeControl'
    BY <1>19 DEF Destroy, TypeControl, StoppedTimers
  <2>2. TypeJobs'
    BY <1>19, DetachTypes DEF Destroy, TypeJobs
  <2>3. TypeFilters'
    BY <1>19 DEF Destroy, TypeFilters, memory
  <2>4. TypeDisk'
    BY <1>19 DEF Destroy, TypeDisk, disk
  <2>5. TypeGhosts'
    BY <1>19 DEF Destroy, TypeGhosts, ghosts
  <2> QED
    BY <2>1, <2>2, <2>3, <2>4, <2>5
<1>20. CASE Crash
  <2>1. TypeControl'
    BY <1>20 DEF Crash, TypeControl, BudgetKinds
  <2>2. TypeJobs'
    BY <1>20 DEF Crash, NoJobs, TypeJobs, Phases
  <2>3. TypeFilters'
    BY <1>20 DEF Crash, TypeFilters, memory
  <2>4. TypeDisk'
    BY <1>20 DEF Crash, TypeDisk, disk
  <2>5. TypeGhosts'
    BY <1>20 DEF Crash, TypeGhosts, ghosts
  <2> QED
    BY <2>1, <2>2, <2>3, <2>4, <2>5
<1>21. CASE Start
  <2>1. TypeControl'
    BY <1>21 DEF Start, TypeControl, timing
  <2>2. TypeJobs'
    BY <1>21 DEF Start, jobs, TypeJobs
  <2>3. TypeFilters'
    BY <1>21, RestoreTypes DEF Start
  <2>4. TypeDisk'
    BY <1>21 DEF Start, TypeDisk, disk
  <2>5. TypeGhosts'
    BY <1>21, RestoreTypes DEF Start, TypeGhosts
  <2> QED
    BY <2>1, <2>2, <2>3, <2>4, <2>5
<1>22. CASE UNCHANGED vars
  <2>1. TypeControl'
    BY <1>22 DEF vars, TypeControl, timing
  <2>2. TypeJobs'
    BY <1>22 DEF vars, TypeJobs, jobs
  <2>3. TypeFilters'
    BY <1>22 DEF vars, TypeFilters, memory
  <2>4. TypeDisk'
    BY <1>22 DEF vars, TypeDisk, disk
  <2>5. TypeGhosts'
    BY <1>22 DEF vars, TypeGhosts, ghosts
  <2> QED
    BY <2>1, <2>2, <2>3, <2>4, <2>5
<1> QED
  BY <1>1, <1>2, <1>3, <1>4, <1>5, <1>6, <1>7, <1>8, <1>9, <1>10, <1>11, <1>12, <1>13,
     <1>14, <1>15, <1>16, <1>17, <1>18, <1>19, <1>20, <1>21, <1>22
     DEF Next, Add, ApplyEntry, TaskStep, RotatorStep, DiskStep, Jobs

LEMMA TypeInit == Init => TypeOK
<1> SUFFICES ASSUME Init PROVE TypeOK
  OBVIOUS
<1>1. TypeControl
  BY LimitsAssumption DEF Init, TypeControl
<1>2. TypeJobs
  BY DEF Init, TypeJobs, Phases
<1>3. TypeFilters
  BY DEF Init, TypeFilters
<1>4. TypeDisk
  BY DEF Init, TypeDisk
<1>5. TypeGhosts
  BY DEF Init, TypeGhosts
<1> QED
  BY <1>1, <1>2, <1>3, <1>4, <1>5 DEF TypeOK

\* TypeOK is an invariant: the variables keep their types for every set of
\* tokens, jobs and faults and for every budget.
THEOREM TypeCorrect == Spec => []TypeOK
BY TypeInit, TypeStep, PTL DEF Spec
-----------------------------------------------------------------------------
(* No promised token is lost.                                              *)

\* Every step keeps every part of the inductive invariant.
LEMMA IInvStep == IInv /\ [Next]_vars => IInv'
<1> SUFFICES ASSUME IInv, [Next]_vars PROVE IInv'
  OBVIOUS
<1>1. TypeOK'
  BY TypeStep DEF IInv
<1> USE JobsAssumption DEF IInv, TypeOK, TypeJobs
<1>2. ASSUME NEW i \in Items, Insert(i) PROVE IInv'
  <2>1. NoReset'
    BY <1>2 DEF Insert, NoReset
  <2>2. Coverage'
    BY <1>2 DEF Insert, Coverage, Live, TypeGhosts
  <2>3. OneHolder'
    BY <1>2 DEF Insert, OneHolder, jobs
  <2>4. Generations'
    BY <1>2 DEF Insert, Generations, jobs, Live
  <2>5. Stopped'
    BY <1>2 DEF Insert, Stopped, jobs, Live
  <2>6. ArmedContent'
    BY <1>2 DEF Insert, ArmedContent, Armed, Owed, Content, Live, jobs, TypeGhosts,
       AckRisk, WindowOpen
  <2>7. OwedKept'
    BY <1>2 DEF Insert, OwedKept, ArmedContent, Armed, Owed, Captured, Content, Live,
       jobs, TypeGhosts, AckRisk, WindowOpen
  <2> QED
    BY <1>1, <2>1, <2>2, <2>3, <2>4, <2>5, <2>6, <2>7
<1>3. CASE TornAppend
  <2>1. NoReset'
    BY <1>3 DEF TornAppend, memory, jobs, ghosts, NoReset
  <2>2. Coverage'
    BY <1>3 DEF TornAppend, memory, jobs, ghosts, Coverage, Live, memory, ghosts
  <2>3. OneHolder'
    BY <1>3 DEF TornAppend, memory, jobs, ghosts, OneHolder, Holding, Rotating
  <2>4. Generations'
    BY <1>3 DEF TornAppend, memory, jobs, ghosts, Generations, Live, Rotating, Holding,
       TypeControl
  <2>5. Stopped'
    BY <1>3 DEF TornAppend, memory, jobs, ghosts, Stopped, Live
  <2>6. ArmedContent'
    BY <1>3 DEF TornAppend, memory, jobs, ghosts, ArmedContent, Armed, Owed, Content, Live
  <2>7. OwedKept'
    BY <1>3 DEF TornAppend, memory, jobs, ghosts, OwedKept, Owed, Captured, Content, Live
  <2> QED
    BY <1>1, <2>1, <2>2, <2>3, <2>4, <2>5, <2>6, <2>7
<1>4. ASSUME NEW t \in Tasks, BackupTick(t) PROVE IInv'
  <2>1. NoReset'
    BY <1>4 DEF BackupTick, memory, ghosts, disk, Jobs, NoReset
  <2>2. Coverage'
    BY <1>4 DEF BackupTick, memory, ghosts, disk, Jobs, Coverage, Live, memory, ghosts
  <2>3. OneHolder'
    BY <1>4 DEF BackupTick, memory, ghosts, disk, Jobs, OneHolder, Holding, Rotating
  <2>4. Generations'
    BY <1>4 DEF BackupTick, memory, ghosts, disk, Jobs, Generations, Live, Rotating,
       Holding, TypeControl
  <2>5. Stopped'
    BY <1>4 DEF BackupTick, memory, ghosts, disk, Jobs, Stopped, Live
  <2>6. ArmedContent'
    BY <1>4 DEF BackupTick, memory, ghosts, disk, Jobs, ArmedContent, Armed, Owed,
       OwedKept, Content, Live, Holding, TypeControl
  <2>7. OwedKept'
    <3>1. Owed' = Owed
      BY <1>4 DEF BackupTick, ghosts, disk, Owed
    <3>2. \A j \in Jobs : phase'[j] \in Holding => phase[j] = phase'[j] /\ Content(j)' = Content(j)
      BY <1>4 DEF BackupTick, memory, Content, Holding, Jobs
    <3>3. \A j \in Jobs : phase'[j] \in {"locked", "written"} => phase'[j] \in Holding
      BY DEF Holding
    <3> QED
      BY <1>4, <3>1, <3>2, <3>3 DEF BackupTick, memory, disk, OwedKept, Captured, Live
  <2> QED
    BY <1>1, <2>1, <2>2, <2>3, <2>4, <2>5, <2>6, <2>7
<1>5. ASSUME NEW j \in Jobs, LockFile(j) PROVE IInv'
  <2>1. NoReset'
    BY <1>5 DEF LockFile, FileFree, memory, ghosts, Advance, Leave, EndJob, Holding,
       Rotating, Jobs, NoReset
  <2>2. Coverage'
    BY <1>5 DEF LockFile, FileFree, memory, ghosts, Advance, Leave, EndJob, Holding,
       Rotating, Jobs, Coverage, Live, memory, ghosts
  <2>3. OneHolder'
    BY <1>5 DEF LockFile, FileFree, memory, ghosts, Advance, Leave, EndJob, Holding,
       Rotating, Jobs, OneHolder, Holding, Rotating
  <2>4. Generations'
    BY <1>5 DEF LockFile, FileFree, memory, ghosts, Advance, Leave, EndJob, Holding,
       Rotating, Jobs, Generations, Live, Rotating, Holding, TypeControl
  <2>5. Stopped'
    BY <1>5 DEF LockFile, FileFree, memory, ghosts, Advance, Leave, EndJob, Holding,
       Rotating, Jobs, Stopped, Live
  <2>6. ArmedContent'
    BY <1>5 DEF LockFile, FileFree, memory, ghosts, Advance, Leave, EndJob, Holding,
       Rotating, Jobs, ArmedContent, Armed, Owed, Content, Live
  <2>7. OwedKept'
    BY <1>5 DEF LockFile, FileFree, memory, ghosts, Advance, Leave, EndJob, Holding,
       Rotating, Jobs, OwedKept, ArmedContent, Armed, Owed, Captured, Content, Live
  <2> QED
    BY <1>1, <2>1, <2>2, <2>3, <2>4, <2>5, <2>6, <2>7
<1>6. ASSUME NEW j \in Jobs, WriteBlob(j) PROVE IInv'
  <2>1. NoReset'
    BY <1>6 DEF WriteBlob, memory, ghosts, Advance, Leave, EndJob, Holding, Rotating,
       Jobs, NoReset
  <2>2. Coverage'
    BY <1>6 DEF WriteBlob, memory, ghosts, Advance, Leave, EndJob, Holding, Rotating,
       Jobs, Coverage, Live, memory, ghosts
  <2>3. OneHolder'
    BY <1>6 DEF WriteBlob, memory, ghosts, Advance, Leave, EndJob, Holding, Rotating,
       Jobs, OneHolder, Holding, Rotating
  <2>4. Generations'
    BY <1>6 DEF WriteBlob, memory, ghosts, Advance, Leave, EndJob, Holding, Rotating,
       Jobs, Generations, Live, Rotating, Holding, TypeControl
  <2>5. Stopped'
    BY <1>6 DEF WriteBlob, memory, ghosts, Advance, Leave, EndJob, Holding, Rotating,
       Jobs, Stopped, Live
  <2>6. ArmedContent'
    BY <1>6 DEF WriteBlob, memory, ghosts, Advance, Leave, EndJob, Holding, Rotating,
       Jobs, ArmedContent, Armed, Owed, Content, Live
  <2>7. OwedKept'
    BY <1>6 DEF WriteBlob, memory, ghosts, Advance, Leave, EndJob, Holding, Rotating,
       Jobs, OwedKept, OneHolder, Owed, Captured, Content, Live
  <2> QED
    BY <1>1, <2>1, <2>2, <2>3, <2>4, <2>5, <2>6, <2>7
<1>7. ASSUME NEW j \in Jobs, RenameBlob(j) PROVE IInv'
  <2>1. NoReset'
    BY <1>7 DEF RenameBlob, memory, ghosts, Advance, Leave, EndJob, Holding, Rotating,
       Jobs, NoReset
  <2>2. Coverage'
    BY <1>7 DEF RenameBlob, memory, ghosts, Advance, Leave, EndJob, Holding, Rotating,
       Jobs, Coverage, Live, memory, ghosts
  <2>3. OneHolder'
    BY <1>7 DEF RenameBlob, memory, ghosts, Advance, Leave, EndJob, Holding, Rotating,
       Jobs, OneHolder, Holding, Rotating
  <2>4. Generations'
    BY <1>7 DEF RenameBlob, memory, ghosts, Advance, Leave, EndJob, Holding, Rotating,
       Jobs, Generations, Live, Rotating, Holding, TypeControl
  <2>5. Stopped'
    BY <1>7 DEF RenameBlob, memory, ghosts, Advance, Leave, EndJob, Holding, Rotating,
       Jobs, Stopped, Live
  <2>6. ArmedContent'
    BY <1>7 DEF RenameBlob, memory, ghosts, Advance, Leave, EndJob, Holding, Rotating,
       Jobs, ArmedContent, OwedKept, Armed, Owed, Content, Live
  <2>7. OwedKept'
    BY <1>7 DEF RenameBlob, memory, ghosts, Advance, Leave, EndJob, Holding, Rotating,
       Jobs, OwedKept, OneHolder, ArmedContent, Armed, Owed, Captured, Content, Live
  <2> QED
    BY <1>1, <2>1, <2>2, <2>3, <2>4, <2>5, <2>6, <2>7
<1>8. ASSUME NEW j \in Jobs, TruncateLog(j) PROVE IInv'
  <2>1. NoReset'
    BY <1>8 DEF TruncateLog, memory, ghosts, Advance, Leave, EndJob, Holding, Rotating,
       Jobs, NoReset
  <2>2. Coverage'
    BY <1>8 DEF TruncateLog, memory, ghosts, Advance, Leave, EndJob, Holding, Rotating,
       Jobs, Coverage, Live, memory, ghosts
  <2>3. OneHolder'
    BY <1>8 DEF TruncateLog, memory, ghosts, Advance, Leave, EndJob, Holding, Rotating,
       Jobs, OneHolder, Holding, Rotating
  <2>4. Generations'
    BY <1>8 DEF TruncateLog, memory, ghosts, Advance, Leave, EndJob, Holding, Rotating,
       Jobs, Generations, Live, Rotating, Holding, TypeControl
  <2>5. Stopped'
    BY <1>8 DEF TruncateLog, memory, ghosts, Advance, Leave, EndJob, Holding, Rotating,
       Jobs, Stopped, Live
  <2>6. ArmedContent'
    BY <1>8 DEF TruncateLog, memory, ghosts, Advance, Leave, EndJob, Holding, Rotating,
       Jobs, ArmedContent, Armed, Owed, Content, Live
  <2>7. OwedKept'
    BY <1>8 DEF TruncateLog, memory, ghosts, Advance, Leave, EndJob, Holding, Rotating,
       Jobs, OwedKept, OneHolder, Owed, Captured, Content, Live
  <2> QED
    BY <1>1, <2>1, <2>2, <2>3, <2>4, <2>5, <2>6, <2>7
<1>9. ASSUME NEW t \in Tasks, BackupFails(t) PROVE IInv'
  <2>1. NoReset'
    BY <1>9 DEF BackupFails, memory, ghosts, Advance, Leave, EndJob, Holding, Rotating,
       Jobs, NoReset
  <2>2. Coverage'
    BY <1>9 DEF BackupFails, memory, ghosts, Advance, Leave, EndJob, Holding, Rotating,
       Jobs, Coverage, Live, memory, ghosts
  <2>3. OneHolder'
    BY <1>9 DEF BackupFails, memory, ghosts, Advance, Leave, EndJob, Holding, Rotating,
       Jobs, OneHolder, Holding, Rotating
  <2>4. Generations'
    BY <1>9 DEF BackupFails, memory, ghosts, Advance, Leave, EndJob, Holding, Rotating,
       Jobs, Generations, Live, Rotating, Holding, TypeControl
  <2>5. Stopped'
    BY <1>9 DEF BackupFails, memory, ghosts, Advance, Leave, EndJob, Holding, Rotating,
       Jobs, Stopped, Live
  <2>6. ArmedContent'
    BY <1>9 DEF BackupFails, memory, ghosts, Advance, Leave, EndJob, Holding, Rotating,
       Jobs, ArmedContent, Armed, Owed, Content, Live
  <2>7. OwedKept'
    BY <1>9 DEF BackupFails, memory, ghosts, Advance, Leave, EndJob, Holding, Rotating,
       Jobs, OwedKept, OneHolder, Owed, Captured, Content, Live
  <2> QED
    BY <1>1, <2>1, <2>2, <2>3, <2>4, <2>5, <2>6, <2>7
<1>10. ASSUME NEW t \in Tasks, BackupRetry(t) PROVE IInv'
  <2>1. NoReset'
    BY <1>10 DEF BackupRetry, disk, memory, ghosts, Advance, Leave, EndJob, Holding,
       Rotating, Jobs, NoReset
  <2>2. Coverage'
    BY <1>10 DEF BackupRetry, disk, memory, ghosts, Advance, Leave, EndJob, Holding,
       Rotating, Jobs, Coverage, Live, memory, ghosts
  <2>3. OneHolder'
    BY <1>10 DEF BackupRetry, disk, memory, ghosts, Advance, Leave, EndJob, Holding,
       Rotating, Jobs, OneHolder, Holding, Rotating
  <2>4. Generations'
    BY <1>10 DEF BackupRetry, disk, memory, ghosts, Advance, Leave, EndJob, Holding,
       Rotating, Jobs, Generations, Live, Rotating, Holding, TypeControl
  <2>5. Stopped'
    BY <1>10 DEF BackupRetry, disk, memory, ghosts, Advance, Leave, EndJob, Holding,
       Rotating, Jobs, Stopped, Live
  <2>6. ArmedContent'
    BY <1>10 DEF BackupRetry, disk, memory, ghosts, Advance, Leave, EndJob, Holding,
       Rotating, Jobs, ArmedContent, Armed, Owed, Content, Live
  <2>7. OwedKept'
    BY <1>10 DEF BackupRetry, disk, memory, ghosts, Advance, Leave, EndJob, Holding,
       Rotating, Jobs, OwedKept, Owed, Captured, Content, Live
  <2> QED
    BY <1>1, <2>1, <2>2, <2>3, <2>4, <2>5, <2>6, <2>7
<1>11. ASSUME NEW r \in TimerJobs, RotationTick(r) PROVE IInv'
  <2>1. NoReset'
    BY <1>11 DEF RotationTick, disk, Rotators, BudgetKinds, TypeControl, memory, ghosts,
       Advance, Leave, EndJob, Holding, Rotating, Jobs, NoReset
  <2>2. Coverage'
    BY <1>11 DEF RotationTick, disk, Rotators, BudgetKinds, TypeControl, memory, ghosts,
       Advance, Leave, EndJob, Holding, Rotating, Jobs, Coverage, Live, memory, ghosts
  <2>3. OneHolder'
    BY <1>11 DEF RotationTick, disk, Rotators, BudgetKinds, TypeControl, memory, ghosts,
       Advance, Leave, EndJob, Holding, Rotating, Jobs, OneHolder, Holding, Rotating
  <2>4. Generations'
    BY <1>11 DEF RotationTick, disk, Rotators, BudgetKinds, TypeControl, memory, ghosts,
       Advance, Leave, EndJob, Holding, Rotating, Jobs, Generations, Live, Rotating,
       Holding, TypeControl
  <2>5. Stopped'
    BY <1>11 DEF RotationTick, disk, Rotators, BudgetKinds, TypeControl, memory, ghosts,
       Advance, Leave, EndJob, Holding, Rotating, Jobs, Stopped, Live
  <2>6. ArmedContent'
    BY <1>11 DEF RotationTick, disk, Rotators, BudgetKinds, TypeControl, memory, ghosts,
       Advance, Leave, EndJob, Holding, Rotating, Jobs, ArmedContent, Armed, Owed, Content,
       Live
  <2>7. OwedKept'
    BY <1>11 DEF RotationTick, disk, Rotators, BudgetKinds, TypeControl, memory, ghosts,
       Advance, Leave, EndJob, Holding, Rotating, Jobs, OwedKept, Owed, Captured, Content,
       Live
  <2> QED
    BY <1>1, <2>1, <2>2, <2>3, <2>4, <2>5, <2>6, <2>7
<1>12. ASSUME NEW r \in Demands, RotateOnDemand(r) PROVE IInv'
  <2>1. NoReset'
    BY <1>12 DEF RotateOnDemand, disk, Rotators, BudgetKinds, TypeControl, memory,
       ghosts, Advance, Leave, EndJob, Holding, Rotating, Jobs, NoReset
  <2>2. Coverage'
    BY <1>12 DEF RotateOnDemand, disk, Rotators, BudgetKinds, TypeControl, memory,
       ghosts, Advance, Leave, EndJob, Holding, Rotating, Jobs, Coverage, Live, memory,
       ghosts
  <2>3. OneHolder'
    BY <1>12 DEF RotateOnDemand, disk, Rotators, BudgetKinds, TypeControl, memory,
       ghosts, Advance, Leave, EndJob, Holding, Rotating, Jobs, OneHolder, Holding,
       Rotating
  <2>4. Generations'
    BY <1>12 DEF RotateOnDemand, disk, Rotators, BudgetKinds, TypeControl, memory,
       ghosts, Advance, Leave, EndJob, Holding, Rotating, Jobs, Generations, Live,
       Rotating, Holding, TypeControl
  <2>5. Stopped'
    BY <1>12 DEF RotateOnDemand, disk, Rotators, BudgetKinds, TypeControl, memory,
       ghosts, Advance, Leave, EndJob, Holding, Rotating, Jobs, Stopped, Live
  <2>6. ArmedContent'
    BY <1>12 DEF RotateOnDemand, disk, Rotators, BudgetKinds, TypeControl, memory,
       ghosts, Advance, Leave, EndJob, Holding, Rotating, Jobs, ArmedContent, Armed, Owed,
       Content, Live
  <2>7. OwedKept'
    BY <1>12 DEF RotateOnDemand, disk, Rotators, BudgetKinds, TypeControl, memory,
       ghosts, Advance, Leave, EndJob, Holding, Rotating, Jobs, OwedKept, Owed, Captured,
       Content, Live
  <2> QED
    BY <1>1, <2>1, <2>2, <2>3, <2>4, <2>5, <2>6, <2>7
<1>13. ASSUME NEW r \in Rotators, AcquireManager(r) PROVE IInv'
  <2>1. NoReset'
    BY <1>13 DEF AcquireManager, disk, MgrFree, TypeControl, memory, ghosts, Advance,
       Leave, EndJob, Holding, Rotating, Jobs, NoReset
  <2>2. Coverage'
    BY <1>13 DEF AcquireManager, disk, MgrFree, TypeControl, memory, ghosts, Advance,
       Leave, EndJob, Holding, Rotating, Jobs, Coverage, Live, memory, ghosts
  <2>3. OneHolder'
    BY <1>13 DEF AcquireManager, disk, MgrFree, TypeControl, memory, ghosts, Advance,
       Leave, EndJob, Holding, Rotating, Jobs, OneHolder, Holding, Rotating
  <2>4. Generations'
    BY <1>13 DEF AcquireManager, disk, MgrFree, TypeControl, memory, ghosts, Advance,
       Leave, EndJob, Holding, Rotating, Jobs, Generations, Live, Rotating, Holding,
       TypeControl
  <2>5. Stopped'
    BY <1>13 DEF AcquireManager, disk, MgrFree, TypeControl, memory, ghosts, Advance,
       Leave, EndJob, Holding, Rotating, Jobs, Stopped, Live
  <2>6. ArmedContent'
    BY <1>13 DEF AcquireManager, disk, MgrFree, TypeControl, memory, ghosts, Advance,
       Leave, EndJob, Holding, Rotating, Jobs, ArmedContent, OwedKept, Generations,
       Stopped, Armed, Owed, Content, Live
  <2>7. OwedKept'
    BY <1>13 DEF AcquireManager, disk, MgrFree, TypeControl, memory, ghosts, Advance,
       Leave, EndJob, Holding, Rotating, Jobs, OwedKept, Owed, Captured, Content, Live
  <2> QED
    BY <1>1, <2>1, <2>2, <2>3, <2>4, <2>5, <2>6, <2>7
<1>14. ASSUME NEW r \in Rotators, FinishRotation(r) PROVE IInv'
  <2>11. \A j \in Jobs : phase[j] \in Holding => j = r
    BY <1>14 DEF FinishRotation, OneHolder, Holding, Jobs
  <2>12. \A j \in Jobs : phase'[j] = IF j = r THEN "idle" ELSE phase[j]
    BY <1>14 DEF FinishRotation, SwapFilters, EndJob, Jobs
  <2>13. \A j \in Jobs : phase'[j] \notin Holding
    BY <2>11, <2>12 DEF Holding
  <2>1. NoReset'
    BY <1>14 DEF FinishRotation, SwapFilters, NoReset
  <2>2. Coverage'
    BY <1>14 DEF FinishRotation, SwapFilters, Coverage, Live, Aged, TypeGhosts
  <2>3. OneHolder'
    BY <1>14, <2>12, <2>13 DEF FinishRotation, SwapFilters, OneHolder, Rotating, Holding,
       Jobs
  <2>4. Generations'
    BY <1>14, <2>12 DEF FinishRotation, SwapFilters, EndJob, Generations, Live,
       TypeControl, Jobs, Rotating, Holding, OneHolder
  <2>5. Stopped'
    BY <1>14, <2>12 DEF FinishRotation, SwapFilters, Stopped, Live
  <2>6. ArmedContent'
    <3>1. CASE Live
      <4>1. \A j \in Jobs : ~Armed(j)'
        BY <1>14, <2>12, <2>13, <3>1 DEF FinishRotation, SwapFilters, EndJob, Armed,
           OneHolder, Generations, Live,
           Rotating, Holding, Jobs, TypeControl
      <4> QED
        BY <4>1 DEF ArmedContent
    <3>2. CASE ~Live
      <4>1. Owed' \subseteq Owed
        BY <1>14, <3>2 DEF FinishRotation, SwapFilters, Owed, OwedKept, Captured, Aged,
           TypeGhosts, Live
      <4>2. \A j \in Jobs : Armed(j)' => Armed(j) /\ Content(j)' = Content(j)
        BY <1>14, <2>12, <2>13, <3>2 DEF FinishRotation, SwapFilters, EndJob, Armed, Content,
           Detached, Stopped, Holding, Jobs
      <4>3. ~Live'
        BY <1>14, <3>2 DEF FinishRotation, SwapFilters, Live
      <4> QED
        BY <4>1, <4>2, <4>3 DEF ArmedContent
    <3> QED
      BY <3>1, <3>2
  <2>7. OwedKept'
    <3>1. \A j \in Jobs : phase'[j] \notin Holding /\ phase'[j] \notin {"locked", "written"}
      BY <2>13 DEF Holding
    <3>2. Owed' \subseteq blobCur' \cup wal'
      BY <1>14 DEF FinishRotation, SwapFilters, Owed, OwedKept, Captured, Coverage, Aged,
         TypeGhosts, Live, Holding, Jobs
    <3>3. Live' => Owed' \subseteq current'
      BY <1>14 DEF FinishRotation, SwapFilters, Owed, OwedKept, Captured, Coverage, Aged,
         TypeGhosts, Live, Holding, Jobs
    <3> QED
      BY <3>1, <3>2, <3>3 DEF OwedKept
  <2> QED
    BY <1>1, <2>1, <2>2, <2>3, <2>4, <2>5, <2>6, <2>7
<1>15. ASSUME NEW r \in Rotators, RotationBackupFails(r) PROVE IInv'
  <2>11. \A j \in Jobs : phase[j] \in Holding => j = r
    BY <1>15 DEF RotationBackupFails, OneHolder, Holding, Jobs
  <2>12. \A j \in Jobs : phase'[j] = IF j = r THEN "idle" ELSE phase[j]
    BY <1>15 DEF RotationBackupFails, SwapFilters, EndJob, Jobs
  <2>13. \A j \in Jobs : phase'[j] \notin Holding
    BY <2>11, <2>12 DEF Holding
  <2>1. NoReset'
    BY <1>15 DEF RotationBackupFails, SwapFilters, NoReset
  <2>2. Coverage'
    BY <1>15 DEF RotationBackupFails, SwapFilters, Coverage, Live, Aged, TypeGhosts
  <2>3. OneHolder'
    BY <1>15, <2>12, <2>13 DEF RotationBackupFails, SwapFilters, OneHolder, Rotating,
       Holding, Jobs
  <2>4. Generations'
    BY <1>15, <2>12 DEF RotationBackupFails, SwapFilters, EndJob, Generations, Live,
       TypeControl, Jobs, Rotating, Holding, OneHolder
  <2>5. Stopped'
    BY <1>15, <2>12 DEF RotationBackupFails, SwapFilters, Stopped, Live
  <2>6. ArmedContent'
    <3>1. CASE Live
      <4>1. \A j \in Jobs : ~Armed(j)'
        BY <1>15, <2>12, <2>13, <3>1 DEF RotationBackupFails, SwapFilters, EndJob, Armed,
           OneHolder, Generations, Live,
           Rotating, Holding, Jobs, TypeControl
      <4> QED
        BY <4>1 DEF ArmedContent
    <3>2. CASE ~Live
      <4>1. Owed' \subseteq Owed
        BY <1>15, <3>2 DEF RotationBackupFails, SwapFilters, Owed, OwedKept, Captured, Aged,
           TypeGhosts, Live
      <4>2. \A j \in Jobs : Armed(j)' => Armed(j) /\ Content(j)' = Content(j)
        BY <1>15, <2>12, <2>13, <3>2 DEF RotationBackupFails, SwapFilters, EndJob, Armed,
           Content, Detached, Stopped, Holding, Jobs
      <4>3. ~Live'
        BY <1>15, <3>2 DEF RotationBackupFails, SwapFilters, Live
      <4> QED
        BY <4>1, <4>2, <4>3 DEF ArmedContent
    <3> QED
      BY <3>1, <3>2
  <2>7. OwedKept'
    <3>1. \A j \in Jobs : phase'[j] \notin Holding /\ phase'[j] \notin {"locked", "written"}
      BY <2>13 DEF Holding
    <3>2. Owed' \subseteq blobCur' \cup wal'
      BY <1>15 DEF RotationBackupFails, SwapFilters, Owed, OwedKept, Captured, Coverage,
         Aged, TypeGhosts, Live, Holding, Jobs
    <3>3. Live' => Owed' \subseteq current'
      BY <1>15 DEF RotationBackupFails, SwapFilters, Owed, OwedKept, Captured, Coverage,
         Aged, TypeGhosts, Live, Holding, Jobs
    <3> QED
      BY <3>1, <3>2, <3>3 DEF OwedKept
  <2> QED
    BY <1>1, <2>1, <2>2, <2>3, <2>4, <2>5, <2>6, <2>7
<1>99. ~ResetCall /\ ~ClearCall /\ ~ResetRun
  BY DEF NoReset, ResetCall, ClearCall, ResetRun
<1>16. CASE Shutdown
  <2>1. NoReset'
    BY <1>16 DEF Shutdown, memory, jobs, ghosts, disk, NoReset
  <2>2. Coverage'
    BY <1>16 DEF Shutdown, memory, jobs, ghosts, disk, Coverage, Live, memory, ghosts
  <2>3. OneHolder'
    BY <1>16 DEF Shutdown, memory, jobs, ghosts, disk, OneHolder, Holding, Rotating
  <2>4. Generations'
    BY <1>16 DEF Shutdown, memory, jobs, ghosts, disk, Generations, Live, Rotating,
       Holding, TypeControl
  <2>5. Stopped'
    BY <1>16 DEF Shutdown, memory, jobs, ghosts, disk, Stopped, Live
  <2>6. ArmedContent'
    BY <1>16 DEF Shutdown, memory, jobs, ghosts, disk, ArmedContent, Armed, Owed,
       Content, Live
  <2>7. OwedKept'
    BY <1>16 DEF Shutdown, memory, jobs, ghosts, disk, OwedKept, Owed, Captured,
       Content, Live
  <2> QED
    BY <1>1, <2>1, <2>2, <2>3, <2>4, <2>5, <2>6, <2>7
<1>17. CASE Destroy
  <2>1. NoReset'
    BY <1>17 DEF Destroy, disk, ghosts, Detached, Jobs, NoReset
  <2>2. Coverage'
    BY <1>17 DEF Destroy, disk, ghosts, Detached, Jobs, Coverage, Live, memory, ghosts
  <2>3. OneHolder'
    BY <1>17 DEF Destroy, disk, ghosts, Detached, Jobs, OneHolder, Holding, Rotating
  <2>4. Generations'
    BY <1>17 DEF Destroy, disk, ghosts, Detached, Jobs, Generations, Live, Rotating,
       Holding, TypeControl
  <2>5. Stopped'
    BY <1>17 DEF Destroy, disk, ghosts, Detached, Jobs, Stopped, Live
  <2>6. ArmedContent'
    BY <1>17 DEF Destroy, disk, ghosts, Detached, Jobs, ArmedContent, Armed, Owed,
       Content, Live
  <2>7. OwedKept'
    BY <1>17 DEF Destroy, disk, ghosts, Detached, Jobs, OwedKept, ArmedContent, Armed,
       Owed, Captured, Content, Live
  <2> QED
    BY <1>1, <2>1, <2>2, <2>3, <2>4, <2>5, <2>6, <2>7
<1>18. CASE Crash
  <2>1. NoReset'
    BY <1>18 DEF Crash, NoJobs, ghosts, BudgetKinds, TypeControl, Holding, Rotating,
       Jobs, NoReset
  <2>2. Coverage'
    BY <1>18 DEF Crash, NoJobs, ghosts, BudgetKinds, TypeControl, Holding, Rotating,
       Jobs, Coverage, Live, memory, ghosts
  <2>3. OneHolder'
    BY <1>18 DEF Crash, NoJobs, ghosts, BudgetKinds, TypeControl, Holding, Rotating,
       Jobs, OneHolder, Holding, Rotating
  <2>4. Generations'
    BY <1>18 DEF Crash, NoJobs, ghosts, BudgetKinds, TypeControl, Holding, Rotating,
       Jobs, Generations, Live, Rotating, Holding, TypeControl
  <2>5. Stopped'
    BY <1>18 DEF Crash, NoJobs, ghosts, BudgetKinds, TypeControl, Holding, Rotating,
       Jobs, Stopped, Live
  <2>6. ArmedContent'
    BY <1>18 DEF Crash, NoJobs, ghosts, BudgetKinds, TypeControl, Holding, Rotating,
       Jobs, ArmedContent, Armed, Owed, Content, Live
  <2>7. OwedKept'
    BY <1>18 DEF Crash, NoJobs, ghosts, BudgetKinds, TypeControl, Holding, Rotating,
       Jobs, OwedKept, Owed, Captured, Content, Live
  <2> QED
    BY <1>1, <2>1, <2>2, <2>3, <2>4, <2>5, <2>6, <2>7
<1>19. CASE Start
  <2>1. NoReset'
    BY <1>19 DEF Start, RestoreFiles, jobs, disk, TypeGhosts, NoReset
  <2>2. Coverage'
    BY <1>19 DEF Start, RestoreFiles, jobs, disk, TypeGhosts, Coverage, OwedKept, Owed,
       Live
  <2>3. OneHolder'
    BY <1>19 DEF Start, RestoreFiles, jobs, disk, TypeGhosts, OneHolder, Holding, Rotating
  <2>4. Generations'
    BY <1>19 DEF Start, RestoreFiles, jobs, disk, TypeGhosts, Generations, Stopped,
       Rotating, Holding, Jobs
  <2>5. Stopped'
    BY <1>19 DEF Start, RestoreFiles, jobs, disk, TypeGhosts, Stopped, Live
  <2>6. ArmedContent'
    BY <1>19 DEF Start, RestoreFiles, jobs, disk, TypeGhosts, ArmedContent, Stopped,
       Armed, Holding
  <2>7. OwedKept'
    BY <1>19 DEF Start, RestoreFiles, jobs, disk, TypeGhosts, OwedKept, Stopped, Owed,
       Live, Holding
  <2> QED
    BY <1>1, <2>1, <2>2, <2>3, <2>4, <2>5, <2>6, <2>7
<1>20. CASE UNCHANGED vars
  <2>1. NoReset'
    BY <1>20 DEF vars, memory, jobs, ghosts, disk, NoReset
  <2>2. Coverage'
    BY <1>20 DEF vars, memory, jobs, ghosts, disk, Coverage, Live, memory, ghosts
  <2>3. OneHolder'
    BY <1>20 DEF vars, memory, jobs, ghosts, disk, OneHolder, Holding, Rotating
  <2>4. Generations'
    BY <1>20 DEF vars, memory, jobs, ghosts, disk, Generations, Live, Rotating, Holding,
       TypeControl
  <2>5. Stopped'
    BY <1>20 DEF vars, memory, jobs, ghosts, disk, Stopped, Live
  <2>6. ArmedContent'
    BY <1>20 DEF vars, memory, jobs, ghosts, disk, ArmedContent, Armed, Owed, Content,
       Live
  <2>7. OwedKept'
    BY <1>20 DEF vars, memory, jobs, ghosts, disk, OwedKept, Owed, Captured, Content, Live
  <2> QED
    BY <1>1, <2>1, <2>2, <2>3, <2>4, <2>5, <2>6, <2>7
<1> QED
  BY <1>99, <1>2, <1>3, <1>4, <1>5, <1>6, <1>7, <1>8, <1>9, <1>10, <1>11, <1>12,
     <1>13, <1>14, <1>15, <1>16, <1>17, <1>18, <1>19, <1>20
     DEF Next, Add, ApplyEntry, TaskStep, RotatorStep, DiskStep, Jobs

LEMMA IInvInit == Init /\ Budget["reset"] = 0 => IInv
<1> SUFFICES ASSUME Init, Budget["reset"] = 0 PROVE IInv
  OBVIOUS
<1>1. TypeOK
  BY TypeInit
<1>2. NoReset /\ Coverage
  BY DEF Init, NoReset, Coverage
<1>3. OneHolder /\ Stopped
  BY DEF Init, OneHolder, Stopped, Holding, Rotating, Jobs
<1>4. Generations
  BY DEF Init, Generations, Rotating, Holding, Jobs
<1>5. Owed = {}
  BY DEF Init, Owed
<1>6. ArmedContent
  BY <1>5 DEF Init, ArmedContent, Armed, Holding, Jobs
<1>7. OwedKept
  BY <1>5 DEF Init, OwedKept, Holding
<1> QED
  BY <1>1, <1>2, <1>3, <1>4, <1>6, <1>7 DEF IInv

LEMMA IInvDurable == IInv => Durable
BY DEF IInv, OwedKept, Owed, Durable

\* README "Rotation and validity", for every number of tokens, of overlapping
\* backups and rotations and of crashes: a promised token is in the filters.
THEOREM CoverageHolds == Budget["reset"] = 0 /\ Spec => []Coverage
<1> SUFFICES ASSUME Budget["reset"] = 0 PROVE Spec => []Coverage
  OBVIOUS
<1>1. Init => IInv
  BY IInvInit
<1>2. IInv => Coverage
  BY DEF IInv
<1> QED
  BY <1>1, <1>2, IInvStep, PTL DEF Spec

\* Comment of add(): a crash at any instant finds every promised token that is
\* not at risk in the files.
THEOREM DurableHolds == Budget["reset"] = 0 /\ Spec => []Durable
<1> SUFFICES ASSUME Budget["reset"] = 0 PROVE Spec => []Durable
  OBVIOUS
<1>1. Init => IInv
  BY IInvInit
<1> QED
  BY <1>1, IInvDurable, IInvStep, PTL DEF Spec

\* Comment of #generation, for every number of overlapping backups: a backup
\* that renames its blob over the current one saves the filter in use.
THEOREM StaleBackupsNeverLand == Budget["reset"] = 0 /\ Spec => StaleBackupNeverLands
<1> SUFFICES ASSUME Budget["reset"] = 0 PROVE Spec => StaleBackupNeverLands
  OBVIOUS
<1>1. Init => IInv
  BY IInvInit
<1>2. IInv => [\A t \in Tasks : (Live /\ phase[t] = "written" /\ phase'[t] = "renamed")
                                    => aliased[t]]_vars
  BY DEF IInv, ArmedContent, Armed, Holding, Jobs
<1> QED
  BY <1>1, <1>2, IInvStep, PTL DEF Spec, StaleBackupNeverLands
-----------------------------------------------------------------------------
(* The schedule, and the eviction of what nobody owes any more: what holds *)
(* in the life of a manager that is not reset.                             *)

Unreset   == budget["reset"] = Budget["reset"]
Uncrashed == budget["crash"] = Budget["crash"]

\* What is left of the budget tells whether there was a crash or a reset.
Spent ==
    /\ budget["crash"] <= Budget["crash"] /\ budget["reset"] <= Budget["reset"]
    /\ resetPc # "idle" => ~Unreset
    /\ status = "down" => ~Uncrashed /\ \A j \in Jobs : phase[j] = "idle"

\* The interval is alive and has its handle, or a rotation on demand is under
\* way and both are gone.
Timed ==
    Live /\ Unreset =>
        IF \A r \in Demands : phase[r] = "idle"
        THEN timers = 1 /\ handle = 1
        ELSE timers = 0 /\ handle = 0

\* A token whose window is over is in neither filter, and one that lived
\* through a rotation is no longer in the current one: the next rotation,
\* which throws the previous filter away, then evicts it.
Aging ==
    Live /\ Unreset /\ Uncrashed =>
        \A i \in Items :
            /\ age[i] = 2 => i \notin current /\ i \notin previous
            /\ age[i] = 1 => i \notin current

\* The inductive invariants of the schedule and of the eviction.
SInv == TypeOK /\ Spent /\ Timed

CInv == TypeOK /\ Spent /\ Aging

\* Every step keeps the budget's account, and once there was a reset or a crash
\* there always was one.
LEMMA SpentStep ==
    TypeOK /\ Spent /\ [Next]_vars =>
        /\ Spent'
        /\ Unreset' => Unreset /\ ~ResetCall /\ ~ClearCall /\ ~ResetRun
        /\ Uncrashed' => Uncrashed /\ ~Start
<1> SUFFICES ASSUME TypeOK, Spent, [Next]_vars
             PROVE  /\ Spent'
                    /\ Unreset' => Unreset /\ ~ResetCall /\ ~ClearCall /\ ~ResetRun
                    /\ Uncrashed' => Uncrashed /\ ~Start
  OBVIOUS
<1>1. /\ budget["crash"] \in Nat /\ budget["reset"] \in Nat
      /\ Budget["crash"] \in Nat /\ Budget["reset"] \in Nat
  BY LimitsAssumption DEF TypeOK, TypeControl, BudgetKinds
<1>2. /\ ResetCall \/ ClearCall => budget' = [budget EXCEPT !["reset"] = @ - 1]
      /\ Crash => budget' = [budget EXCEPT !["crash"] = @ - 1]
      /\ \/ ResetCall \/ ClearCall \/ Crash
         \/ budget'["crash"] = budget["crash"] /\ budget'["reset"] = budget["reset"]
  <2> SUFFICES ~ResetCall /\ ~ClearCall /\ ~Crash =>
                   budget' = budget \/ budget' = [budget EXCEPT !["rotation"] = @ - 1]
    BY DEF ResetCall, ClearCall, Crash, TypeOK, TypeControl, BudgetKinds
  <2> QED
    BY DEF Next, vars, Add, ApplyEntry, Insert, TornAppend, BackupTick, TaskStep, RotatorStep,
       DiskStep, LockFile, WriteBlob, RenameBlob, TruncateLog, BackupFails, BackupRetry,
       RotationTick, RotateOnDemand, AcquireManager, FinishRotation, RotationBackupFails,
       SwapFilters, ResetRun, Shutdown, Destroy, Start
<1>3. /\ ResetCall \/ ClearCall => /\ budget'["reset"] = budget["reset"] - 1
                                   /\ budget'["crash"] = budget["crash"]
      /\ Crash => /\ budget'["crash"] = budget["crash"] - 1
                  /\ budget'["reset"] = budget["reset"]
  BY <1>2 DEF TypeOK, TypeControl, BudgetKinds
<1>4. /\ budget'["crash"] <= budget["crash"] /\ budget'["reset"] <= budget["reset"]
      /\ budget'["crash"] <= Budget["crash"] /\ budget'["reset"] <= Budget["reset"]
      /\ Unreset' => Unreset /\ ~ResetCall /\ ~ClearCall
      /\ Uncrashed' => Uncrashed /\ ~Crash
  BY <1>1, <1>2, <1>3 DEF Spent, Unreset, Uncrashed
<1>5. resetPc' # "idle" => ResetCall \/ ClearCall \/ resetPc' = resetPc
  BY DEF Next, vars, Add, ApplyEntry, Insert, TornAppend, BackupTick, TaskStep, RotatorStep,
     DiskStep, LockFile, WriteBlob, RenameBlob, TruncateLog, BackupFails, BackupRetry,
     RotationTick, RotateOnDemand, AcquireManager, FinishRotation, RotationBackupFails,
     SwapFilters, ResetRun, Shutdown, Destroy, Crash, Start
<1>6. ASSUME status' = "down" PROVE ~Uncrashed' /\ \A j \in Jobs : phase'[j] = "idle"
  <2>1. CASE Crash
    BY <1>4, <2>1 DEF Crash, NoJobs
  <2>2. CASE ~Crash
    <3>1. status = "down"
      BY <1>6, <2>2 DEF Next, vars, Add, ApplyEntry, Insert, TornAppend, BackupTick, TaskStep,
         RotatorStep, DiskStep, LockFile, WriteBlob, RenameBlob, TruncateLog, BackupFails,
         BackupRetry, RotationTick, RotateOnDemand, AcquireManager, FinishRotation,
         RotationBackupFails, SwapFilters, ResetCall, ClearCall, ResetRun, Shutdown, Destroy,
         Start
    <3>2. ~Uncrashed /\ \A j \in Jobs : phase[j] = "idle"
      BY <3>1 DEF Spent
    <3>3. phase' = phase
      BY <1>6, <2>2, <3>1, <3>2 DEF Next, vars, jobs, Add, ApplyEntry, Insert, TornAppend,
         BackupTick, TaskStep, RotatorStep, DiskStep, LockFile, WriteBlob, RenameBlob,
         TruncateLog, BackupFails, BackupRetry, RotationTick, RotateOnDemand, AcquireManager,
         FinishRotation, RotationBackupFails, ResetCall, ClearCall, ResetRun,
         Shutdown, Destroy, Start, Live, Jobs, Rotators, Holding
    <3> QED
      BY <1>4, <3>2, <3>3
  <2> QED
    BY <2>1, <2>2
<1>7. Spent'
  BY <1>4, <1>5, <1>6 DEF Spent
<1>8. ResetRun => ~Unreset
  BY DEF ResetRun, Spent
<1>9. Start => ~Uncrashed
  BY DEF Start, Spent
<1> QED
  BY <1>4, <1>7, <1>8, <1>9

\* A step that leaves the interval alone keeps the schedule, if no rotation on
\* demand begins or ends in it.
LEMMA TimedKept ==
    ASSUME Timed, UNCHANGED timing, Live' => Live, Unreset' => Unreset,
           \A r \in Demands : phase'[r] = "idle" <=> phase[r] = "idle"
    PROVE  Timed'
BY DEF Timed, timing

\* So does every step while rotateOnDemand has one caller at a time.
LEMMA TimedStep ==
    ASSUME \A r, s \in Demands : r = s
    PROVE  SInv /\ [Next]_vars => SInv'
<1> SUFFICES ASSUME SInv, [Next]_vars PROVE SInv'
  OBVIOUS
<1> USE DEF SInv
<1>1. TypeOK' /\ Spent' /\ (Unreset' => Unreset /\ ~ResetCall /\ ~ClearCall /\ ~ResetRun)
  BY TypeStep, SpentStep
<1>2. Timed'
  <2> SUFFICES ASSUME Live', Unreset' PROVE Timed'
    BY DEF Timed
  <2>1. Unreset /\ ~ResetCall /\ ~ClearCall /\ ~ResetRun
    BY <1>1
  <2>2. TypeJobs
    BY DEF TypeOK
  <2>3. ASSUME NEW i \in Items, Insert(i) PROVE Timed'
    BY <2>1, <2>3, TimedKept DEF Insert, jobs, Live
  <2>4. CASE TornAppend
    BY <2>1, <2>4, TimedKept DEF TornAppend, jobs, Live
  <2>5. ASSUME NEW t \in Tasks, BackupTick(t) \/ BackupFails(t) \/ BackupRetry(t)
        PROVE Timed'
    <3>1. \A r \in Demands : phase'[r] = phase[r]
      BY <2>2, <2>5, JobsAssumption DEF BackupTick, BackupFails, BackupRetry, Leave, EndJob,
         Advance, TypeJobs, Jobs, Rotators
    <3>2. UNCHANGED <<status, timing>>
      BY <2>5 DEF BackupTick, BackupFails, BackupRetry
    <3> QED
      BY <2>1, <3>1, <3>2, TimedKept DEF Live
  <2>6. ASSUME NEW j \in Jobs, DiskStep(j) PROVE Timed'
    <3>1. \A r \in Demands : phase'[r] = "idle" <=> phase[r] = "idle"
      BY <2>2, <2>6, JobsAssumption DEF DiskStep, LockFile, WriteBlob, RenameBlob, TruncateLog,
         Leave, EndJob, Advance, TypeJobs, Jobs, Rotators
    <3>2. UNCHANGED <<status, timing>>
      BY <2>6 DEF DiskStep, LockFile, WriteBlob, RenameBlob, TruncateLog
    <3> QED
      BY <2>1, <3>1, <3>2, TimedKept DEF Live
  <2>7. ASSUME NEW r \in TimerJobs, RotationTick(r) PROVE Timed'
    <3>1. \A s \in Demands : phase'[s] = phase[s]
      BY <2>2, <2>7, JobsAssumption DEF RotationTick, Advance, TypeJobs, Jobs, Rotators
    <3> QED
      BY <2>1, <2>7, <3>1, TimedKept DEF RotationTick, Live
  <2>8. ASSUME NEW r \in Demands, RotateOnDemand(r) PROVE Timed'
    <3>1. \A s \in Demands : phase[s] = "idle"
      BY <2>8 DEF RotateOnDemand
    <3>2. timers = 1 /\ handle = 1
      BY <2>1, <2>8, <3>1 DEF Timed, RotateOnDemand, Live
    <3>3. phase'[r] = "waiting"
      BY <2>2, <2>8 DEF RotateOnDemand, Advance, TypeJobs, Jobs, Rotators
    <3>4. timers' = 0 /\ handle' = 0
      BY <2>8, <3>2 DEF RotateOnDemand, StoppedTimers
    <3> QED
      BY <3>3, <3>4 DEF Timed
  <2>9. ASSUME NEW r \in Rotators, AcquireManager(r) PROVE Timed'
    <3>1. Live
      BY <2>9 DEF AcquireManager, Live
    <3>2. \A s \in Demands : phase'[s] = "idle" <=> phase[s] = "idle"
      BY <2>2, <2>9, <3>1 DEF AcquireManager, TypeJobs, Jobs, Rotators
    <3> QED
      BY <2>1, <2>9, <3>1, <3>2, TimedKept DEF AcquireManager
  <2>10. ASSUME NEW r \in Rotators, FinishRotation(r) \/ RotationBackupFails(r) PROVE Timed'
    <3>1. SwapFilters(r) /\ UNCHANGED status /\ phase[r] # "idle"
      BY <2>10 DEF FinishRotation, RotationBackupFails, SwapFilters, Holding
    <3>2. phase' = [phase EXCEPT ![r] = "idle"] /\ FinishTiming(r)
      BY <3>1 DEF SwapFilters, EndJob
    <3>3. Live
      BY <3>1 DEF Live
    <3>4. CASE r \in Demands
      <4>1. timers = 0 /\ handle = 0
        BY <2>1, <3>1, <3>3, <3>4 DEF Timed
      <4>2. timers' = 1 /\ handle' = 1
        BY <3>2, <3>4, <4>1 DEF FinishTiming
      <4>3. \A s \in Demands : phase'[s] = "idle"
        BY <2>2, <3>2, <3>4 DEF TypeJobs, Jobs, Rotators
      <4> QED
        BY <4>2, <4>3 DEF Timed
    <3>5. CASE r \notin Demands
      <4>1. \A s \in Demands : phase'[s] = phase[s]
        BY <2>2, <3>2, <3>5 DEF TypeJobs, Jobs, Rotators
      <4> QED
        BY <2>1, <3>2, <3>3, <3>5, <4>1, TimedKept DEF FinishTiming
    <3> QED
      BY <3>4, <3>5
  <2>11. CASE Shutdown
    BY <2>1, <2>11, TimedKept DEF Shutdown, jobs, Live
  <2>12. ~Destroy /\ ~Crash
    BY DEF Destroy, Crash, Live
  <2>13. CASE Start
    BY <2>13 DEF Start, Timed, Spent, jobs, Jobs, Rotators
  <2>14. CASE UNCHANGED vars
    BY <2>1, <2>14, TimedKept DEF vars, jobs, Live
  <2> QED
    BY <2>1, <2>3, <2>4, <2>5, <2>6, <2>7, <2>8, <2>9, <2>10, <2>11, <2>12, <2>13, <2>14
       DEF Next, Add, ApplyEntry, TaskStep, RotatorStep, Jobs
<1> QED
  BY <1>1, <1>2

\* Of one caller at most one rotation on demand is under way.
LEMMA TimedOnce ==
    ASSUME \A r, s \in Demands : r = s, TypeOK, Timed
    PROVE  OneSchedule
<1> SUFFICES ASSUME Live, Unreset
             PROVE  timers + Cardinality({r \in Demands : phase[r] # "idle"}) = 1
  BY DEF OneSchedule, Unreset
<1>1. CASE \A r \in Demands : phase[r] = "idle"
  <2>1. {r \in Demands : phase[r] # "idle"} = {}
    BY <1>1
  <2>2. Cardinality({r \in Demands : phase[r] # "idle"}) = 0
    BY <2>1, FS_EmptySet
  <2> QED
    BY <1>1, <2>2 DEF Timed
<1>2. ASSUME NEW r \in Demands, phase[r] # "idle"
      PROVE  timers + Cardinality({s \in Demands : phase[s] # "idle"}) = 1
  <2>1. {s \in Demands : phase[s] # "idle"} = {r}
    BY <1>2
  <2>2. Cardinality({s \in Demands : phase[s] # "idle"}) = 1
    BY <2>1, FS_Singleton
  <2>3. timers = 0
    BY <1>2 DEF Timed
  <2> QED
    BY <2>2, <2>3
<1> QED
  BY <1>1, <1>2

\* Comments in rotateOnDemand and #rotateWithRetry, for every number of
\* overlapping backups, scheduled rotations and crashes: while rotateOnDemand
\* has one caller at a time, and before the first reset, the schedule is
\* neither lost nor doubled.
THEOREM OneScheduleHolds == (\A r, s \in Demands : r = s) /\ Spec => []OneSchedule
<1> SUFFICES ASSUME \A r, s \in Demands : r = s PROVE Spec => []OneSchedule
  OBVIOUS
<1>1. Init => SInv
  BY TypeInit, LimitsAssumption
     DEF Init, SInv, Spent, Timed, Unreset, Uncrashed, Live, BudgetKinds, Jobs, Rotators
<1>2. SInv => OneSchedule
  BY TimedOnce DEF SInv
<1> QED
  BY <1>1, <1>2, TimedStep, PTL DEF Spec

\* A rotation empties the current filter and throws the previous one away; an
\* insertion starts the life of its token again.
LEMMA AgingStep == CInv /\ [Next]_vars => CInv'
<1> SUFFICES ASSUME CInv, [Next]_vars PROVE CInv'
  OBVIOUS
<1> USE DEF CInv
<1>1. /\ TypeOK' /\ Spent'
      /\ Unreset' => Unreset /\ ~ResetCall /\ ~ClearCall /\ ~ResetRun
      /\ Uncrashed' => Uncrashed /\ ~Start
  BY TypeStep, SpentStep
<1>2. Aging'
  <2> SUFFICES ASSUME Live', Unreset', Uncrashed' PROVE Aging'
    BY DEF Aging
  <2>1. Unreset /\ Uncrashed /\ ~ResetCall /\ ~ClearCall /\ ~ResetRun /\ ~Start
    BY <1>1
  <2>2. ~Destroy /\ ~Crash
    BY DEF Destroy, Crash, Live
  <2>3. ASSUME UNCHANGED <<age, current, previous>>, Live PROVE Aging'
    BY <2>1, <2>3 DEF Aging
  <2>4. ASSUME NEW i \in Items, Insert(i) PROVE Aging'
    BY <2>1, <2>4 DEF Insert, Aging, Live, TypeOK, TypeGhosts
  <2>5. CASE TornAppend \/ Shutdown \/ UNCHANGED vars
    BY <2>3, <2>5 DEF TornAppend, Shutdown, vars, memory, ghosts, Live
  <2>6. ASSUME NEW j \in Jobs, DiskStep(j) PROVE Aging'
    BY <2>3, <2>6 DEF DiskStep, LockFile, WriteBlob, RenameBlob, TruncateLog, memory, ghosts,
       Live
  <2>7. ASSUME NEW t \in Tasks, BackupTick(t) \/ BackupFails(t) \/ BackupRetry(t)
        PROVE Aging'
    BY <2>3, <2>7 DEF BackupTick, BackupFails, BackupRetry, memory, ghosts, Live
  <2>8. ASSUME NEW r \in Rotators, RotationTick(r) \/ RotateOnDemand(r) \/ AcquireManager(r)
        PROVE Aging'
    BY <2>3, <2>8 DEF RotationTick, RotateOnDemand, AcquireManager, memory, ghosts, Live
  <2>9. ASSUME NEW r \in Rotators, FinishRotation(r) \/ RotationBackupFails(r) PROVE Aging'
    <3>1. Live /\ age' = Aged /\ current' = {} /\ previous' = current
      BY <2>9 DEF FinishRotation, RotationBackupFails, SwapFilters, Live
    <3>2. \A i \in Items : age'[i] = 2 => age[i] \in {1, 2}
      BY <3>1 DEF Aged, TypeOK, TypeGhosts
    <3> QED
      BY <2>1, <3>1, <3>2 DEF Aging
  <2> QED
    BY <2>1, <2>2, <2>4, <2>5, <2>6, <2>7, <2>8, <2>9
       DEF Next, Add, ApplyEntry, TaskStep, RotatorStep, Jobs, Rotators
<1> QED
  BY <1>1, <1>2

\* Comment in #rotate, for every number of tokens, backups and failed
\* rotations: in the life of one process that is not reset, a token is reported
\* for at most two rotations after it was acknowledged.
THEOREM EvictedHolds == Spec => []Evicted
<1>1. Init => CInv
  BY TypeInit, LimitsAssumption DEF Init, CInv, Spent, Aging, Unreset, Uncrashed, BudgetKinds
<1>2. CInv => Evicted
  BY DEF CInv, Aging, Evicted, Unreset, Uncrashed
<1> QED
  BY <1>1, <1>2, AgingStep, PTL DEF Spec
=============================================================================
