---------------------------- MODULE RevokerProofs ----------------------------
(***************************************************************************)
(* The revokers of a process, for every number of them, of calls, tokens   *)
(* and failures.  The four phases of the server decide where a revoker can *)
(* be, and the registry of instances is, while the server listens, exactly *)
(* the set of the revokers that are in use.                                *)
(***************************************************************************)
EXTENDS Revoker, TLAPS

InUse == {r \in Ids : life[r] \in {"ready", "draining"}}

\* The variables of the three source files move together, and with the revokers.
Phases ==
    \/ /\ server = "off" /\ ~grpcServerStarted /\ grpcServerInitPromise = "null"
       /\ instancesMap = NoMap
       /\ \A r \in Ids : life[r] = "none"
    \/ /\ server = "binding" /\ ~grpcServerStarted /\ grpcServerInitPromise = "pending"
       /\ instancesMap = {}
       /\ \A r \in Ids : life[r] \in {"none", "starting"}
       /\ \E r \in Ids : life[r] = "starting"
    \/ /\ server = "listening" /\ grpcServerStarted /\ grpcServerInitPromise = "resolved"
       /\ instancesMap = InUse
       /\ \A r \in Ids : life[r] \in {"none", "ready", "draining"}
       /\ \E r \in Ids : life[r] \in {"ready", "draining"}
    \/ /\ server = "stopping" /\ grpcServerStarted /\ grpcServerInitPromise = "resolved"
       /\ instancesMap = NoMap
       /\ \A r \in Ids : life[r] \in {"none", "stopping"}
       /\ \E r \in Ids : life[r] = "stopping"

\* A revoker that is gone has no manager, and nobody asks for the mutex of a manager
\* that is gone; only shutdown() puts a shutdown there.
Member(r) ==
    /\ life[r] = "none" => ~Alive(r)
    /\ ~Alive(r) => mutex[r] = <<>>
    /\ life[r] \in {"starting", "ready", "draining"} => Alive(r)
    /\ "shutdown" \in ToSet(mutex[r]) => life[r] \in {"draining", "stopping"}

Members == \A r \in Ids : Member(r)

Once(j, queue) == \A i, k \in 1..Len(queue) : (i < k /\ queue[k] = j) => queue[i] # j

\* A rotation is once in the queue of its revoker, or in none; one that saves is the
\* first in it, or its manager is destroyed.
Rotation(j) ==
    /\ \A r \in Ids : j \in ToSet(mutex[r]) => of[j] = r /\ step[j] # "idle"
    /\ j \in ToSet(mutex[of[j]]) /\ step[j] \in {"writing", "renamed"} => Holds(of[j], j)
    /\ Once(j, mutex[of[j]])

Rotations == \A j \in Rotators : Rotation(j)

\* What a truncated log leaves: the blob that is about to become the previous one.
Blob(r) == IF blobCurrent[r] = NoBlob THEN blobPrevious[r] ELSE blobCurrent[r]

\* What is owed is in the files, in a manager that is there, and in what a rotation
\* writes before it truncates the log.
KeptBy(r) ==
    /\ owed[r] \subseteq Files(r)
    /\ Alive(r) => owed[r] \subseteq content[r]
    /\ \A j \in Rotators : of[j] = r =>
          /\ step[j] = "writing" => owed[r] \subseteq copy[j]
          /\ step[j] = "renamed" => owed[r] \subseteq Blob(r)

Kept == \A r \in Ids : KeptBy(r)

\* In a queue the call c is once, and behind a rotation only if it clears nothing.
InOrder(c, queue, tokens) ==
    \A i, j \in 1..Len(queue) :
        (i < j /\ queue[j] = c) => queue[i] # c /\ (queue[i] \in Rotators => tokens = {})

\* What a ResetAndClearData removes is in no file, is not written again by a rotation,
\* and leaves the filters when the reset has the mutex.
Clears(c) ==
    /\ call[c] = "idle" => cleared[c] = {}
    /\ \A r \in Ids : c \in ToSet(mutex[r]) => r = target[c] /\ call[c] \in {"waiting", "timeout"}
    /\ cleared[c] \cap Files(target[c]) = {}
    /\ \A j \in Rotators :
          of[j] = target[c] /\ step[j] = "writing" => cleared[c] \cap copy[j] = {}
    /\ c \notin ToSet(mutex[target[c]]) => cleared[c] \cap content[target[c]] = {}
    /\ InOrder(c, mutex[target[c]], cleared[c])

Clearing == \A c \in Calls : Clears(c)

\* The inductive invariant.
IInv == TypeOK /\ Phases /\ Members /\ Rotations /\ Kept /\ Clearing

Tasks == {"shutdown"} \cup Calls \cup Rotators

-----------------------------------------------------------------------------
(* The queue of a mutex.                                                   *)

\* Who waits after one more has asked.
LEMMA ToSetAppend ==
    ASSUME NEW q \in Seq(Tasks), NEW t \in Tasks
    PROVE  ToSet(Append(q, t)) = ToSet(q) \cup {t}
<1>1. ToSet(Append(q, t)) \subseteq ToSet(q) \cup {t}
  BY DEF ToSet
<1>2. \A x \in ToSet(q) : x \in ToSet(Append(q, t))
  BY DEF ToSet
<1>3. t \in ToSet(Append(q, t))
  BY DEF ToSet
<1> QED
  BY <1>1, <1>2, <1>3

\* Who waits after the first has gone.
LEMMA ToSetTail ==
    ASSUME NEW q \in Seq(Tasks), q # <<>>
    PROVE  ToSet(Tail(q)) \subseteq ToSet(q)
BY DEF ToSet

\* Nobody waits in an empty queue.
LEMMA ToSetEmpty == ToSet(<<>>) = {}
BY DEF ToSet

-----------------------------------------------------------------------------
(* Types.                                                                  *)

\* The initial state has its types.
LEMMA TypeInit == Init => TypeOK
<1> SUFFICES ASSUME Init PROVE TypeOK
  OBVIOUS
<1>1. mutex \in [Ids -> Seq(Tasks)]
  BY DEF Init, Tasks
<1>2. target \in [Calls -> Ids]
  BY RevokerAssumption DEF Init
<1>3. creations \in 0..MaxCreations /\ faults \in 0..MaxFaults
  BY RevokerAssumption DEF Init
<1>4. of \in [Rotators -> Ids]
  BY RevokerAssumption DEF Init
<1>5. blobCurrent \in [Ids -> {NoBlob} \cup SUBSET Tokens]
  BY DEF Init
<1>6. {content, blobPrevious, log, owed} \subseteq [Ids -> SUBSET Tokens]
  BY DEF Init
<1> QED
  BY <1>1, <1>2, <1>3, <1>4, <1>5, <1>6 DEF Init, TypeOK, Tasks

\* What destroying some managers changes keeps its types.
LEMMA DestroyTypes ==
    ASSUME TypeOK, NEW rs, rs \subseteq Ids, DestroyManagers(rs)
    PROVE  /\ manager' \in [Ids -> {"none", "live", "shutting"}]
           /\ content' \in [Ids -> SUBSET Tokens]
           /\ mutex' \in [Ids -> Seq(Tasks)]
           /\ step' \in [Rotators -> {"idle", "waiting", "writing", "renamed"}]
           /\ UNCHANGED <<blobCurrent, blobPrevious, log, of, copy>>
           /\ orphans' \subseteq Ids
           /\ call' \in [Calls -> {"idle", "waiting", "late", "ok", "timeout"}]
<1>1. manager' \in [Ids -> {"none", "live", "shutting"}]
  BY DEF TypeOK, DestroyManagers
<1>2. content' \in [Ids -> SUBSET Tokens]
  BY DEF TypeOK, DestroyManagers
<1>3. mutex' \in [Ids -> Seq(Tasks)]
  BY DEF TypeOK, DestroyManagers, Tasks
<1>4. orphans' \subseteq Ids
  BY DEF TypeOK, DestroyManagers
<1>5. call' \in [Calls -> {"idle", "waiting", "late", "ok", "timeout"}]
  BY DEF TypeOK, DestroyManagers
<1>6. step' \in [Rotators -> {"idle", "waiting", "writing", "renamed"}]
  BY DEF TypeOK, DestroyManagers
<1>7. UNCHANGED <<blobCurrent, blobPrevious, log, of, copy>>
  BY DEF DestroyManagers, files
<1> QED
  BY <1>1, <1>2, <1>3, <1>4, <1>5, <1>6, <1>7

\* A task joins a queue.
LEMMA EnqueueTypes ==
    ASSUME TypeOK, NEW r \in Ids, NEW t \in Tasks, Enqueue(r, t)
    PROVE  mutex' \in [Ids -> Seq(Tasks)]
<1>1. Append(mutex[r], t) \in Seq(Tasks)
  BY DEF TypeOK, Tasks
<1> QED
  BY <1>1 DEF Enqueue, TypeOK, Tasks

\* The first task leaves its queue.
LEMMA ReleaseTypes ==
    ASSUME TypeOK, NEW r \in Ids, mutex[r] # <<>>, Release(r)
    PROVE  mutex' \in [Ids -> Seq(Tasks)]
<1>1. Tail(mutex[r]) \in Seq(Tasks)
  BY DEF TypeOK, Tasks
<1> QED
  BY <1>1 DEF Release, TypeOK, Tasks

\* #cleanupGrpc keeps the types of what it changes.
LEMMA CleanupTypes ==
    ASSUME TypeOK, NEW r \in Ids, CleanupGrpc(r)
    PROVE  /\ instancesMap' = NoMap \/ instancesMap' \subseteq Ids
           /\ server' \in {"off", "binding", "listening", "stopping"}
           /\ life' \in [Ids -> {"none", "starting", "ready", "draining", "stopping"}]
           /\ UNCHANGED <<grpcServerStarted, grpcServerInitPromise>>
<1>1. "null" # r
  BY RevokerAssumption
<1>2. instancesMap \ {r} = NoMap \/ instancesMap \ {r} \subseteq Ids
  BY <1>1 DEF TypeOK, NoMap
<1>3. CASE instancesMap = {r}
  BY <1>3 DEF TypeOK, CleanupGrpc
<1>4. CASE instancesMap # {r}
  BY <1>2, <1>4 DEF TypeOK, CleanupGrpc
<1> QED
  BY <1>3, <1>4

\* Destroying managers keeps the types if what else changes does.
LEMMA DestroyedTypes ==
    ASSUME TypeOK, NEW rs, rs \subseteq Ids, DestroyManagers(rs),
           instancesMap' = NoMap \/ instancesMap' \subseteq Ids,
           grpcServerStarted' \in BOOLEAN,
           grpcServerInitPromise' \in {"null", "pending", "resolved"},
           server' \in {"off", "binding", "listening", "stopping"},
           life' \in [Ids -> {"none", "starting", "ready", "draining", "stopping"}],
           faults' \in 0..MaxFaults, UNCHANGED <<target, owed, cleared, creations>>
    PROVE  TypeOK'
<1>1. /\ manager' \in [Ids -> {"none", "live", "shutting"}]
      /\ content' \in [Ids -> SUBSET Tokens]
      /\ mutex' \in [Ids -> Seq(Tasks)]
      /\ step' \in [Rotators -> {"idle", "waiting", "writing", "renamed"}]
      /\ UNCHANGED <<blobCurrent, blobPrevious, log, of, copy>>
      /\ orphans' \subseteq Ids
      /\ call' \in [Calls -> {"idle", "waiting", "late", "ok", "timeout"}]
  BY DestroyTypes
<1>2. {content, blobPrevious, log, owed}' \subseteq [Ids -> SUBSET Tokens]
  BY <1>1 DEF TypeOK
<1>3. mutex' \in [Ids -> Seq({"shutdown"} \cup Calls \cup Rotators)]
  BY <1>1 DEF Tasks
<1>4. /\ blobCurrent' \in [Ids -> {NoBlob} \cup SUBSET Tokens]
      /\ of' \in [Rotators -> Ids] /\ copy' \in [Rotators -> SUBSET Tokens]
      /\ target' \in [Calls -> Ids] /\ cleared' \in [Calls -> SUBSET Tokens]
      /\ creations' \in 0..MaxCreations
  BY <1>1 DEF TypeOK
<1> QED
  BY <1>1, <1>2, <1>3, <1>4 DEF TypeOK

\* What the actions of the server keep of the types.
LEMMA ServerTypes ==
    ASSUME TypeOK, Phases, ServerStep
    PROVE  TypeOK'
<1>1. CASE Bound
  <2>1. instancesMap' = NoMap \/ instancesMap' \subseteq Ids
    BY <1>1 DEF Bound, Phases, Starting
  <2> QED
    BY <1>1, <2>1 DEF Bound, TypeOK, Starting, managers, files, rotations, clients
<1>2. CASE BindFails
  <2>1. Starting \subseteq Ids
    BY DEF Starting
  <2>2. faults' \in 0..MaxFaults
    BY <1>2, RevokerAssumption DEF BindFails, Fault, TypeOK
  <2>3. life' \in [Ids -> {"none", "starting", "ready", "draining", "stopping"}]
    BY <1>2 DEF BindFails, TypeOK
  <2> QED
    BY <1>2, <2>1, <2>2, <2>3, DestroyedTypes DEF BindFails, TypeOK
<1>3. CASE ServerStopped
  <2>1. {r \in Ids : life[r] = "stopping"} \subseteq Ids
    OBVIOUS
  <2>2. life' \in [Ids -> {"none", "starting", "ready", "draining", "stopping"}]
    BY <1>3 DEF ServerStopped, TypeOK
  <2> QED
    BY <1>3, <2>1, <2>2, DestroyedTypes DEF ServerStopped, TypeOK
<1> QED
  BY <1>1, <1>2, <1>3 DEF ServerStep

\* A rotation that leaves its mutex, or that has none.
LEMMA RotateReleaseTypes ==
    ASSUME TypeOK, NEW j \in Rotators, RotateRelease(j)
    PROVE  mutex' \in [Ids -> Seq(Tasks)]
<1>1. of[j] \in Ids
  BY DEF TypeOK
<1>2. CASE Holds(of[j], j)
  BY <1>1, <1>2, ReleaseTypes DEF RotateRelease, Holds
<1>3. CASE ~Holds(of[j], j)
  BY <1>3 DEF RotateRelease, TypeOK, Tasks
<1> QED
  BY <1>2, <1>3

\* What a rotation keeps of the types.
LEMMA RotationTypes ==
    ASSUME TypeOK, NEW j \in Rotators, RotateStep(j)
    PROVE  TypeOK'
<1>1. of[j] \in Ids
  BY DEF TypeOK
<1>2. CASE RotateSave(j)
  <2>1. copy' \in [Rotators -> SUBSET Tokens]
    BY <1>1, <1>2 DEF RotateSave, TypeOK
  <2>2. step' \in [Rotators -> {"idle", "waiting", "writing", "renamed"}]
    BY <1>2 DEF RotateSave, Advance, TypeOK
  <2> QED
    BY <1>2, <2>1, <2>2 DEF RotateSave, TypeOK, globals, managers, files, clients
<1>3. CASE RotateRename(j)
  <2>1. blobCurrent' \in [Ids -> {NoBlob} \cup SUBSET Tokens]
    BY <1>1, <1>3 DEF RotateRename, TypeOK
  <2>2. step' \in [Rotators -> {"idle", "waiting", "writing", "renamed"}]
    BY <1>3 DEF RotateRename, Advance, TypeOK
  <2> QED
    BY <1>3, <2>1, <2>2 DEF RotateRename, TypeOK, globals, managers, clients
<1>4. CASE RotateEnd(j)
  <2>1. mutex' \in [Ids -> Seq(Tasks)]
    BY <1>4, RotateReleaseTypes DEF RotateEnd
  <2>2. step' \in [Rotators -> {"idle", "waiting", "writing", "renamed"}]
    BY <1>4 DEF RotateEnd, Advance, TypeOK
  <2>3. copy' \in [Rotators -> SUBSET Tokens] /\ log' \in [Ids -> SUBSET Tokens]
    BY <1>1, <1>4 DEF RotateEnd, TypeOK
  <2>4. /\ blobPrevious' \in [Ids -> SUBSET Tokens]
        /\ blobCurrent' \in [Ids -> {NoBlob} \cup SUBSET Tokens]
    <3>1. CASE blobCurrent[of[j]] # NoBlob
      BY <1>1, <1>4, <3>1 DEF RotateEnd, TypeOK
    <3>2. CASE blobCurrent[of[j]] = NoBlob
      BY <1>4, <3>2 DEF RotateEnd, TypeOK
    <3> QED
      BY <3>1, <3>2
  <2>5. owed' \in [Ids -> SUBSET Tokens]
    <3>1. content[of[j]] \subseteq Tokens
      BY <1>1 DEF TypeOK
    <3> QED
      BY <1>1, <1>4, <3>1 DEF RotateEnd, TypeOK
  <2> QED
    BY <1>4, <2>1, <2>2, <2>3, <2>4, <2>5 DEF RotateEnd, TypeOK, Tasks, globals
<1>5. CASE RotateFails(j)
  <2>1. mutex' \in [Ids -> Seq(Tasks)]
    BY <1>5, RotateReleaseTypes DEF RotateFails
  <2>2. step' \in [Rotators -> {"idle", "waiting", "writing", "renamed"}]
    BY <1>5 DEF RotateFails, Advance, TypeOK
  <2>3. copy' \in [Rotators -> SUBSET Tokens]
    BY <1>5 DEF RotateFails, TypeOK
  <2>4. faults' \in 0..MaxFaults
    BY <1>5, RevokerAssumption DEF RotateFails, Fault, TypeOK
  <2> QED
    BY <1>5, <2>1, <2>2, <2>3, <2>4 DEF RotateFails, TypeOK, Tasks, globals, files, clients
<1> QED
  BY <1>2, <1>3, <1>4, <1>5 DEF RotateStep

\* Files hold tokens.
LEMMA FilesTyped ==
    ASSUME TypeOK, NEW r \in Ids
    PROVE  Files(r) \subseteq Tokens
BY DEF TypeOK, Files

\* What the actions of the managers keep of the types.
LEMMA ManagerTypes ==
    ASSUME TypeOK, ManagerStep
    PROVE  TypeOK'
<1>1. ASSUME NEW j \in Rotators, RotateStep(j) PROVE TypeOK'
  BY <1>1, RotationTypes
<1>2. ASSUME NEW r \in Ids, ShutdownDone(r) PROVE TypeOK'
  <2>1. DestroyManagers({r}) /\ {r} \subseteq Ids
    BY <1>2 DEF ShutdownDone
  <2>2. CASE life[r] = "draining"
    BY <1>2, <2>1, <2>2, DestroyedTypes, CleanupTypes DEF ShutdownDone, TypeOK
  <2>3. CASE life[r] # "draining"
    BY <1>2, <2>1, <2>3, DestroyedTypes DEF ShutdownDone, TypeOK, globals
  <2> QED
    BY <2>2, <2>3
<1>3. ASSUME NEW c \in Calls, ResetRun(c) PROVE TypeOK'
  <2>1. target[c] \in Ids
    BY DEF TypeOK
  <2>2. mutex' \in [Ids -> Seq(Tasks)]
    BY <1>3, <2>1, ReleaseTypes DEF ResetRun, Holds
  <2>3. content' \in [Ids -> SUBSET Tokens]
    BY <1>3, <2>1, FilesTyped DEF ResetRun, TypeOK
  <2>4. call' \in [Calls -> {"idle", "waiting", "late", "ok", "timeout"}]
    BY <1>3 DEF ResetRun, TypeOK
  <2> QED
    BY <1>3, <2>2, <2>3, <2>4 DEF ResetRun, TypeOK, Tasks, globals, files, rotations
<1> QED
  BY <1>1, <1>2, <1>3 DEF ManagerStep

\* What the time limit of a reset keeps of the types.
LEMMA TimerTypes ==
    ASSUME TypeOK, TimerStep
    PROVE  TypeOK'
<1> SUFFICES ASSUME NEW c \in Calls, NEW reply \in {"timeout", "ok"}, Answer(c, reply)
             PROVE  TypeOK'
  BY DEF TimerStep, ResetTimeout, ResetLate
<1>1. call' \in [Calls -> {"idle", "waiting", "late", "ok", "timeout"}]
  BY DEF Answer, TypeOK
<1> QED
  BY <1>1 DEF Answer, TypeOK, globals, managers, files, rotations

\* What requests, callers and the end of the process keep of the types.
LEMMA UserTypes ==
    ASSUME TypeOK, NEW r \in Ids,
           \/ CreateRegistered(r) \/ CreateRejected(r) \/ CreateAwaiting(r)
           \/ Shutdown(r) \/ Destroy(r)
           \/ \E j \in Rotators : RotateBegin(j, r)
           \/ \E t \in Tokens : Add(r, t)
           \/ \E c \in Calls : ResetAndRestore(c, r) \/ ResetAndClearData(c, r)
    PROVE  TypeOK'
<1>1. ASSUME Creation(r) PROVE creations' \in 0..MaxCreations
  BY <1>1, RevokerAssumption DEF Creation, TypeOK
<1>2. ASSUME NewManager(r)
      PROVE  manager' \in [Ids -> {"none", "live", "shutting"}] /\ content' \in [Ids -> SUBSET Tokens]
  BY <1>2, FilesTyped DEF NewManager, TypeOK
<1>3. CASE CreateRegistered(r)
  BY <1>1, <1>2, <1>3 DEF CreateRegistered, Creation, NewManager, TypeOK, files, rotations, clients
<1>4. CASE CreateRejected(r)
  BY <1>1, <1>4 DEF CreateRejected, Creation, TypeOK, globals, managers, files, rotations, clients
<1>5. CASE CreateAwaiting(r)
  <2>1. /\ instancesMap' = NoMap \/ instancesMap' \subseteq Ids
        /\ server' \in {"off", "binding", "listening", "stopping"}
        /\ grpcServerInitPromise' \in {"null", "pending", "resolved"}
    BY <1>5 DEF CreateAwaiting, TypeOK
  <2> QED
    BY <1>1, <1>2, <1>5, <2>1
       DEF CreateAwaiting, Creation, NewManager, TypeOK, files, rotations, clients
<1>6. CASE Shutdown(r)
  <2>1. mutex' \in [Ids -> Seq(Tasks)]
    BY <1>6, EnqueueTypes DEF Shutdown, Tasks
  <2>2. /\ life' \in [Ids -> {"none", "starting", "ready", "draining", "stopping"}]
        /\ manager' \in [Ids -> {"none", "live", "shutting"}]
    BY <1>6 DEF Shutdown, TypeOK
  <2> QED
    BY <1>6, <2>1, <2>2 DEF Shutdown, TypeOK, Tasks, globals, files, rotations, clients
<1>7. CASE Destroy(r)
  <2>1. CASE life'[r] = "none"
    <3>1. DestroyManagers({r}) /\ {r} \subseteq Ids /\ CleanupGrpc(r)
      BY <1>7, <2>1 DEF Destroy
    <3> QED
      BY <1>7, <3>1, DestroyedTypes, CleanupTypes DEF Destroy, TypeOK
  <2>2. CASE life'[r] # "none"
    BY <1>7, <2>2, CleanupTypes DEF Destroy, TypeOK, managers, files, rotations
  <2> QED
    BY <2>1, <2>2
<1>8. ASSUME NEW j \in Rotators, RotateBegin(j, r) PROVE TypeOK'
  <2>1. mutex' \in [Ids -> Seq(Tasks)]
    BY <1>8, EnqueueTypes DEF RotateBegin, Tasks
  <2>2. step' \in [Rotators -> {"idle", "waiting", "writing", "renamed"}]
    BY <1>8 DEF RotateBegin, Advance, TypeOK
  <2>3. of' \in [Rotators -> Ids]
    BY <1>8 DEF RotateBegin, TypeOK
  <2> QED
    BY <1>8, <2>1, <2>2, <2>3 DEF RotateBegin, TypeOK, Tasks, globals, files, clients
<1>9. ASSUME NEW t \in Tokens, Add(r, t) PROVE TypeOK'
  <2>1. content' \in [Ids -> SUBSET Tokens] /\ log' \in [Ids -> SUBSET Tokens]
    BY <1>9 DEF Add, TypeOK
  <2>2. owed' \in [Ids -> SUBSET Tokens] /\ cleared' \in [Calls -> SUBSET Tokens]
    BY <1>9 DEF Add, TypeOK
  <2>3. copy' \in [Rotators -> SUBSET Tokens]
    <3>1. \A j \in Rotators : copy[j] \subseteq Tokens
      BY DEF TypeOK
    <3>2. CASE copy' = copy
      BY <3>2 DEF TypeOK
    <3>3. CASE copy' = [j \in Rotators |->
            IF step[j] = "writing" /\ of[j] = r /\ Holds(r, j) THEN copy[j] \cup {t} ELSE copy[j]]
      <4>1. \A j \in Rotators : copy'[j] \in SUBSET Tokens
        BY <3>1, <3>3
      <4> QED
        BY <3>3, <4>1
    <3> QED
      BY <1>9, <3>2, <3>3 DEF Add
  <2> QED
    BY <1>9, <2>1, <2>2, <2>3 DEF Add, TypeOK, globals
<1>10. ASSUME NEW c \in Calls, Reset(c, r)
       PROVE  /\ mutex' \in [Ids -> Seq(Tasks)]
              /\ call' \in [Calls -> {"idle", "waiting", "late", "ok", "timeout"}]
              /\ target' \in [Calls -> Ids]
  <2>1. mutex' \in [Ids -> Seq(Tasks)]
    BY <1>10, EnqueueTypes DEF Reset, Tasks
  <2> QED
    BY <1>10, <2>1 DEF Reset, TypeOK
<1>11. ASSUME NEW c \in Calls, ResetAndRestore(c, r) PROVE TypeOK'
  BY <1>10, <1>11 DEF ResetAndRestore, TypeOK, Tasks, globals, files, rotations
<1>12. ASSUME NEW c \in Calls, ResetAndClearData(c, r) PROVE TypeOK'
  <2>1. /\ blobCurrent' \in [Ids -> {NoBlob} \cup SUBSET Tokens]
        /\ {blobPrevious', log', owed'} \subseteq [Ids -> SUBSET Tokens]
    BY <1>12 DEF ResetAndClearData, TypeOK
  <2>2. cleared' \in [Calls -> SUBSET Tokens]
    BY <1>12 DEF ResetAndClearData, TypeOK
  <2> QED
    BY <1>10, <1>12, <2>1, <2>2 DEF ResetAndClearData, TypeOK, Tasks, globals, rotations
<1> QED
  BY <1>3, <1>4, <1>5, <1>6, <1>7, <1>8, <1>9, <1>11, <1>12

\* A step keeps the types, given the phases: only a map that is there is added to.
LEMMA TypeStep == IInv /\ [Next]_vars => TypeOK'
<1> SUFFICES ASSUME IInv, [Next]_vars PROVE TypeOK'
  OBVIOUS
<1>1. TypeOK /\ Phases
  BY DEF IInv
<1>2. CASE Next
  BY <1>1, <1>2, ServerTypes, ManagerTypes, TimerTypes, UserTypes DEF Next, UserStep
<1>3. CASE UNCHANGED vars
  BY <1>1, <1>3 DEF vars, globals, managers, files, rotations, clients, TypeOK
<1> QED
  BY <1>2, <1>3

-----------------------------------------------------------------------------
(* The phases of the server.                                               *)

\* The last revoker stops the server, and another only leaves the map.
LEMMA CleanupPhases ==
    ASSUME TypeOK, Phases, NEW r \in Ids, r \in InUse, CleanupGrpc(r)
    PROVE  Phases'
<1>1. server = "listening" /\ grpcServerStarted /\ grpcServerInitPromise = "resolved"
      /\ instancesMap = InUse /\ \A q \in Ids : life[q] \in {"none", "ready", "draining"}
  BY DEF Phases, InUse
<1>2. CASE instancesMap = {r}
  <2>1. \A q \in Ids : q # r => life[q] = "none"
    BY <1>1, <1>2 DEF InUse
  <2>2. \A q \in Ids : life'[q] \in {"none", "stopping"}
    <3>1. life' = [life EXCEPT ![r] = "stopping"] /\ DOMAIN life = Ids
      BY <1>2 DEF CleanupGrpc, TypeOK
    <3> QED
      BY <2>1, <3>1
  <2>3. life'[r] = "stopping"
    BY <1>2 DEF CleanupGrpc, TypeOK
  <2> QED
    BY <1>1, <1>2, <2>2, <2>3 DEF CleanupGrpc, Phases
<1>3. CASE instancesMap # {r}
  <2>1. PICK q \in InUse : q # r
    BY <1>1, <1>3
  <2>2. life' = [life EXCEPT ![r] = "none"] /\ instancesMap' = instancesMap \ {r}
    BY <1>3 DEF CleanupGrpc
  <2>3. InUse' = InUse \ {r}
    BY <2>2 DEF InUse, TypeOK
  <2>4. life'[q] \in {"ready", "draining"}
    BY <2>1, <2>2 DEF InUse, TypeOK
  <2>5. \A p \in Ids : life'[p] \in {"none", "ready", "draining"}
    BY <1>1, <2>2 DEF TypeOK
  <2>6. q \in Ids
    BY <2>1 DEF InUse
  <2> QED
    BY <1>1, <1>3, <2>2, <2>3, <2>4, <2>5, <2>6 DEF CleanupGrpc, Phases
<1> QED
  BY <1>2, <1>3

\* A step goes from a phase to the next, or stays in it.
LEMMA PhasesStep == IInv /\ [Next]_vars => Phases'
<1> SUFFICES ASSUME IInv, [Next]_vars PROVE Phases'
  OBVIOUS
<1>1. TypeOK /\ Phases /\ Members
  BY DEF IInv
<1>2. ASSUME UNCHANGED <<globals, life>> PROVE Phases'
  BY <1>1, <1>2 DEF Phases, InUse, globals
<1>3. CASE Bound
  <2>1. instancesMap = {} /\ \A r \in Ids : life[r] \in {"none", "starting"}
    BY <1>1, <1>3 DEF Bound, Phases
  <2>2. PICK q \in Ids : life[q] = "starting"
    BY <1>1, <1>3 DEF Bound, Phases
  <2>3. \A r \in Ids : life'[r] = IF life[r] = "starting" THEN "ready" ELSE "none"
    BY <1>3, <2>1 DEF Bound, Starting
  <2>4. instancesMap' = InUse'
    BY <1>3, <2>1, <2>3 DEF Bound, Starting, InUse
  <2> QED
    BY <1>3, <2>2, <2>3, <2>4 DEF Bound, Phases
<1>4. CASE BindFails
  <2>1. ~grpcServerStarted /\ \A r \in Ids : life[r] \in {"none", "starting"}
    BY <1>1, <1>4 DEF BindFails, Phases
  <2>2. \A r \in Ids : life'[r] = "none"
    BY <1>4, <2>1 DEF BindFails, Starting
  <2> QED
    BY <1>4, <2>1, <2>2 DEF BindFails, Phases
<1>5. CASE ServerStopped
  <2>1. \A r \in Ids : life[r] \in {"none", "stopping"}
    BY <1>1, <1>5 DEF ServerStopped, Phases
  <2>2. instancesMap = NoMap
    BY <1>1, <1>5 DEF ServerStopped, Phases
  <2> QED
    BY <1>5, <2>1, <2>2 DEF ServerStopped, Phases
<1>6. ASSUME NEW j \in Rotators, RotateStep(j) PROVE Phases'
  BY <1>2, <1>6 DEF RotateStep, RotateSave, RotateRename, RotateEnd, RotateFails
<1>7. ASSUME NEW r \in Ids, ShutdownDone(r) PROVE Phases'
  <2>1. CASE life[r] = "draining"
    BY <1>1, <1>7, <2>1, CleanupPhases DEF ShutdownDone, InUse
  <2>2. CASE life[r] # "draining"
    BY <1>2, <1>7, <2>2 DEF ShutdownDone
  <2> QED
    BY <2>1, <2>2
<1>8. ASSUME NEW c \in Calls, ResetRun(c) PROVE Phases'
  BY <1>2, <1>8 DEF ResetRun
<1>9. CASE TimerStep
  BY <1>2, <1>9 DEF TimerStep, ResetTimeout, ResetLate, Answer
<1>10. ASSUME NEW r \in Ids, CreateRegistered(r) PROVE Phases'
  <2>1. server = "listening" /\ instancesMap = InUse /\ grpcServerInitPromise = "resolved"
        /\ \A q \in Ids : life[q] \in {"none", "ready", "draining"}
    BY <1>1, <1>10 DEF CreateRegistered, Phases
  <2>2. life' = [life EXCEPT ![r] = "ready"] /\ instancesMap' = instancesMap \cup {r}
    BY <1>10 DEF CreateRegistered
  <2>3. InUse' = InUse \cup {r}
    BY <2>2 DEF InUse, TypeOK, IInv
  <2>4. life'[r] = "ready" /\ \A q \in Ids : life'[q] \in {"none", "ready", "draining"}
    BY <1>1, <2>1, <2>2 DEF TypeOK
  <2> QED
    BY <1>10, <2>1, <2>2, <2>3, <2>4 DEF CreateRegistered, Phases
<1>11. ASSUME NEW r \in Ids, CreateRejected(r) PROVE Phases'
  BY <1>2, <1>11 DEF CreateRejected
<1>12. ASSUME NEW r \in Ids, CreateAwaiting(r) PROVE Phases'
  <2>1. \A q \in Ids : life[q] \in {"none", "starting"}
    BY <1>1, <1>12 DEF CreateAwaiting, Phases
  <2>2. life'[r] = "starting" /\ \A q \in Ids : life'[q] \in {"none", "starting"}
    BY <1>1, <1>12, <2>1 DEF CreateAwaiting, TypeOK
  <2>3. server' = "binding" /\ grpcServerInitPromise' = "pending" /\ instancesMap' = {}
    BY <1>1, <1>12 DEF CreateAwaiting, Phases
  <2> QED
    BY <1>12, <2>2, <2>3 DEF CreateAwaiting, Phases
<1>13. ASSUME NEW r \in Ids, Shutdown(r) PROVE Phases'
  <2>1. server = "listening" /\ grpcServerStarted /\ grpcServerInitPromise = "resolved"
        /\ instancesMap = InUse /\ \A q \in Ids : life[q] \in {"none", "ready", "draining"}
    BY <1>1, <1>13 DEF Shutdown, Phases
  <2>2. life'[r] = "draining" /\ \A q \in Ids : q # r => life'[q] = life[q]
    BY <1>1, <1>13 DEF Shutdown, TypeOK
  <2>3. InUse' = InUse
    BY <1>13, <2>2 DEF InUse, Shutdown
  <2> QED
    BY <1>13, <2>1, <2>2, <2>3 DEF Shutdown, Phases, globals
<1>14. ASSUME NEW r \in Ids, Destroy(r) PROVE Phases'
  BY <1>1, <1>14, CleanupPhases DEF Destroy, InUse
<1>15. ASSUME NEW r \in Ids, NEW j \in Rotators, RotateBegin(j, r) PROVE Phases'
  BY <1>2, <1>15 DEF RotateBegin
<1>16. ASSUME NEW r \in Ids, NEW t \in Tokens, Add(r, t) PROVE Phases'
  BY <1>2, <1>16 DEF Add
<1>17. ASSUME NEW r \in Ids, NEW c \in Calls, ResetAndRestore(c, r) \/ ResetAndClearData(c, r)
       PROVE  Phases'
  BY <1>2, <1>17 DEF ResetAndRestore, ResetAndClearData
<1>18. CASE UNCHANGED vars
  BY <1>2, <1>18 DEF vars
<1> QED
  BY <1>3, <1>4, <1>5, <1>6, <1>7, <1>8, <1>9, <1>10, <1>11, <1>12, <1>13, <1>14, <1>15, <1>16,
     <1>17, <1>18 DEF Next, ServerStep, ManagerStep, UserStep

-----------------------------------------------------------------------------
(* The managers.                                                           *)

\* After some managers are destroyed the others are as before.
LEMMA DestroyEffect ==
    ASSUME TypeOK, NEW rs, DestroyManagers(rs), NEW r \in Ids
    PROVE  /\ r \in rs => manager'[r] = "none" /\ mutex'[r] = <<>> /\ content'[r] = {}
           /\ r \notin rs => /\ manager'[r] = manager[r] /\ mutex'[r] = mutex[r]
                             /\ content'[r] = content[r]
           /\ Files(r)' = Files(r)
BY DEF DestroyManagers, TypeOK, Files, files

\* A revoker that a step does not touch stays as it is.
LEMMA MemberKept ==
    ASSUME NEW r \in Ids, Member(r),
           life'[r] = life[r], manager'[r] = manager[r],
           mutex'[r] = <<>> \/ mutex'[r] = mutex[r]
    PROVE  Member(r)'
BY ToSetEmpty DEF Member, Alive

\* A task other than a shutdown joins, or one leaves, a live manager's queue.
LEMMA MemberQueue ==
    ASSUME TypeOK, Members, NEW r \in Ids, UNCHANGED <<life, manager>>, Alive(r),
           \/ \E t \in Tasks \ {"shutdown"} : Enqueue(r, t)
           \/ mutex[r] # <<>> /\ Release(r)
    PROVE  Members'
<1>1. \A q \in Ids : Member(q) /\ mutex[q] \in Seq(Tasks)
  BY DEF Members, Member, TypeOK, Tasks
<1>2. life[r] # "none"
  BY <1>1 DEF Member
<1>3. "shutdown" \in ToSet(mutex'[r]) => "shutdown" \in ToSet(mutex[r])
  <2>1. ASSUME NEW t \in Tasks \ {"shutdown"}, Enqueue(r, t)
        PROVE  "shutdown" \in ToSet(mutex'[r]) => "shutdown" \in ToSet(mutex[r])
    <3>1. mutex'[r] = Append(mutex[r], t)
      BY <2>1 DEF Enqueue, TypeOK
    <3>2. ToSet(mutex'[r]) = ToSet(mutex[r]) \cup {t}
      BY <1>1, <3>1, ToSetAppend
    <3> QED
      BY <3>2
  <2>2. ASSUME mutex[r] # <<>>, Release(r)
        PROVE  "shutdown" \in ToSet(mutex'[r]) => "shutdown" \in ToSet(mutex[r])
    <3>1. mutex'[r] = Tail(mutex[r])
      BY <2>2 DEF Release, TypeOK
    <3>2. ToSet(mutex'[r]) \subseteq ToSet(mutex[r])
      BY <1>1, <2>2, <3>1, ToSetTail
    <3> QED
      BY <3>2
  <2> QED
    BY <2>1, <2>2
<1>4. \A q \in Ids : q # r => mutex'[q] = mutex[q]
  BY DEF Enqueue, Release, TypeOK
<1>5. Member(r)'
  BY <1>1, <1>2, <1>3 DEF Member, Alive
<1>6. \A q \in Ids : q # r => Member(q)'
  BY <1>1, <1>4, MemberKept
<1> QED
  BY <1>5, <1>6 DEF Members, Member

\* The mutexes and the managers go with the life of their revokers.
LEMMA MembersStep == IInv /\ [Next]_vars => Members'
<1> SUFFICES ASSUME IInv, [Next]_vars PROVE Members'
  OBVIOUS
<1>1. TypeOK /\ Phases /\ Members /\ \A r \in Ids : Member(r)
  BY DEF IInv, Members, Member
<1>2. ASSUME \A r \in Ids : Member(r)' PROVE Members'
  BY <1>2 DEF Members, Member
<1>3. ASSUME UNCHANGED <<life, manager, mutex>> PROVE Members'
  BY <1>1, <1>3 DEF Members, Member, Alive
<1>4. ASSUME NEW rs, DestroyManagers(rs), NEW r \in Ids, r \in rs, life'[r] \in {"none", "stopping"}
      PROVE  Member(r)'
  BY <1>1, <1>4, DestroyEffect, ToSetEmpty DEF Member, Alive
<1>5. ASSUME NEW rs, DestroyManagers(rs), NEW r \in Ids, r \notin rs, life'[r] = life[r]
      PROVE  Member(r)'
  BY <1>1, <1>5, DestroyEffect, MemberKept
<1>6. CASE Bound
  <2>1. ASSUME NEW r \in Ids PROVE Member(r)'
    BY <1>1, <1>6 DEF Bound, Starting, Member, Alive, managers
  <2> QED
    BY <1>2, <2>1
<1>7. CASE BindFails
  <2>1. ASSUME NEW r \in Ids PROVE Member(r)'
    BY <1>4, <1>5, <1>7 DEF BindFails, Starting
  <2> QED
    BY <1>2, <2>1
<1>8. CASE ServerStopped
  <2>1. ASSUME NEW r \in Ids PROVE Member(r)'
    BY <1>4, <1>5, <1>8 DEF ServerStopped
  <2> QED
    BY <1>2, <2>1
<1>9. ASSUME NEW j \in Rotators, RotateStep(j) PROVE Members'
  <2>1. CASE UNCHANGED mutex
    BY <1>3, <1>9, <2>1
       DEF RotateStep, RotateSave, RotateRename, RotateEnd, RotateFails, managers
  <2>2. CASE ~UNCHANGED mutex
    <3>1. RotateRelease(j) /\ UNCHANGED <<life, manager>>
      BY <1>9, <2>2 DEF RotateStep, RotateSave, RotateRename, RotateEnd, RotateFails, managers
    <3>2. of[j] \in Ids /\ mutex[of[j]] # <<>> /\ Release(of[j])
      BY <1>1, <2>2, <3>1 DEF RotateRelease, Holds, TypeOK
    <3>3. Alive(of[j])
      BY <1>1, <3>2 DEF Member
    <3> QED
      BY <1>1, <3>1, <3>2, <3>3, MemberQueue
  <2> QED
    BY <2>1, <2>2
<1>10. ASSUME NEW r \in Ids, NEW d, d = {r}, CleanupGrpc(r),
              DestroyManagers(d) \/ (life'[r] # "none" /\ UNCHANGED <<manager, mutex>>)
       PROVE  Members'
  <2>1. life'[r] \in {"none", "stopping"} /\ \A q \in Ids : q # r => life'[q] = life[q]
    BY <1>1, <1>10 DEF CleanupGrpc, TypeOK
  <2>2. CASE DestroyManagers(d)
    <3>1. ASSUME NEW q \in Ids PROVE Member(q)'
      BY <1>4, <1>5, <1>10, <2>1, <2>2
    <3> QED
      BY <1>2, <3>1
  <2>3. CASE life'[r] # "none" /\ UNCHANGED <<manager, mutex>>
    <3>1. ASSUME NEW q \in Ids PROVE Member(q)'
      BY <1>1, <1>10, <2>1, <2>3 DEF Member, Alive
    <3> QED
      BY <1>2, <3>1
  <2> QED
    BY <1>10, <2>2, <2>3
<1>11. ASSUME NEW r \in Ids, ShutdownDone(r) PROVE Members'
  <2>1. CASE life[r] = "draining"
    BY <1>10, <1>11, <2>1 DEF ShutdownDone
  <2>2. CASE life[r] # "draining"
    <3>1. "shutdown" \in ToSet(mutex[r])
      BY <1>1, <1>11 DEF ShutdownDone, Holds, TypeOK, ToSet
    <3>2. life[r] = "stopping" /\ life' = life
      BY <1>1, <1>11, <2>2, <3>1 DEF ShutdownDone, Member
    <3>3. ASSUME NEW q \in Ids PROVE Member(q)'
      BY <1>4, <1>5, <1>11, <3>2 DEF ShutdownDone
    <3> QED
      BY <1>2, <3>3
  <2> QED
    BY <2>1, <2>2
<1>12. ASSUME NEW c \in Calls, ResetRun(c) PROVE Members'
  <2>1. target[c] \in Ids /\ mutex[target[c]] # <<>> /\ Alive(target[c])
    BY <1>1, <1>12 DEF ResetRun, Holds, Member, TypeOK
  <2> QED
    BY <1>1, <1>12, <2>1, MemberQueue DEF ResetRun
<1>13. CASE TimerStep
  BY <1>3, <1>13 DEF TimerStep, ResetTimeout, ResetLate, Answer, managers
<1>14. ASSUME NEW r \in Ids, NewManager(r), life[r] = "none", NEW l \in {"starting", "ready"},
              life' = [life EXCEPT ![r] = l]
       PROVE  Members'
  <2>1. Member(r)'
    BY <1>1, <1>14, ToSetEmpty DEF NewManager, Member, Alive, TypeOK
  <2>2. \A q \in Ids : q # r => Member(q)'
    BY <1>1, <1>14, MemberKept DEF NewManager, TypeOK
  <2> QED
    BY <1>2, <2>1, <2>2
<1>15. ASSUME NEW r \in Ids, CreateRegistered(r) \/ CreateAwaiting(r) PROVE Members'
  BY <1>14, <1>15 DEF CreateRegistered, CreateAwaiting, Creation
<1>16. ASSUME NEW r \in Ids, CreateRejected(r) PROVE Members'
  BY <1>3, <1>16 DEF CreateRejected, managers
<1>17. ASSUME NEW r \in Ids, Shutdown(r) PROVE Members'
  <2>1. Member(r)'
    BY <1>1, <1>17 DEF Shutdown, Member, Alive, TypeOK
  <2>2. \A q \in Ids : q # r => Member(q)'
    BY <1>1, <1>17, MemberKept DEF Shutdown, Enqueue, TypeOK
  <2> QED
    BY <1>2, <2>1, <2>2
<1>18. ASSUME NEW r \in Ids, Destroy(r) PROVE Members'
  BY <1>10, <1>18 DEF Destroy, managers
<1>19. ASSUME NEW r \in Ids, NEW j \in Rotators, RotateBegin(j, r) PROVE Members'
  <2>1. j \in Tasks \ {"shutdown"}
    BY RevokerAssumption DEF Tasks
  <2> QED
    BY <1>1, <1>19, <2>1, MemberQueue DEF RotateBegin
<1>20. ASSUME NEW r \in Ids, NEW t \in Tokens, Add(r, t) PROVE Members'
  BY <1>3, <1>20 DEF Add
<1>21. ASSUME NEW r \in Ids, NEW c \in Calls, ResetAndRestore(c, r) \/ ResetAndClearData(c, r)
       PROVE  Members'
  <2>1. c \in Tasks \ {"shutdown"}
    BY RevokerAssumption DEF Tasks
  <2> QED
    BY <1>1, <1>21, <2>1, MemberQueue DEF ResetAndRestore, ResetAndClearData, Reset, Found
<1>22. CASE UNCHANGED vars
  BY <1>3, <1>22 DEF vars, managers
<1> QED
  BY <1>6, <1>7, <1>8, <1>9, <1>11, <1>12, <1>13, <1>15, <1>16, <1>17, <1>18, <1>19, <1>20,
     <1>21, <1>22 DEF Next, ServerStep, ManagerStep, UserStep

-----------------------------------------------------------------------------
(* The rotations.                                                          *)

\* Who leaves a queue that it was once in is not in it any more.
LEMMA OnceTail ==
    ASSUME NEW q \in Seq(Tasks), q # <<>>, NEW j, Once(j, q)
    PROVE  Once(j, Tail(q)) /\ (Head(q) = j => j \notin ToSet(Tail(q)))
<1>1. \A i \in 1..Len(Tail(q)) : i + 1 \in 1..Len(q) /\ Tail(q)[i] = q[i + 1]
  OBVIOUS
<1>2. Once(j, Tail(q))
  <2> SUFFICES ASSUME NEW i \in 1..Len(Tail(q)), NEW k \in 1..Len(Tail(q)), i < k, Tail(q)[k] = j
               PROVE  Tail(q)[i] # j
    BY DEF Once
  <2>1. i + 1 < k + 1
    OBVIOUS
  <2> QED
    BY <1>1, <2>1 DEF Once
<1>3. ASSUME Head(q) = j, NEW i \in 1..Len(Tail(q)), Tail(q)[i] = j PROVE FALSE
  <2>1. 1 \in 1..Len(q) /\ q[1] = j /\ 1 < i + 1
    BY <1>3
  <2> QED
    BY <1>1, <1>3, <2>1 DEF Once
<1> QED
  BY <1>2, <1>3 DEF ToSet

\* Who joins a queue that it is not in is once in it; who is in it is where it was.
LEMMA OnceAppend ==
    ASSUME NEW q \in Seq(Tasks), NEW t \in Tasks, NEW j, Once(j, q), t # j \/ j \notin ToSet(q)
    PROVE  Once(j, Append(q, t)) /\ (q # <<>> => Head(Append(q, t)) = Head(q))
<1>1. \A i \in 1..Len(q) : Append(q, t)[i] = q[i] /\ q[i] \in ToSet(q)
  BY DEF ToSet
<1>2. Len(Append(q, t)) = Len(q) + 1 /\ Append(q, t)[Len(q) + 1] = t
  OBVIOUS
<1>3. Once(j, Append(q, t))
  <2> SUFFICES ASSUME NEW i \in 1..Len(Append(q, t)), NEW k \in 1..Len(Append(q, t)), i < k,
                      Append(q, t)[k] = j
               PROVE  Append(q, t)[i] # j
    BY DEF Once
  <2>1. i \in 1..Len(q)
    BY <1>2
  <2>2. CASE k \in 1..Len(q)
    BY <1>1, <2>1, <2>2 DEF Once
  <2>3. CASE k = Len(q) + 1
    BY <1>1, <1>2, <2>1, <2>3
  <2> QED
    BY <1>2, <2>2, <2>3
<1> QED
  BY <1>3

\* A rotation that is in no queue.
LEMMA RotationAbsent ==
    ASSUME TypeOK', NEW j \in Rotators, \A r \in Ids : j \notin ToSet(mutex'[r])
    PROVE  Rotation(j)'
<1>1. of'[j] \in Ids
  BY DEF TypeOK
<1>2. \A i \in 1..Len(mutex'[of'[j]]) : mutex'[of'[j]][i] # j
  BY <1>1 DEF ToSet
<1> QED
  BY <1>1, <1>2 DEF Rotation, Once

\* Another task joins a queue.
LEMMA RotationEnqueue ==
    ASSUME TypeOK, NEW r \in Ids, NEW t \in Tasks, Enqueue(r, t), NEW j \in Rotators, j # t,
           Rotation(j), of'[j] = of[j], step'[j] = step[j]
    PROVE  Rotation(j)'
<1>1. of[j] \in Ids /\ mutex[r] \in Seq(Tasks)
  BY DEF TypeOK, Tasks
<1>2. mutex'[r] = Append(mutex[r], t) /\ \A q \in Ids : q # r => mutex'[q] = mutex[q]
  BY DEF Enqueue, TypeOK
<1>3. \A q \in Ids : j \in ToSet(mutex'[q]) <=> j \in ToSet(mutex[q])
  <2>1. ToSet(Append(mutex[r], t)) = ToSet(mutex[r]) \cup {t}
    BY <1>1, ToSetAppend
  <2> QED
    BY <1>2, <2>1
<1>4. CASE of[j] = r
  <2>1. Once(j, mutex[r])
    BY <1>4 DEF Rotation
  <2>2. /\ Once(j, Append(mutex[r], t))
        /\ mutex[r] # <<>> => Head(Append(mutex[r], t)) = Head(mutex[r])
    BY <1>1, <2>1, OnceAppend
  <2>3. Append(mutex[r], t) # <<>>
    <3>1. Len(Append(mutex[r], t)) = Len(mutex[r]) + 1 /\ Len(mutex[r]) \in Nat
      BY <1>1
    <3> QED
      BY <3>1
  <2> QED
    BY <1>2, <1>3, <1>4, <2>2, <2>3 DEF Rotation, Holds
<1>5. CASE of[j] # r
  BY <1>1, <1>2, <1>3, <1>5 DEF Rotation, Holds
<1> QED
  BY <1>4, <1>5

\* The first task leaves a queue: another rotation stays as it is.
LEMMA RotationRelease ==
    ASSUME TypeOK, NEW r \in Ids, mutex[r] # <<>>, Release(r), NEW j \in Rotators,
           Head(mutex[r]) # j, Rotation(j), of'[j] = of[j], step'[j] = step[j]
    PROVE  Rotation(j)'
<1>1. of[j] \in Ids /\ mutex[r] \in Seq(Tasks)
  BY DEF TypeOK, Tasks
<1>2. mutex'[r] = Tail(mutex[r]) /\ \A q \in Ids : q # r => mutex'[q] = mutex[q]
  BY DEF Release, TypeOK
<1>3. \A q \in Ids : j \in ToSet(mutex'[q]) => j \in ToSet(mutex[q])
  BY <1>1, <1>2, ToSetTail
<1>4. Once(j, mutex'[of[j]])
  <2>1. CASE of[j] = r
    <3>1. Once(j, mutex[r])
      BY <2>1 DEF Rotation
    <3> QED
      BY <1>1, <1>2, <2>1, <3>1, OnceTail
  <2>2. CASE of[j] # r
    BY <1>1, <1>2, <2>2 DEF Rotation
  <2> QED
    BY <2>1, <2>2
<1>5. ASSUME j \in ToSet(mutex'[of[j]]), step[j] \in {"writing", "renamed"}
      PROVE  Holds(of[j], j)'
  <2>1. Holds(of[j], j)
    BY <1>1, <1>3, <1>5 DEF Rotation
  <2>2. of[j] # r
    BY <2>1 DEF Holds
  <2> QED
    BY <1>1, <1>2, <2>1, <2>2 DEF Holds
<1> QED
  BY <1>1, <1>3, <1>4, <1>5 DEF Rotation

\* A rotation that ends is in no queue, and leaves the others alone.
LEMMA RotationEnds ==
    ASSUME TypeOK, TypeOK', Rotations, NEW j \in Rotators, step[j] \in {"writing", "renamed"},
           Advance(j, "idle"), UNCHANGED of, RotateRelease(j)
    PROVE  Rotations'
<1>1. of[j] \in Ids /\ \A k \in Rotators : Rotation(k)
  BY DEF Rotations, TypeOK
<1>2. \A k \in Rotators : k # j => step'[k] = step[k]
  BY DEF Advance, TypeOK
<1> DEFINE r == of[j]
<1>3. CASE Holds(r, j)
  <2>1. mutex[r] \in Seq(Tasks) /\ mutex[r] # <<>> /\ Head(mutex[r]) = j /\ Release(r)
    BY <1>1, <1>3 DEF RotateRelease, Holds, TypeOK, Tasks
  <2>2. mutex'[r] = Tail(mutex[r]) /\ \A q \in Ids : q # r => mutex'[q] = mutex[q]
    BY <1>1, <2>1 DEF Release, TypeOK
  <2>3. j \notin ToSet(mutex'[r])
    <3>1. Once(j, mutex[r])
      BY <1>1 DEF Rotation
    <3> QED
      BY <2>1, <2>2, <3>1, OnceTail
  <2>4. \A q \in Ids : j \notin ToSet(mutex'[q])
    BY <1>1, <2>2, <2>3 DEF Rotation
  <2>5. Rotation(j)'
    BY <2>4, RotationAbsent
  <2>6. ASSUME NEW k \in Rotators, k # j PROVE Rotation(k)'
    BY <1>1, <1>2, <2>1, <2>6, RotationRelease
  <2> QED
    BY <2>5, <2>6 DEF Rotations
<1>4. CASE ~Holds(r, j)
  <2>1. mutex' = mutex
    BY <1>4 DEF RotateRelease
  <2>2. j \notin ToSet(mutex[r])
    BY <1>1, <1>4 DEF Rotation
  <2>3. \A q \in Ids : j \notin ToSet(mutex'[q])
    BY <1>1, <2>1, <2>2 DEF Rotation
  <2>4. Rotation(j)'
    BY <2>3, RotationAbsent
  <2>5. ASSUME NEW k \in Rotators, k # j PROVE Rotation(k)'
    BY <1>1, <1>2, <2>1, <2>5 DEF Rotation, Holds
  <2> QED
    BY <2>4, <2>5 DEF Rotations
<1> QED
  BY <1>3, <1>4

\* A rotation is in its queue as long as its manager is there, and first when it saves.
LEMMA RotationsStep == IInv /\ [Next]_vars => Rotations'
<1> SUFFICES ASSUME IInv, [Next]_vars PROVE Rotations'
  OBVIOUS
<1>1. TypeOK /\ Members /\ Rotations /\ TypeOK' /\ \A j \in Rotators : Rotation(j)
  BY TypeStep DEF IInv, Rotations
<1>2. ASSUME UNCHANGED <<mutex, step, of>> PROVE Rotations'
  BY <1>1, <1>2 DEF Rotations, Rotation, Holds
<1>3. ASSUME NEW rs, DestroyManagers(rs) PROVE Rotations'
  <2> SUFFICES ASSUME NEW j \in Rotators PROVE Rotation(j)'
    BY DEF Rotations
  <2>1. of' = of /\ of[j] \in Ids /\ \A r \in Ids : mutex'[r] = IF r \in rs THEN <<>> ELSE mutex[r]
    BY <1>1, <1>3 DEF DestroyManagers, TypeOK
  <2>2. step'[j] = IF of[j] \in rs /\ step[j] = "waiting" THEN "idle" ELSE step[j]
    BY <1>3 DEF DestroyManagers
  <2>3. CASE of[j] \in rs
    <3>1. \A r \in Ids : j \notin ToSet(mutex'[r])
      BY <1>1, <2>1, <2>3, ToSetEmpty DEF Rotation
    <3> QED
      BY <1>1, <3>1, RotationAbsent
  <2>4. CASE of[j] \notin rs
    <3>1. mutex'[of[j]] = mutex[of[j]] /\ step'[j] = step[j]
      BY <2>1, <2>2, <2>4
    <3>2. \A r \in Ids : j \in ToSet(mutex'[r]) => j \in ToSet(mutex[r])
      BY <2>1, ToSetEmpty
    <3> QED
      BY <1>1, <2>1, <3>1, <3>2 DEF Rotation, Holds
  <2> QED
    BY <2>3, <2>4
<1>4. CASE ServerStep
  BY <1>2, <1>3, <1>4 DEF ServerStep, Bound, BindFails, ServerStopped, managers, rotations
<1>5. ASSUME NEW j \in Rotators, RotateStep(j) PROVE Rotations'
  <2>1. CASE RotateSave(j)
    <3>1. UNCHANGED <<mutex, of>> /\ Holds(of[j], j) /\ step'[j] = "writing" /\ step[j] = "waiting"
          /\ \A k \in Rotators : k # j => step'[k] = step[k]
      BY <1>1, <2>1 DEF RotateSave, Advance, TypeOK, managers
    <3> QED
      BY <1>1, <3>1 DEF Rotations, Rotation, Holds
  <2>2. CASE RotateRename(j)
    <3>1. UNCHANGED <<mutex, of>> /\ step'[j] = "renamed" /\ step[j] = "writing"
          /\ \A k \in Rotators : k # j => step'[k] = step[k]
      BY <1>1, <2>2 DEF RotateRename, Advance, TypeOK, managers
    <3> QED
      BY <1>1, <3>1 DEF Rotations, Rotation, Holds
  <2>3. CASE RotateEnd(j) \/ RotateFails(j)
    <3>1. step[j] \in {"writing", "renamed"} /\ Advance(j, "idle") /\ UNCHANGED of /\ RotateRelease(j)
      BY <2>3 DEF RotateEnd, RotateFails
    <3> QED
      BY <1>1, <3>1, RotationEnds
  <2> QED
    BY <1>5, <2>1, <2>2, <2>3 DEF RotateStep
<1>6. ASSUME NEW r \in Ids, ShutdownDone(r) PROVE Rotations'
  BY <1>3, <1>6 DEF ShutdownDone
<1>7. ASSUME NEW c \in Calls, ResetRun(c) PROVE Rotations'
  <2>1. target[c] \in Ids /\ mutex[target[c]] # <<>> /\ Head(mutex[target[c]]) = c
        /\ Release(target[c]) /\ UNCHANGED <<step, of>> /\ c \notin Rotators
    BY <1>1, <1>7, RevokerAssumption DEF ResetRun, Holds, TypeOK, rotations
  <2>2. ASSUME NEW j \in Rotators PROVE Rotation(j)'
    BY <1>1, <2>1, RotationRelease
  <2> QED
    BY <2>2 DEF Rotations
<1>8. CASE TimerStep
  BY <1>2, <1>8 DEF TimerStep, ResetTimeout, ResetLate, Answer, managers, rotations
<1>9. ASSUME NEW r \in Ids, CreateRegistered(r) \/ CreateRejected(r) \/ CreateAwaiting(r)
      PROVE  Rotations'
  BY <1>2, <1>9 DEF CreateRegistered, CreateRejected, CreateAwaiting, Creation, NewManager,
     managers, rotations
<1>10. ASSUME NEW r \in Ids, NEW t \in Tasks \ Rotators, Enqueue(r, t), UNCHANGED <<step, of>>
       PROVE  Rotations'
  <2>1. ASSUME NEW j \in Rotators PROVE Rotation(j)'
    BY <1>1, <1>10, RotationEnqueue
  <2> QED
    BY <2>1 DEF Rotations
<1>11. ASSUME NEW r \in Ids, Shutdown(r) PROVE Rotations'
  <2>1. "shutdown" \in Tasks \ Rotators
    BY RevokerAssumption DEF Tasks
  <2> QED
    BY <1>10, <1>11, <2>1 DEF Shutdown, rotations
<1>12. ASSUME NEW r \in Ids, Destroy(r) PROVE Rotations'
  BY <1>2, <1>3, <1>12 DEF Destroy, managers, rotations
<1>13. ASSUME NEW r \in Ids, NEW j \in Rotators, RotateBegin(j, r) PROVE Rotations'
  <2>1. j \in Tasks /\ Enqueue(r, j) /\ mutex[r] \in Seq(Tasks) /\ step[j] = "idle"
    BY <1>1, <1>13 DEF RotateBegin, Tasks, TypeOK
  <2>2. mutex'[r] = Append(mutex[r], j) /\ \A q \in Ids : q # r => mutex'[q] = mutex[q]
    BY <1>1, <2>1 DEF Enqueue, TypeOK
  <2>3. of'[j] = r /\ step'[j] = "waiting"
        /\ \A k \in Rotators : k # j => of'[k] = of[k] /\ step'[k] = step[k]
    BY <1>1, <1>13 DEF RotateBegin, Advance, TypeOK
  <2>4. \A q \in Ids : j \notin ToSet(mutex[q])
    BY <1>1, <2>1 DEF Rotation
  <2>5. Once(j, mutex[r])
    BY <2>4 DEF Once, ToSet
  <2>6. Once(j, mutex'[r])
    BY <2>1, <2>2, <2>4, <2>5, OnceAppend
  <2>7. Rotation(j)'
    BY <2>2, <2>3, <2>4, <2>6 DEF Rotation
  <2>8. ASSUME NEW k \in Rotators, k # j PROVE Rotation(k)'
    BY <1>1, <2>1, <2>3, <2>8, RotationEnqueue
  <2> QED
    BY <2>7, <2>8 DEF Rotations
<1>14. ASSUME NEW r \in Ids, NEW t \in Tokens, Add(r, t) PROVE Rotations'
  BY <1>2, <1>14 DEF Add
<1>15. ASSUME NEW r \in Ids, NEW c \in Calls, ResetAndRestore(c, r) \/ ResetAndClearData(c, r)
       PROVE  Rotations'
  <2>1. c \in Tasks \ Rotators
    BY RevokerAssumption DEF Tasks
  <2> QED
    BY <1>10, <1>15, <2>1 DEF ResetAndRestore, ResetAndClearData, Reset, rotations
<1>16. CASE UNCHANGED vars
  BY <1>2, <1>16 DEF vars, managers, rotations
<1> QED
  BY <1>4, <1>5, <1>6, <1>7, <1>8, <1>9, <1>11, <1>12, <1>13, <1>14, <1>15, <1>16
     DEF Next, ManagerStep, UserStep

-----------------------------------------------------------------------------
(* What is owed.                                                           *)

\* A step that takes nothing from the files, the filters and the copies.
LEMMA KeptSame ==
    ASSUME Kept, UNCHANGED <<manager, content, files, owed, step, of, copy>>
    PROVE  Kept'
BY DEF Kept, KeptBy, Files, Blob, Alive, files

\* Destroying managers takes nothing from the files, nor from a rotation that saves.
LEMMA KeptDestroy ==
    ASSUME TypeOK, Kept, NEW rs, DestroyManagers(rs), UNCHANGED owed
    PROVE  Kept'
<1> SUFFICES ASSUME NEW r \in Ids PROVE KeptBy(r)'
  BY DEF Kept
<1>1. KeptBy(r) /\ Files(r)' = Files(r) /\ Blob(r)' = Blob(r) /\ UNCHANGED <<owed, of, copy>>
  BY DestroyEffect DEF Kept, Blob, DestroyManagers, files
<1>2. \A j \in Rotators : step'[j] \in {"writing", "renamed"} => step[j] = step'[j]
  BY DEF DestroyManagers
<1>3. Alive(r)' => Alive(r) /\ content'[r] = content[r]
  BY DestroyEffect DEF Alive
<1> QED
  BY <1>1, <1>2, <1>3 DEF KeptBy

\* A rotation saves what is owed before it truncates the log.
LEMMA KeptRotation ==
    ASSUME TypeOK, Members, Kept, NEW j \in Rotators, RotateStep(j)
    PROVE  Kept'
<1> DEFINE r == of[j]
<1>1. r \in Ids /\ KeptBy(r) /\ \A q \in Ids : KeptBy(q)
  BY DEF Kept, TypeOK
<1>2. UNCHANGED <<manager, content, of>> /\ \A k \in Rotators : k # j => step'[k] = step[k]
  BY DEF RotateStep, RotateSave, RotateRename, RotateEnd, RotateFails, Advance, managers, TypeOK
<1>3. CASE RotateSave(j)
  <2>1. UNCHANGED <<files, owed>> /\ step'[j] = "writing" /\ copy'[j] = content[r]
        /\ \A k \in Rotators : k # j => copy'[k] = copy[k]
    BY <1>3 DEF RotateSave, Advance, TypeOK, clients
  <2>2. owed[r] \subseteq content[r]
    BY <1>1, <1>3 DEF RotateSave, Holds, Members, Member, KeptBy
  <2>3. ASSUME NEW q \in Ids PROVE KeptBy(q)'
    <3>1. Files(q)' = Files(q) /\ Blob(q)' = Blob(q) /\ Alive(q)' = Alive(q)
      BY <1>2, <2>1 DEF Files, Blob, Alive, files
    <3> QED
      BY <1>1, <1>2, <2>1, <2>2, <3>1 DEF KeptBy
  <2> QED
    BY <2>3 DEF Kept
<1>4. CASE RotateRename(j)
  <2>1. UNCHANGED <<blobPrevious, log, owed, copy>> /\ step'[j] = "renamed" /\ step[j] = "writing"
        /\ blobCurrent'[r] = copy[j] /\ \A q \in Ids : q # r => blobCurrent'[q] = blobCurrent[q]
    BY <1>1, <1>4 DEF RotateRename, Advance, TypeOK, clients
  <2>2. owed[r] \subseteq copy[j] /\ copy[j] \subseteq Tokens /\ owed[r] \subseteq Tokens
    BY <1>1, <2>1 DEF KeptBy, TypeOK
  <2>3. copy[j] # NoBlob /\ copy[j] \ NoBlob = copy[j]
    BY <2>2, RevokerAssumption DEF NoBlob
  <2>4. Blob(r)' = copy[j] /\ owed[r] \subseteq Files(r)'
    BY <1>2, <2>1, <2>2, <2>3 DEF Blob, Files
  <2>5. KeptBy(r)'
    BY <1>1, <1>2, <2>1, <2>2, <2>4 DEF KeptBy, Alive
  <2>6. ASSUME NEW q \in Ids, q # r PROVE KeptBy(q)'
    <3>1. Files(q)' = Files(q) /\ Blob(q)' = Blob(q)
      BY <2>1, <2>6 DEF Files, Blob
    <3> QED
      BY <1>1, <1>2, <2>1, <2>6, <3>1 DEF KeptBy, Alive
  <2> QED
    BY <1>2, <2>5, <2>6 DEF Kept
<1>5. CASE RotateEnd(j)
  <2>1. step[j] = "renamed" /\ step'[j] = "idle" /\ log'[r] = {}
        /\ \A q \in Ids : q # r => log'[q] = log[q] /\ owed'[q] = owed[q]
        /\ \A k \in Rotators : k # j => copy'[k] = copy[k]
    BY <1>1, <1>5 DEF RotateEnd, Advance, TypeOK
  <2>2. blobPrevious'[r] = Blob(r) /\ blobCurrent'[r] = NoBlob
        /\ \A q \in Ids : q # r => UNCHANGED <<blobPrevious[q], blobCurrent[q]>>
    <3>1. CASE blobCurrent[r] # NoBlob
      BY <1>1, <1>5, <3>1 DEF RotateEnd, Blob, TypeOK
    <3>2. CASE blobCurrent[r] = NoBlob
      BY <1>5, <3>2 DEF RotateEnd, Blob
    <3> QED
      BY <3>1, <3>2
  <2>3. owed'[r] = IF Saving(r) = {j} THEN owed[r] \cup (Blob(r) \cap content[r]) ELSE owed[r]
    BY <1>1, <1>5, <2>2 DEF RotateEnd, TypeOK
  <2>4. owed[r] \subseteq Blob(r)
    BY <1>1, <2>1 DEF KeptBy
  <2>5. Blob(r)' = Blob(r) /\ Blob(r) \subseteq Files(r)'
    BY <1>2, <2>2 DEF Blob, Files
  <2>6. ASSUME NEW k \in Rotators, of'[k] = r
        PROVE  /\ step'[k] = "writing" => owed'[r] \subseteq copy'[k]
               /\ step'[k] = "renamed" => owed'[r] \subseteq Blob(r)'
    <3>1. CASE k = j
      BY <2>1, <3>1
    <3>2. CASE k # j /\ Saving(r) = {j}
      BY <1>2, <2>6, <3>2 DEF Saving
    <3>3. CASE k # j /\ Saving(r) # {j}
      <4>1. of[k] = r /\ step'[k] = step[k] /\ copy'[k] = copy[k] /\ owed'[r] = owed[r]
        <5>1. owed'[r] = owed[r]
          BY <2>3, <3>3, Zenon
        <5>2. k # j
          BY <3>3
        <5>3. of[k] = r
          BY <1>2, <2>6
        <5>4. step'[k] = step[k]
          BY <1>2, <5>2
        <5>5. copy'[k] = copy[k]
          BY <1>5, <2>6, <5>2 DEF RotateEnd, TypeOK
        <5> QED
          BY <5>1, <5>3, <5>4, <5>5
      <4>2. Blob(r)' = Blob(r)
        BY <2>5
      <4> QED
        BY <1>1, <2>4, <4>1, <4>2 DEF KeptBy
    <3> QED
      BY <3>1, <3>2, <3>3
  <2>7. Alive(r)' => owed'[r] \subseteq content'[r]
    BY <1>1, <1>2, <2>3 DEF KeptBy, Alive
  <2>8. KeptBy(r)'
    BY <1>2, <2>3, <2>4, <2>5, <2>6, <2>7 DEF KeptBy
  <2>9. ASSUME NEW q \in Ids, q # r PROVE KeptBy(q)'
    <3>1. Files(q)' = Files(q) /\ Blob(q)' = Blob(q) /\ owed'[q] = owed[q]
      BY <2>1, <2>2, <2>9 DEF Files, Blob
    <3> QED
      BY <1>1, <1>2, <2>1, <2>9, <3>1 DEF KeptBy, Alive
  <2> QED
    BY <1>2, <2>8, <2>9 DEF Kept
<1>6. CASE RotateFails(j)
  <2>1. UNCHANGED <<files, owed>> /\ step'[j] = "idle" /\ \A k \in Rotators : k # j => copy'[k] = copy[k]
    BY <1>6 DEF RotateFails, Advance, TypeOK, clients
  <2>2. ASSUME NEW q \in Ids PROVE KeptBy(q)'
    <3>1. Files(q)' = Files(q) /\ Blob(q)' = Blob(q)
      BY <2>1 DEF Files, Blob, files
    <3> QED
      BY <1>1, <1>2, <2>1, <3>1 DEF KeptBy, Alive
  <2> QED
    BY <2>2 DEF Kept
<1> QED
  BY <1>3, <1>4, <1>5, <1>6 DEF RotateStep

\* A manager whose filters are filled from its files.
LEMMA KeptFilled ==
    ASSUME TypeOK, Kept, NEW r \in Ids, content' = [content EXCEPT ![r] = Files(r)],
           \A q \in Ids \ {r} : manager'[q] = manager[q],
           UNCHANGED <<files, owed, step, of, copy>>
    PROVE  Kept'
<1> SUFFICES ASSUME NEW q \in Ids PROVE KeptBy(q)'
  BY DEF Kept
<1>1. KeptBy(q) /\ Files(q)' = Files(q) /\ Blob(q)' = Blob(q)
  BY DEF Kept, Files, Blob, files
<1>2. Alive(q)' => owed[q] \subseteq content'[q]
  BY <1>1 DEF KeptBy, Alive, TypeOK
<1> QED
  BY <1>1, <1>2 DEF KeptBy

\* An added token is owed if no rotation saves.
LEMMA KeptAdd ==
    ASSUME TypeOK, Kept, NEW r \in Ids, NEW t \in Tokens, Add(r, t)
    PROVE  Kept'
<1>1. UNCHANGED <<manager, blobCurrent, blobPrevious, step, of>> /\ \A q \in Ids : KeptBy(q)
  BY DEF Add, Kept
<1>2. /\ log'[r] = log[r] \cup {t} /\ content'[r] = content[r] \cup {t}
      /\ \A q \in Ids : q # r => UNCHANGED <<log[q], content[q], owed[q]>>
  BY DEF Add, TypeOK
<1>3. \A k \in Rotators : copy[k] \subseteq copy'[k]
  BY DEF Add, TypeOK
<1>4. KeptBy(r)'
  <2>1. Files(r)' = Files(r) \cup {t} /\ Blob(r)' = Blob(r)
    BY <1>1, <1>2 DEF Files, Blob
  <2>2. CASE Saving(r) = {}
    <3>1. owed'[r] = owed[r] \cup {t}
      BY <2>2 DEF Add, TypeOK
    <3>2. \A k \in Rotators : of[k] = r => step[k] \notin {"writing", "renamed"}
      BY <2>2 DEF Saving
    <3> QED
      BY <1>1, <1>2, <2>1, <3>1, <3>2 DEF KeptBy, Alive
  <2>3. CASE Saving(r) # {}
    <3>1. owed'[r] = owed[r]
      BY <2>3 DEF Add, TypeOK
    <3> QED
      BY <1>1, <1>2, <1>3, <2>1, <3>1 DEF KeptBy, Alive
  <2> QED
    BY <2>2, <2>3
<1>5. ASSUME NEW q \in Ids, q # r PROVE KeptBy(q)'
  <2>1. Files(q)' = Files(q) /\ Blob(q)' = Blob(q)
    BY <1>1, <1>2, <1>5 DEF Files, Blob
  <2> QED
    BY <1>1, <1>2, <1>3, <1>5, <2>1 DEF KeptBy, Alive
<1> QED
  BY <1>4, <1>5 DEF Kept

\* What is owed is in the files and in a live manager after every step.
LEMMA KeptStep == IInv /\ [Next]_vars => Kept'
<1> SUFFICES ASSUME IInv, [Next]_vars PROVE Kept'
  OBVIOUS
<1>1. TypeOK /\ Kept /\ Members
  BY DEF IInv
<1>2. ASSUME UNCHANGED <<manager, content, files, owed, step, of, copy>> PROVE Kept'
  BY <1>1, <1>2, KeptSame
<1>3. ASSUME NEW rs, DestroyManagers(rs), UNCHANGED owed PROVE Kept'
  BY <1>1, <1>3, KeptDestroy
<1>4. CASE ServerStep
  BY <1>2, <1>3, <1>4
     DEF ServerStep, Bound, BindFails, ServerStopped, managers, rotations, clients
<1>5. ASSUME NEW j \in Rotators, RotateStep(j) PROVE Kept'
  BY <1>1, <1>5, KeptRotation
<1>6. ASSUME NEW r \in Ids, ShutdownDone(r) PROVE Kept'
  BY <1>3, <1>6 DEF ShutdownDone
<1>7. ASSUME NEW c \in Calls, ResetRun(c) PROVE Kept'
  <2>1. target[c] \in Ids
    BY <1>1 DEF TypeOK
  <2> QED
    BY <1>1, <1>7, <2>1, KeptFilled DEF ResetRun, rotations
<1>8. CASE TimerStep
  BY <1>2, <1>8 DEF TimerStep, ResetTimeout, ResetLate, Answer, managers, rotations
<1>9. ASSUME NEW r \in Ids, CreateRegistered(r) \/ CreateAwaiting(r) PROVE Kept'
  <2>1. NewManager(r) /\ UNCHANGED <<files, rotations, clients>>
    BY <1>9 DEF CreateRegistered, CreateAwaiting, Creation
  <2>2. \A q \in Ids \ {r} : manager'[q] = manager[q]
    BY <1>1, <2>1 DEF NewManager, TypeOK
  <2> QED
    BY <1>1, <2>1, <2>2, KeptFilled DEF NewManager, rotations, clients
<1>10. ASSUME NEW r \in Ids, CreateRejected(r) PROVE Kept'
  BY <1>2, <1>10 DEF CreateRejected, Creation, managers, rotations, clients
<1>11. ASSUME NEW r \in Ids, Shutdown(r) PROVE Kept'
  <2>1. Alive(r)
    BY <1>1, <1>11 DEF Shutdown, Members, Member
  <2>2. \A q \in Ids : Alive(q)' => Alive(q)
    BY <1>1, <1>11, <2>1 DEF Shutdown, Alive, TypeOK
  <2>3. UNCHANGED <<content, files, owed, step, of, copy>>
    BY <1>11 DEF Shutdown, rotations, clients
  <2>4. ASSUME NEW q \in Ids PROVE KeptBy(q)'
    <3>1. KeptBy(q) /\ Files(q)' = Files(q) /\ Blob(q)' = Blob(q)
      BY <1>1, <2>3 DEF Kept, Files, Blob, files
    <3> QED
      BY <2>2, <2>3, <3>1 DEF KeptBy
  <2> QED
    BY <2>4 DEF Kept
<1>12. ASSUME NEW r \in Ids, Destroy(r) PROVE Kept'
  BY <1>2, <1>3, <1>12 DEF Destroy, managers, rotations
<1>13. ASSUME NEW r \in Ids, NEW j \in Rotators, RotateBegin(j, r) PROVE Kept'
  <2>1. UNCHANGED <<manager, content, files, owed, copy>> /\ step'[j] = "waiting"
        /\ \A k \in Rotators : k # j => of'[k] = of[k] /\ step'[k] = step[k]
    BY <1>1, <1>13 DEF RotateBegin, Advance, TypeOK, clients
  <2>2. ASSUME NEW q \in Ids PROVE KeptBy(q)'
    <3>1. KeptBy(q) /\ Files(q)' = Files(q) /\ Blob(q)' = Blob(q) /\ Alive(q)' = Alive(q)
      BY <1>1, <2>1 DEF Kept, Files, Blob, Alive, files
    <3> QED
      BY <2>1, <3>1 DEF KeptBy
  <2> QED
    BY <2>2 DEF Kept
<1>14. ASSUME NEW r \in Ids, NEW t \in Tokens, Add(r, t) PROVE Kept'
  BY <1>1, <1>14, KeptAdd
<1>15. ASSUME NEW r \in Ids, NEW c \in Calls, ResetAndRestore(c, r) PROVE Kept'
  BY <1>2, <1>15 DEF ResetAndRestore, rotations
<1>16. ASSUME NEW r \in Ids, NEW c \in Calls, ResetAndClearData(c, r) PROVE Kept'
  <2>1. UNCHANGED <<manager, content, step, of, copy>> /\ owed'[r] = {}
        /\ \A q \in Ids : q # r => UNCHANGED <<blobCurrent[q], blobPrevious[q], log[q], owed[q]>>
    BY <1>1, <1>16 DEF ResetAndClearData, TypeOK, rotations
  <2>2. ASSUME NEW q \in Ids, q # r PROVE KeptBy(q)'
    <3>1. KeptBy(q) /\ Files(q)' = Files(q) /\ Blob(q)' = Blob(q)
      BY <1>1, <2>1, <2>2 DEF Kept, Files, Blob
    <3> QED
      BY <2>1, <2>2, <3>1 DEF KeptBy, Alive
  <2>3. KeptBy(r)'
    BY <2>1 DEF KeptBy
  <2> QED
    BY <2>2, <2>3 DEF Kept
<1>17. CASE UNCHANGED vars
  BY <1>2, <1>17 DEF vars, managers, rotations, clients
<1> QED
  BY <1>4, <1>5, <1>6, <1>7, <1>8, <1>9, <1>10, <1>11, <1>12, <1>13, <1>14, <1>15, <1>16, <1>17
     DEF Next, ManagerStep, UserStep

-----------------------------------------------------------------------------
(* What was cleared.                                                       *)

\* The order in a queue after its first task has left.
LEMMA OrderTail ==
    ASSUME NEW q \in Seq(Tasks), q # <<>>, NEW c, NEW T, InOrder(c, q, T)
    PROVE  InOrder(c, Tail(q), T)
<1> SUFFICES ASSUME NEW i \in 1..Len(Tail(q)), NEW j \in 1..Len(Tail(q)), i < j, Tail(q)[j] = c
             PROVE  Tail(q)[i] # c /\ (Tail(q)[i] \in Rotators => T = {})
  BY DEF InOrder
<1>1. i + 1 \in 1..Len(q) /\ j + 1 \in 1..Len(q) /\ i + 1 < j + 1
  OBVIOUS
<1>2. Tail(q)[i] = q[i + 1] /\ Tail(q)[j] = q[j + 1]
  OBVIOUS
<1> QED
  BY <1>1, <1>2 DEF InOrder

\* The order in a queue that another task has joined.
LEMMA OrderAppend ==
    ASSUME NEW q \in Seq(Tasks), NEW t \in Tasks, NEW c, t # c, NEW T, InOrder(c, q, T)
    PROVE  InOrder(c, Append(q, t), T)
<1> SUFFICES ASSUME NEW i \in 1..Len(Append(q, t)), NEW j \in 1..Len(Append(q, t)), i < j,
                    Append(q, t)[j] = c
             PROVE  Append(q, t)[i] # c /\ (Append(q, t)[i] \in Rotators => T = {})
  BY DEF InOrder
<1>1. j \in 1..Len(q) /\ i \in 1..Len(q)
  OBVIOUS
<1>2. Append(q, t)[i] = q[i] /\ Append(q, t)[j] = q[j]
  BY <1>1
<1> QED
  BY <1>1, <1>2 DEF InOrder

\* The order in a queue that the call itself has joined.
LEMMA OrderJoin ==
    ASSUME NEW q \in Seq(Tasks), NEW c \in Calls, NEW T, c \notin ToSet(q),
           \A j \in Rotators : j \in ToSet(q) => T = {}
    PROVE  InOrder(c, Append(q, c), T)
<1> SUFFICES ASSUME NEW i \in 1..Len(Append(q, c)), NEW j \in 1..Len(Append(q, c)), i < j,
                    Append(q, c)[j] = c
             PROVE  Append(q, c)[i] # c /\ (Append(q, c)[i] \in Rotators => T = {})
  BY DEF InOrder
<1>1. c \in Tasks
  BY DEF Tasks
<1>2. i \in 1..Len(q)
  BY <1>1
<1>3. Append(q, c)[i] = q[i]
  BY <1>1, <1>2
<1>4. q[i] \in ToSet(q)
  BY <1>2 DEF ToSet
<1> QED
  BY <1>3, <1>4

\* A rotation that has the mutex saves nothing that was cleared.
LEMMA RotationSpares ==
    ASSUME TypeOK, NEW c \in Calls, Clears(c), NEW j \in Rotators, Holds(target[c], j)
    PROVE  cleared[c] \cap content[target[c]] = {}
<1>1. CASE c \notin ToSet(mutex[target[c]])
  BY <1>1 DEF Clears
<1>2. CASE c \in ToSet(mutex[target[c]])
  <2> DEFINE q == mutex[target[c]]
  <2>1. q \in Seq(Tasks) /\ q # <<>> /\ q[1] = j /\ c # j
    BY RevokerAssumption DEF TypeOK, Tasks, Holds
  <2>2. PICK i \in 1..Len(q) : q[i] = c
    BY <1>2, <2>1 DEF ToSet
  <2>3. 1 \in 1..Len(q) /\ 1 < i
    BY <2>1, <2>2
  <2>4. cleared[c] = {}
    BY <2>1, <2>2, <2>3 DEF Clears, InOrder
  <2> QED
    BY <2>4
<1> QED
  BY <1>1, <1>2

\* Destroying managers brings nothing back that was cleared.
LEMMA ClearsDestroy ==
    ASSUME TypeOK, NEW rs, rs \subseteq Ids, DestroyManagers(rs), NEW c \in Calls, Clears(c),
           UNCHANGED <<target, cleared>>
    PROVE  Clears(c)'
<1> DEFINE r == target[c]
<1>1. r \in Ids
  BY DEF TypeOK
<1>2. call'[c] = call[c] \/ (call[c] = "waiting" /\ call'[c] = "late")
  BY DEF DestroyManagers, TypeOK
<1>3. ASSUME NEW q \in Ids, c \in ToSet(mutex'[q])
      PROVE  c \in ToSet(mutex[q]) /\ call'[c] = call[c]
  <2>1. q \notin rs /\ c \in ToSet(mutex[q])
    BY <1>3, DestroyEffect, ToSetEmpty
  <2>2. q = target[c]
    BY <2>1 DEF Clears
  <2>3. \A p \in rs : p \in Ids => c \notin ToSet(mutex[p])
    BY <2>1, <2>2 DEF Clears
  <2> QED
    BY <2>1, <2>3 DEF DestroyManagers, TypeOK
<1>4. /\ cleared[c] \cap Files(r)' = {}
      /\ \A j \in Rotators : of'[j] = r /\ step'[j] = "writing" => cleared[c] \cap copy'[j] = {}
  <2>1. \A j \in Rotators : step'[j] = "writing" => step[j] = "writing"
    BY DEF DestroyManagers
  <2>2. Files(r)' = Files(r) /\ UNCHANGED <<of, copy>>
    BY <1>1, DestroyEffect DEF DestroyManagers
  <2> QED
    BY <2>1, <2>2 DEF Clears
<1>5. c \notin ToSet(mutex'[r]) => cleared[c] \cap content'[r] = {}
  BY <1>1, DestroyEffect DEF Clears
<1>6. InOrder(c, mutex'[r], cleared[c])
  <2>1. InOrder(c, <<>>, cleared[c])
    BY DEF InOrder
  <2> QED
    BY <1>1, <2>1, DestroyEffect DEF Clears
<1> QED
  BY <1>2, <1>3, <1>4, <1>5, <1>6 DEF Clears

\* A task joins a queue.
LEMMA ClearsEnqueue ==
    ASSUME TypeOK, NEW r \in Ids, NEW t \in Tasks, Enqueue(r, t),
           NEW c \in Calls, c # t, Clears(c), target'[c] = target[c], call'[c] = call[c],
           cleared'[c] = cleared[c], Files(target[c])' \subseteq Files(target[c]),
           content'[target[c]] = content[target[c]], UNCHANGED copy,
           \A j \in Rotators : step'[j] = "writing" => UNCHANGED <<step[j], of[j]>>
    PROVE  Clears(c)'
<1>1. target[c] \in Ids /\ mutex[r] \in Seq(Tasks)
  BY DEF TypeOK, Tasks
<1>2. mutex'[r] = Append(mutex[r], t) /\ \A q \in Ids : q # r => mutex'[q] = mutex[q]
  BY DEF Enqueue, TypeOK
<1>3. \A q \in Ids : c \in ToSet(mutex'[q]) <=> c \in ToSet(mutex[q])
  <2>1. ToSet(Append(mutex[r], t)) = ToSet(mutex[r]) \cup {t}
    BY <1>1, ToSetAppend
  <2>2. c \in ToSet(mutex'[r]) <=> c \in ToSet(mutex[r])
    BY <1>2, <2>1
  <2> QED
    BY <1>2, <2>2
<1>4. InOrder(c, mutex'[target[c]], cleared[c])
  <2>1. CASE target[c] = r
    <3>1. InOrder(c, mutex[r], cleared[c])
      BY <2>1 DEF Clears
    <3>2. InOrder(c, Append(mutex[r], t), cleared[c])
      BY <1>1, <3>1, OrderAppend
    <3> QED
      BY <1>2, <2>1, <3>2
  <2>2. CASE target[c] # r
    BY <1>1, <1>2, <2>2 DEF Clears
  <2> QED
    BY <2>1, <2>2
<1> QED
  BY <1>1, <1>3, <1>4 DEF Clears

\* The first task leaves a queue; its filters are as before, or what the files hold.
LEMMA ClearsRelease ==
    ASSUME TypeOK, NEW r \in Ids, mutex[r] # <<>>, Release(r),
           NEW c \in Calls, Clears(c), Head(mutex[r]) # c,
           target'[c] = target[c], call'[c] = call[c], cleared'[c] = cleared[c],
           cleared[c] \cap Files(target[c])' = {},
           content'[target[c]] \in {content[target[c]], Files(target[c])},
           \A j \in Rotators : step'[j] = "writing" => UNCHANGED <<step[j], of[j], copy[j]>>
    PROVE  Clears(c)'
<1>1. target[c] \in Ids /\ mutex[r] \in Seq(Tasks)
  BY DEF TypeOK, Tasks
<1>2. mutex'[r] = Tail(mutex[r]) /\ \A q \in Ids : q # r => mutex'[q] = mutex[q]
  BY DEF Release, TypeOK
<1>3. \A q \in Ids : c \in ToSet(mutex'[q]) => c \in ToSet(mutex[q])
  BY <1>1, <1>2, ToSetTail
<1>4. c \in ToSet(mutex[r]) => c \in ToSet(mutex'[r])
  <2> SUFFICES ASSUME NEW i \in 1..Len(mutex[r]), mutex[r][i] = c
               PROVE  c \in ToSet(Tail(mutex[r]))
    BY <1>1, <1>2 DEF ToSet
  <2>1. i - 1 \in 1..Len(Tail(mutex[r])) /\ Tail(mutex[r])[i - 1] = c
    BY <1>1
  <2> QED
    BY <1>1, <2>1 DEF ToSet
<1>5. InOrder(c, mutex'[target[c]], cleared[c])
  BY <1>1, <1>2, OrderTail DEF Clears
<1>6. c \notin ToSet(mutex'[target[c]]) => cleared[c] \cap content'[target[c]] = {}
  BY <1>1, <1>2, <1>4 DEF Clears
<1> QED
  BY <1>1, <1>3, <1>5, <1>6 DEF Clears

\* A rotation writes nothing that was cleared.
LEMMA ClearsRotation ==
    ASSUME TypeOK, NEW c \in Calls, Clears(c), NEW j \in Rotators, RotateStep(j)
    PROVE  Clears(c)'
<1> DEFINE r == of[j]
<1> DEFINE d == target[c]
<1>1. d \in Ids /\ r \in Ids
  BY DEF TypeOK
<1>2. /\ UNCHANGED <<content, call, target, cleared, of>>
      /\ \A k \in Rotators : k # j => UNCHANGED <<step[k], copy[k]>>
  BY DEF RotateStep, RotateSave, RotateRename, RotateEnd, RotateFails, Advance, managers, clients,
         TypeOK
<1>3. CASE RotateSave(j)
  <2>1. UNCHANGED <<mutex, files>> /\ copy'[j] = content[r] /\ Holds(r, j)
    BY <1>3 DEF RotateSave, TypeOK, managers
  <2>2. Files(d)' = Files(d)
    BY <1>2, <2>1 DEF Files, files
  <2>3. of[j] = d => cleared[c] \cap copy'[j] = {}
    BY <2>1, RotationSpares
  <2> QED
    BY <1>2, <2>1, <2>2, <2>3 DEF Clears
<1>4. CASE RotateRename(j)
  <2>1. UNCHANGED <<mutex, blobPrevious, log, copy>> /\ step[j] = "writing" /\ step'[j] = "renamed"
        /\ blobCurrent'[r] = copy[j] /\ \A q \in Ids : q # r => blobCurrent'[q] = blobCurrent[q]
    BY <1>1, <1>4 DEF RotateRename, Advance, TypeOK, managers
  <2>2. cleared[c] \cap Files(d)' = {}
    <3>1. CASE d = r
      <4>1. cleared[c] \cap copy[j] = {}
        BY <2>1, <3>1 DEF Clears
      <4>2. Files(r)' \subseteq Files(r) \cup copy[j]
        BY <1>2, <2>1 DEF Files
      <4>3. Files(d)' \subseteq Files(d) \cup copy[j]
        BY <1>2, <3>1, <4>2
      <4> QED
        BY <4>1, <4>3 DEF Clears
    <3>2. CASE d # r
      <4>1. Files(d)' = Files(d)
        BY <1>1, <1>2, <2>1, <3>2 DEF Files
      <4> QED
        BY <4>1 DEF Clears
    <3> QED
      BY <3>1, <3>2
  <2> QED
    BY <1>2, <2>1, <2>2 DEF Clears
<1>5. ASSUME cleared[c] \cap Files(d)' = {}, step'[j] = "idle", RotateRelease(j) PROVE Clears(c)'
  <2>1. CASE Holds(r, j)
    <3>1. mutex[r] # <<>> /\ Head(mutex[r]) # c /\ Release(r)
      BY <1>5, <2>1, RevokerAssumption DEF RotateRelease, Holds
    <3>2. /\ target'[c] = target[c] /\ call'[c] = call[c] /\ cleared'[c] = cleared[c]
          /\ content'[d] \in {content[d], Files(d)}
      BY <1>2
    <3>3. \A k \in Rotators : step'[k] = "writing" => UNCHANGED <<step[k], of[k], copy[k]>>
      BY <1>2, <1>5
    <3> QED
      BY <1>1, <1>5, <3>1, <3>2, <3>3, ClearsRelease
  <2>2. CASE ~Holds(r, j)
    BY <1>2, <1>5, <2>2 DEF RotateRelease, Clears
  <2> QED
    BY <2>1, <2>2
<1>6. CASE RotateEnd(j)
  <2>1. step'[j] = "idle" /\ RotateRelease(j) /\ log'[r] = {}
        /\ \A q \in Ids : q # r => log'[q] = log[q]
    BY <1>1, <1>6 DEF RotateEnd, Advance, TypeOK
  <2>2. Files(d)' \subseteq Files(d)
    <3>1. CASE blobCurrent[r] # NoBlob
      <4>1. blobCurrent[r] \subseteq Tokens
        BY <1>1, <3>1 DEF TypeOK
      <4>2. blobCurrent[r] \ NoBlob = blobCurrent[r]
        BY <4>1, RevokerAssumption DEF NoBlob
      <4>3. blobPrevious'[r] = blobCurrent[r] /\ blobCurrent'[r] = NoBlob
            /\ \A q \in Ids : q # r => UNCHANGED <<blobPrevious[q], blobCurrent[q]>>
        BY <1>1, <1>6, <3>1 DEF RotateEnd, TypeOK
      <4> QED
        BY <1>1, <1>2, <2>1, <4>2, <4>3 DEF Files
    <3>2. CASE blobCurrent[r] = NoBlob
      BY <1>1, <1>2, <1>6, <2>1, <3>2 DEF RotateEnd, Files
    <3> QED
      BY <3>1, <3>2
  <2> QED
    BY <1>5, <2>1, <2>2 DEF Clears
<1>7. CASE RotateFails(j)
  <2>1. step'[j] = "idle" /\ RotateRelease(j) /\ UNCHANGED files
    BY <1>7 DEF RotateFails, Advance, TypeOK
  <2>2. Files(d)' = Files(d)
    BY <1>2, <2>1 DEF Files, files
  <2> QED
    BY <1>5, <2>1, <2>2 DEF Clears
<1> QED
  BY <1>3, <1>4, <1>6, <1>7 DEF RotateStep

\* A step leaves what was cleared in no file and, after its reset, in no filter.
LEMMA ClearingStep == IInv /\ [Next]_vars => Clearing'
<1> SUFFICES ASSUME IInv, [Next]_vars, NEW c \in Calls PROVE Clears(c)'
  BY DEF Clearing
<1>1. TypeOK /\ Members /\ Rotations /\ Clears(c) /\ target[c] \in Ids
  BY DEF IInv, Clearing, TypeOK
<1>2. ASSUME UNCHANGED <<content, files, mutex, step, of, copy, call, target, cleared>>
      PROVE  Clears(c)'
  <2>1. Files(target[c])' = Files(target[c])
    BY <1>2 DEF Files, files
  <2> QED
    BY <1>1, <1>2, <2>1 DEF Clears
<1>3. ASSUME NEW rs, rs \subseteq Ids, DestroyManagers(rs), UNCHANGED <<target, cleared>>
      PROVE  Clears(c)'
  BY <1>1, <1>3, ClearsDestroy
<1>4. CASE ServerStep
  BY <1>2, <1>3, <1>4
     DEF ServerStep, Bound, BindFails, ServerStopped, Starting, managers, rotations, clients
<1>5. ASSUME NEW j \in Rotators, RotateStep(j) PROVE Clears(c)'
  BY <1>1, <1>5, ClearsRotation
<1>6. ASSUME NEW r \in Ids, ShutdownDone(r) PROVE Clears(c)'
  BY <1>3, <1>6 DEF ShutdownDone
<1>7. ASSUME NEW d \in Calls, ResetRun(d) PROVE Clears(c)'
  <2> DEFINE r == target[d]
  <2>1. r \in Ids /\ mutex[r] \in Seq(Tasks) /\ mutex[r] # <<>> /\ Head(mutex[r]) = d /\ Release(r)
    BY <1>1, <1>7 DEF ResetRun, Holds, TypeOK, Tasks
  <2>2. /\ content' = [content EXCEPT ![r] = Files(r)]
        /\ UNCHANGED <<files, target, cleared, step, of, copy>>
    BY <1>7 DEF ResetRun, rotations
  <2>3. /\ content'[target[c]] \in {content[target[c]], Files(target[c])}
        /\ Files(target[c])' = Files(target[c])
    BY <1>1, <2>2 DEF TypeOK, Files, files
  <2>4. CASE c # d
    <3>1. call'[c] = call[c]
      BY <1>1, <1>7, <2>4 DEF ResetRun, TypeOK
    <3> QED
      BY <1>1, <2>1, <2>2, <2>3, <2>4, <3>1, ClearsRelease DEF Clears
  <2>5. CASE c = d
    <3>1. mutex'[r] = Tail(mutex[r]) /\ \A q \in Ids : q # r => mutex'[q] = mutex[q]
      BY <1>1, <2>1 DEF Release, TypeOK
    <3>2. c \notin ToSet(mutex'[r])
      <4> SUFFICES ASSUME NEW i \in 1..Len(Tail(mutex[r])), Tail(mutex[r])[i] = c
                   PROVE  FALSE
        BY <2>1, <3>1 DEF ToSet
      <4>1. i + 1 \in 1..Len(mutex[r]) /\ mutex[r][i + 1] = c /\ 1 \in 1..Len(mutex[r]) /\ 1 < i + 1
        BY <2>1
      <4>2. mutex[r][1] = c
        BY <2>1, <2>5
      <4> QED
        BY <1>1, <2>5, <4>1, <4>2 DEF Clears, InOrder
    <3>3. \A q \in Ids : c \notin ToSet(mutex'[q])
      BY <1>1, <2>5, <3>1, <3>2 DEF Clears
    <3>4. call'[c] # "idle"
      <4>1. c \in ToSet(mutex[r])
        BY <2>1, <2>5 DEF ToSet
      <4> QED
        BY <1>1, <1>7, <2>1, <2>5, <4>1 DEF ResetRun, Clears, TypeOK
    <3>5. content'[r] = Files(r)
      BY <1>1, <2>1, <2>2 DEF TypeOK
    <3>6. InOrder(c, mutex'[r], cleared[c])
      BY <1>1, <2>1, <2>5, <3>1, OrderTail DEF Clears
    <3> QED
      BY <1>1, <2>2, <2>3, <2>5, <3>3, <3>4, <3>5, <3>6 DEF Clears
  <2> QED
    BY <2>4, <2>5
<1>8. ASSUME NEW d \in Calls, ResetTimeout(d) \/ ResetLate(d) PROVE Clears(c)'
  <2>1. call'[c] = call[c] \/ call'[c] = "timeout" \/ (call[c] = "late" /\ call'[c] = "ok")
    BY <1>1, <1>8 DEF ResetTimeout, ResetLate, Answer, TypeOK
  <2>2. UNCHANGED <<content, files, mutex, step, of, copy, target, cleared>>
    BY <1>8 DEF ResetTimeout, ResetLate, Answer, managers, rotations
  <2>3. Files(target[c])' = Files(target[c])
    BY <2>2 DEF Files, files
  <2> QED
    BY <1>1, <1>8, <2>1, <2>2, <2>3 DEF ResetTimeout, ResetLate, Clears
<1>9. ASSUME NEW r \in Ids, CreateRegistered(r) \/ CreateAwaiting(r) PROVE Clears(c)'
  <2>1. UNCHANGED <<files, mutex, step, of, copy, call, target, cleared>>
    BY <1>9 DEF CreateRegistered, CreateAwaiting, Creation, NewManager, rotations, clients
  <2>2. /\ content'[target[c]] \in {content[target[c]], Files(target[c])}
        /\ Files(target[c])' = Files(target[c])
    BY <1>1, <1>9, <2>1 DEF CreateRegistered, CreateAwaiting, NewManager, TypeOK, Files, files
  <2> QED
    BY <1>1, <2>1, <2>2 DEF Clears
<1>10. ASSUME NEW r \in Ids, CreateRejected(r) PROVE Clears(c)'
  BY <1>2, <1>10 DEF CreateRejected, Creation, managers, rotations, clients
<1>11. ASSUME NEW r \in Ids, Shutdown(r) PROVE Clears(c)'
  <2>1. c # "shutdown" /\ "shutdown" \in Tasks
    BY RevokerAssumption DEF Tasks
  <2>2. Enqueue(r, "shutdown") /\ UNCHANGED <<content, files, step, of, copy, call, target, cleared>>
    BY <1>11 DEF Shutdown, rotations, clients
  <2>3. Files(target[c])' = Files(target[c])
    BY <2>2 DEF Files, files
  <2> QED
    BY <1>1, <2>1, <2>2, <2>3, ClearsEnqueue
<1>12. ASSUME NEW r \in Ids, Destroy(r) PROVE Clears(c)'
  BY <1>2, <1>3, <1>12 DEF Destroy, managers, rotations
<1>13. ASSUME NEW r \in Ids, NEW j \in Rotators, RotateBegin(j, r) PROVE Clears(c)'
  <2>1. c # j /\ j \in Tasks
    BY RevokerAssumption DEF Tasks
  <2>2. Enqueue(r, j) /\ UNCHANGED <<content, files, copy, call, target, cleared>>
    BY <1>13 DEF RotateBegin, clients
  <2>3. Files(target[c])' = Files(target[c])
    BY <2>2 DEF Files, files
  <2>4. \A k \in Rotators : step'[k] = "writing" => UNCHANGED <<step[k], of[k]>>
    BY <1>1, <1>13 DEF RotateBegin, Advance, TypeOK
  <2> QED
    BY <1>1, <2>1, <2>2, <2>3, <2>4, ClearsEnqueue
<1>14. ASSUME NEW r \in Ids, NEW t \in Tokens, Add(r, t) PROVE Clears(c)'
  <2> DEFINE d == target[c]
  <2>1. UNCHANGED <<mutex, call, target, step, of, blobCurrent, blobPrevious>>
    BY <1>14 DEF Add
  <2>2. cleared'[c] = IF d = r THEN cleared[c] \ {t} ELSE cleared[c]
    BY <1>14 DEF Add
  <2>3. cleared'[c] \cap Files(d)' \subseteq cleared[c] \cap Files(d)
    <3>1. log'[d] = IF d = r THEN log[d] \cup {t} ELSE log[d]
      BY <1>1, <1>14 DEF Add, TypeOK
    <3> QED
      BY <2>1, <2>2, <3>1 DEF Files
  <2>4. cleared'[c] \cap content'[d] \subseteq cleared[c] \cap content[d]
    BY <1>1, <1>14, <2>2 DEF Add, TypeOK
  <2>5. \A j \in Rotators : of[j] = d => cleared'[c] \cap copy'[j] \subseteq cleared[c] \cap copy[j]
    <3>1. \A j \in Rotators : copy'[j] = copy[j] \/ (of[j] = r /\ copy'[j] = copy[j] \cup {t})
      BY <1>14 DEF Add
    <3> QED
      BY <2>2, <3>1
  <2>6. InOrder(c, mutex[d], cleared'[c])
    BY <1>1, <2>2 DEF Clears, InOrder
  <2> QED
    BY <1>1, <2>1, <2>2, <2>3, <2>4, <2>5, <2>6 DEF Clears
<1>15. ASSUME NEW r \in Ids, NEW d \in Calls, ResetAndRestore(d, r) \/ ResetAndClearData(d, r)
       PROVE  Clears(c)'
  <2>1. Enqueue(r, d) /\ d \in Tasks /\ call[d] = "idle" /\ mutex[r] \in Seq(Tasks)
    BY <1>1, <1>15 DEF ResetAndRestore, ResetAndClearData, Reset, Tasks, TypeOK
  <2>2. /\ call' = [call EXCEPT ![d] = "waiting"] /\ target' = [target EXCEPT ![d] = r]
        /\ UNCHANGED <<content, step, of, copy>>
    BY <1>15 DEF ResetAndRestore, ResetAndClearData, Reset, rotations
  <2>3. \/ cleared' = cleared /\ UNCHANGED files
        \/ ResetAndClearData(d, r)
    BY <1>15 DEF ResetAndRestore
  <2>4. \A q \in Ids : Files(q)' \subseteq Files(q)
    <3>1. CASE UNCHANGED files
      BY <3>1 DEF Files, files
    <3>2. CASE ResetAndClearData(d, r)
      <4>1. \A q \in Ids : \/ UNCHANGED <<blobCurrent[q], blobPrevious[q], log[q]>>
                           \/ blobCurrent'[q] = NoBlob /\ blobPrevious'[q] = {} /\ log'[q] = {}
        BY <1>1, <3>2 DEF ResetAndClearData, TypeOK
      <4> QED
        BY <4>1 DEF Files
    <3> QED
      BY <2>3, <3>1, <3>2
  <2>5. CASE c # d
    <3>1. target'[c] = target[c] /\ call'[c] = call[c] /\ cleared'[c] = cleared[c]
      BY <1>1, <2>2, <2>3, <2>5 DEF ResetAndClearData, TypeOK
    <3>2. Files(target[c])' \subseteq Files(target[c])
      BY <1>1, <2>4, <3>1
    <3> QED
      BY <1>1, <2>1, <2>2, <2>5, <3>1, <3>2, ClearsEnqueue
  <2>6. CASE c = d
    <3>1. cleared[c] = {} /\ \A q \in Ids : c \notin ToSet(mutex[q])
      BY <1>1, <2>1, <2>6 DEF Clears
    <3>2. target'[c] = r /\ call'[c] = "waiting"
      BY <1>1, <2>2, <2>6 DEF TypeOK
    <3>3. \/ cleared'[c] = {}
          \/ Files(r)' = {} /\ \A j \in Rotators : of[j] = r => step[j] = "idle"
      <4>1. CASE cleared' = cleared
        BY <3>1, <4>1
      <4>2. CASE ResetAndClearData(d, r)
        <5>1. Files(r)' = {}
          BY <1>1, <4>2 DEF ResetAndClearData, TypeOK, Files
        <5>2. cleared'[c] = IF \E j \in Rotators : of[j] = r /\ step[j] # "idle" THEN {} ELSE content[r]
          BY <1>1, <2>6, <4>2 DEF ResetAndClearData, TypeOK
        <5> QED
          BY <5>1, <5>2
      <4> QED
        BY <2>3, <4>1, <4>2
    <3>4. mutex'[r] = Append(mutex[r], c) /\ \A q \in Ids : q # r => mutex'[q] = mutex[q]
      BY <1>1, <2>1, <2>6 DEF Enqueue, TypeOK
    <3>5. c \in ToSet(mutex'[r]) /\ \A q \in Ids : q # r => c \notin ToSet(mutex'[q])
      BY <2>1, <2>6, <3>1, <3>4, ToSetAppend
    <3>6. \A j \in Rotators : j \in ToSet(mutex[r]) => cleared'[c] = {}
      BY <1>1, <3>3 DEF Rotations, Rotation
    <3>7. InOrder(c, mutex'[r], cleared'[c])
      BY <2>1, <3>1, <3>4, <3>6, OrderJoin
    <3>8. \A j \in Rotators : of'[j] = r /\ step'[j] = "writing" => cleared'[c] = {}
      BY <2>2, <3>3
    <3> QED
      BY <3>2, <3>3, <3>5, <3>7, <3>8 DEF Clears
  <2> QED
    BY <2>5, <2>6
<1>16. CASE UNCHANGED vars
  BY <1>2, <1>16 DEF vars, managers, rotations, clients
<1> QED
  BY <1>4, <1>5, <1>6, <1>7, <1>8, <1>9, <1>10, <1>11, <1>12, <1>13, <1>14, <1>15, <1>16
     DEF Next, ManagerStep, TimerStep, UserStep

-----------------------------------------------------------------------------
(* The theorems.                                                           *)

\* The initial state satisfies the invariant.
LEMMA IInvInit == Init => IInv
<1> SUFFICES ASSUME Init PROVE IInv
  OBVIOUS
<1>1. Phases
  BY DEF Init, Phases
<1>2. \A r \in Ids : mutex[r] = <<>> /\ manager[r] = "none" /\ life[r] = "none" /\ owed[r] = {}
  BY DEF Init
<1>3. Members /\ Kept
  BY <1>2, ToSetEmpty DEF Members, Member, Kept, KeptBy, Alive
<1>6. Rotations
  <2>1. \A j \in Rotators : of[j] \in Ids
    BY TypeInit DEF TypeOK
  <2> QED
    BY <1>2, <2>1, ToSetEmpty DEF Rotations, Rotation, Once
<1>4. \A c \in Calls : call[c] = "idle" /\ cleared[c] = {} /\ target[c] \in Ids
  BY RevokerAssumption DEF Init
<1>5. Clearing
  BY <1>2, <1>4, ToSetEmpty DEF Clearing, Clears, InOrder
<1> QED
  BY <1>1, <1>3, <1>5, <1>6, TypeInit DEF IInv

\* The invariant is inductive.
THEOREM Inductive == Spec => []IInv
<1>1. IInv /\ [Next]_vars => IInv'
  BY TypeStep, PhasesStep, MembersStep, RotationsStep, KeptStep, ClearingStep DEF IInv
<1> QED
  BY <1>1, IInvInit, PTL DEF Spec

\* Every variable keeps its type, whatever is created, used and destroyed when.
THEOREM TypeCorrect == Spec => []TypeOK
<1>1. IInv => TypeOK
  BY DEF IInv
<1> QED
  BY <1>1, Inductive, PTL

\* As long as a revoker is in use, it is registered, its manager is there and the
\* server listens: whoever else leaves.
THEOREM ServedHolds == Spec => []Served
<1>1. IInv => Served
  BY DEF IInv, Phases, Members, Member, Served, InUse
<1> QED
  BY <1>1, Inductive, PTL

\* A failed bind, and the last revoker that leaves, give the next createRevoker a
\* fresh start.
THEOREM CanRetryHolds == Spec => []CanRetry
<1>1. IInv => CanRetry
  BY DEF IInv, Phases, CanRetry
<1> QED
  BY <1>1, Inductive, PTL

\* A revoker that has left has no live manager.
THEOREM NoLeakHolds == Spec => []NoLeak
<1>1. IInv => NoLeak
  BY DEF IInv, Members, Member, NoLeak, Alive
<1> QED
  BY <1>1, Inductive, PTL

\* A middleware lets no request through that carries a token that is owed, whichever of
\* its claims it is: through rotations of any number of managers of this id, live or
\* destroyed, that interleave with resets and with each other, and whichever backup fails.
THEOREM RefusedHolds == Spec => []Refused
<1>1. IInv => Refused
  <2> SUFFICES ASSUME IInv, NEW r \in Ids, NEW claims \in Requests, Alive(r),
                      NEW i \in DOMAIN claims, claims[i] \in owed[r]
               PROVE  Reply(r, claims) # "next"
    BY DEF Refused
  <2>1. Has(r, claims[i])
    BY DEF IInv, Kept, KeptBy, Has
  <2>2. i \in {k \in DOMAIN claims : Rejects(r, claims[k])}
    BY <2>1 DEF Rejects
  <2> QED
    BY <2>2 DEF Reply
<1> QED
  BY <1>1, Inductive, PTL

\* What a ResetAndClearData has removed is in no filter afterwards, through any
\* rotations, resets and restarts, for any number of calls that overlap.
THEOREM ClearClearsHolds == Spec => []ClearClears
<1>1. IInv => ClearClears
  <2> SUFFICES ASSUME IInv, NEW c \in Calls, call[c] = "ok"
               PROVE  cleared[c] \cap content[target[c]] = {}
    BY DEF ClearClears
  <2>1. Clears(c) /\ target[c] \in Ids
    BY DEF IInv, Clearing, TypeOK
  <2> QED
    BY <2>1 DEF Clears
<1> QED
  BY <1>1, Inductive, PTL
=============================================================================
