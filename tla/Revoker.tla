------------------------------- MODULE Revoker -------------------------------
(***************************************************************************)
(* The revokers of one process and the gRPC admin server that they share:  *)
(* the first that is created starts it, the last that leaves stops it, and *)
(* its handlers act on the managers of the others in between.              *)
(*                                                                         *)
(* One revoker at a time has an id.  The filter manager is                 *)
(* BloomFilterManager.tla at a coarser grain: its content, its files, and  *)
(* the queue of its mutex, whose head holds it.  A rotation outlives the   *)
(* manager that it belongs to.  Tokens do not get old here; there is no    *)
(* periodic backup, and no write buffer.                                   *)
(***************************************************************************)
EXTENDS Integers, Sequences, FiniteSets, SequencesExt

CONSTANTS
    Ids,          \* of revokers
    Tokens,
    Calls,        \* the resets that clients make
    Rotators,     \* bound on the rotations that are under way together
    MaxCreations, \* bound on the calls of createRevoker
    MaxFaults     \* bound on the binds and the backups that fail

ASSUME RevokerAssumption ==
    /\ Ids # {} /\ "null" \notin Ids
    /\ {MaxCreations, MaxFaults} \subseteq Nat
    /\ "none" \notin Tokens
    /\ "shutdown" \notin Calls \cup Rotators /\ Calls \cap Rotators = {}

VARIABLES
    \* The variables of index.ts, revokerStore.ts and std-server.ts.
    instancesMap,          \* the ids registered, or NoMap
    grpcServerStarted,
    grpcServerInitPromise, \* "null", "pending", "resolved"
    server,                \* "off", "binding", "listening", "stopping"
    \* The revokers.
    life,    \* "none", "starting" (awaits the server), "ready", "draining" (shutdown()
             \* awaits the manager), "stopping" (the last one awaits stopServer)
    manager, \* "none" (there is none, or it is destroyed), "live", "shutting"
    content, \* what its filters hold
    mutex,   \* rotations, calls, "shutdown"
    \* The files of the revokers.
    blobCurrent,  \* or NoBlob
    blobPrevious, log,
    \* The rotations.
    step,    \* "idle", "waiting" (for the mutex), "writing" (the temporary blob),
             \* "renamed" (to blobCurrent; truncates the log)
    of,      \* the revoker of the rotation
    copy,    \* what it writes
    \* The clients.
    call,    \* "idle", "waiting", "late" (the manager it waited for is destroyed),
             \* "ok", "timeout"
    target,  \* the revoker of the call
    owed,    \* observation: the tokens whose Add was answered while no rotation was
             \* saving, or that a rotation saved later, and that were not cleared since
    cleared, \* observation: what a ResetAndClearData is to remove
    orphans, \* observation: ids with a rotation timer that nothing can stop
    creations, faults

globals == <<instancesMap, grpcServerStarted, grpcServerInitPromise, server>>
managers == <<manager, content, mutex>>
files == <<blobCurrent, blobPrevious, log>>
rotations == <<step, of, copy>>
clients == <<call, target, owed, cleared>>
vars == <<globals, life, managers, files, rotations, clients, orphans, creations, faults>>

NoMap == {"null"}
NoBlob == {"none"}

Fault ==
    /\ faults < MaxFaults
    /\ faults' = faults + 1

-----------------------------------------------------------------------------
(* The manager.                                                            *)

Alive(r) == manager[r] # "none"

\* has(): a destroyed manager holds nothing, and says so.
Has(r, t) == Alive(r) /\ t \in content[r]

Holds(r, task) == mutex[r] # <<>> /\ Head(mutex[r]) = task

\* What a restore reads.
Files(r) == (blobCurrent[r] \ NoBlob) \cup blobPrevious[r] \cup log[r]

\* destroy().  The resets that wait for the mutex are not refused: they run on the
\* destroyed manager, and start its rotation timer again.  A rotation that waits finds
\* no backup manager; one that has the mutex goes on writing the files, those of the
\* next revoker with this id included.
DestroyManagers(rs) ==
    LET Waiting(r) == Calls \cap ToSet(mutex[r])
    IN  /\ manager' = [r \in Ids |-> IF r \in rs THEN "none" ELSE manager[r]]
        /\ content' = [r \in Ids |-> IF r \in rs THEN {} ELSE content[r]]
        /\ mutex' = [r \in Ids |-> IF r \in rs THEN <<>> ELSE mutex[r]]
        /\ step' = [j \in Rotators |-> IF of[j] \in rs /\ step[j] = "waiting" THEN "idle"
                                                                            ELSE step[j]]
        /\ orphans' = orphans \cup {r \in rs : Waiting(r) # {}}
        /\ call' = [c \in Calls |-> IF call[c] = "waiting" /\ \E r \in rs : c \in Waiting(r)
                                    THEN "late" ELSE call[c]]
        /\ UNCHANGED <<files, of, copy>>

Enqueue(r, task) == mutex' = [mutex EXCEPT ![r] = Append(@, task)]
Release(r) == mutex' = [mutex EXCEPT ![r] = Tail(@)]

Advance(j, to) == step' = [step EXCEPT ![j] = to]

\* The rotations that write files of r, or are about to truncate its log.
Saving(r) == {j \in Rotators : of[j] = r /\ step[j] \in {"writing", "renamed"}}

\* The rotation timer, or rotateOnDemand().
RotateBegin(j, r) ==
    /\ step[j] = "idle"
    /\ Alive(r)
    /\ Enqueue(r, j)
    /\ Advance(j, "waiting")
    /\ of' = [of EXCEPT ![j] = r]
    /\ UNCHANGED <<globals, life, manager, content, files, copy, clients, orphans, creations,
                   faults>>

\* It has the mutex: backupRotate saves the filter.
RotateSave(j) ==
    /\ step[j] = "waiting"
    /\ Holds(of[j], j)
    /\ Advance(j, "writing")
    /\ copy' = [copy EXCEPT ![j] = content[of[j]]]
    /\ UNCHANGED <<globals, life, managers, files, of, clients, orphans, creations, faults>>

\* The blob is renamed to its place.
RotateRename(j) ==
    /\ step[j] = "writing"
    /\ Advance(j, "renamed")
    /\ blobCurrent' = [blobCurrent EXCEPT ![of[j]] = copy[j]]
    /\ UNCHANGED <<globals, life, managers, blobPrevious, log, of, copy, clients, orphans,
                   creations, faults>>

\* release(): a rotation of a destroyed manager has a mutex that nobody else asks for.
RotateRelease(j) == IF Holds(of[j], j) THEN Release(of[j]) ELSE UNCHANGED mutex

\* The log is truncated, and the blob, if it is still there, becomes the previous one.
\* A token that is in it is safe from now on, unless another rotation is saving.
RotateEnd(j) ==
    LET r == of[j]
    IN  /\ step[j] = "renamed"
        /\ Advance(j, "idle")
        /\ log' = [log EXCEPT ![r] = {}]
        /\ IF blobCurrent[r] # NoBlob
           THEN /\ blobPrevious' = [blobPrevious EXCEPT ![r] = blobCurrent[r]]
                /\ blobCurrent' = [blobCurrent EXCEPT ![r] = NoBlob]
           ELSE UNCHANGED <<blobPrevious, blobCurrent>>
        /\ owed' = [owed EXCEPT ![r] =
              IF Saving(r) = {j} THEN @ \cup (blobPrevious'[r] \cap content[r]) ELSE @]
        /\ copy' = [copy EXCEPT ![j] = {}]
        /\ RotateRelease(j)
        /\ UNCHANGED <<globals, life, manager, content, of, call, target, cleared, orphans,
                       creations, faults>>

\* The backup fails before its rename or its truncation; the rotation does not.
RotateFails(j) ==
    /\ step[j] \in {"writing", "renamed"}
    /\ Fault
    /\ Advance(j, "idle")
    /\ copy' = [copy EXCEPT ![j] = {}]
    /\ RotateRelease(j)
    /\ UNCHANGED <<globals, life, manager, content, files, of, clients, orphans, creations>>

RotateStep(j) == RotateSave(j) \/ RotateRename(j) \/ RotateEnd(j) \/ RotateFails(j)

-----------------------------------------------------------------------------
(* createRevoker.                                                          *)

\* The constructor: a manager, with what its files hold.
NewManager(r) ==
    /\ manager' = [manager EXCEPT ![r] = "live"]
    /\ content' = [content EXCEPT ![r] = Files(r)]
    /\ UNCHANGED mutex

Creation(r) ==
    /\ life[r] = "none"
    /\ creations < MaxCreations
    /\ creations' = creations + 1
    /\ UNCHANGED <<files, rotations, clients, faults>>

\* The server is started: register.
CreateRegistered(r) ==
    /\ Creation(r)
    /\ grpcServerStarted /\ instancesMap # NoMap
    /\ instancesMap' = instancesMap \cup {r}
    /\ life' = [life EXCEPT ![r] = "ready"]
    /\ NewManager(r)
    /\ UNCHANGED <<grpcServerStarted, grpcServerInitPromise, server, orphans>>

\* It is being stopped: registerInstance throws, outside the try, and nobody
\* destroys the new manager.
CreateRejected(r) ==
    /\ Creation(r)
    /\ grpcServerStarted /\ instancesMap = NoMap
    /\ orphans' = orphans \cup {r}
    /\ UNCHANGED <<globals, life, managers>>

\* Mutant: the store is not initialized before the server is started.
CreateAwaitingWithoutStore(r) ==
    /\ Creation(r)
    /\ ~grpcServerStarted
    /\ IF grpcServerInitPromise = "null"
       THEN server' = "binding" /\ grpcServerInitPromise' = "pending"
       ELSE UNCHANGED <<server, grpcServerInitPromise>>
    /\ life' = [life EXCEPT ![r] = "starting"]
    /\ NewManager(r)
    /\ UNCHANGED <<instancesMap, grpcServerStarted, orphans>>

\* The first starts the server, the others await the same promise.  init() throws
\* if there is a map.
CreateAwaiting(r) ==
    /\ Creation(r)
    /\ ~grpcServerStarted
    /\ IF grpcServerInitPromise = "null"
       THEN /\ instancesMap = NoMap
            /\ instancesMap' = {}
            /\ server' = "binding"
            /\ grpcServerInitPromise' = "pending"
       ELSE UNCHANGED <<instancesMap, server, grpcServerInitPromise>>
    /\ life' = [life EXCEPT ![r] = "starting"]
    /\ NewManager(r)
    /\ UNCHANGED <<grpcServerStarted, orphans>>

Starting == {r \in Ids : life[r] = "starting"}

\* bindAsync calls back, and all that wait register in the same turn.
Bound ==
    /\ server = "binding"
    /\ server' = "listening"
    /\ grpcServerStarted' = TRUE
    /\ grpcServerInitPromise' = "resolved"
    /\ instancesMap' = instancesMap \cup Starting
    /\ life' = [r \in Ids |-> IF r \in Starting THEN "ready" ELSE life[r]]
    /\ UNCHANGED <<managers, files, rotations, clients, orphans, creations, faults>>

\* Mutant: the store of a server that did not start is left as it is.
BindFailsKeepingStore ==
    /\ server = "binding"
    /\ Fault
    /\ server' = "off"
    /\ grpcServerInitPromise' = "null"
    /\ life' = [r \in Ids |-> IF r \in Starting THEN "none" ELSE life[r]]
    /\ DestroyManagers(Starting)
    /\ UNCHANGED <<instancesMap, grpcServerStarted, target, owed, cleared, creations>>

\* Mutant: the managers of the revokers that waited live on.
BindFailsLeaking ==
    /\ server = "binding"
    /\ Fault
    /\ server' = "off"
    /\ grpcServerInitPromise' = "null"
    /\ instancesMap' = NoMap
    /\ life' = [r \in Ids |-> IF r \in Starting THEN "none" ELSE life[r]]
    /\ UNCHANGED <<grpcServerStarted, managers, files, rotations, clients, orphans, creations>>

\* The bind fails, or is refused: each that waits cleans up, the first of them the
\* store.
BindFails ==
    /\ server = "binding"
    /\ Fault
    /\ server' = "off"
    /\ grpcServerInitPromise' = "null"
    /\ instancesMap' = NoMap
    /\ life' = [r \in Ids |-> IF r \in Starting THEN "none" ELSE life[r]]
    /\ DestroyManagers(Starting)
    /\ UNCHANGED <<grpcServerStarted, target, owed, cleared, creations>>

-----------------------------------------------------------------------------
(* shutdown(), destroy().                                                  *)

\* Mutant: any revoker that leaves stops the server.
CleanupGrpcAlways(r) ==
    /\ instancesMap' = NoMap /\ server' = "stopping"
    /\ life' = [life EXCEPT ![r] = "stopping"]
    /\ UNCHANGED <<grpcServerStarted, grpcServerInitPromise>>

\* #cleanupGrpc: the last one stops the server, and waits for that.
CleanupGrpc(r) ==
    /\ IF instancesMap = {r}
       THEN /\ instancesMap' = NoMap /\ server' = "stopping"
            /\ life' = [life EXCEPT ![r] = "stopping"]
       ELSE /\ instancesMap' = instancesMap \ {r} /\ UNCHANGED server
            /\ life' = [life EXCEPT ![r] = "none"]
    /\ UNCHANGED <<grpcServerStarted, grpcServerInitPromise>>

Shutdown(r) ==
    /\ life[r] = "ready"
    /\ life' = [life EXCEPT ![r] = "draining"]
    /\ manager' = [manager EXCEPT ![r] = "shutting"]
    /\ Enqueue(r, "shutdown")
    /\ UNCHANGED <<globals, content, files, rotations, clients, orphans, creations, faults>>

\* The manager has its mutex and is destroyed.  A destroy() in between has
\* cleaned up already.
ShutdownDone(r) ==
    /\ Holds(r, "shutdown")
    /\ DestroyManagers({r})
    /\ IF life[r] = "draining" THEN CleanupGrpc(r) ELSE UNCHANGED <<globals, life>>
    /\ UNCHANGED <<target, owed, cleared, creations, faults>>

\* The last one destroys its manager after the server has stopped.
Destroy(r) ==
    /\ life[r] \in {"ready", "draining"}
    /\ CleanupGrpc(r)
    /\ IF life'[r] = "none" THEN DestroyManagers({r})
                            ELSE UNCHANGED <<managers, files, rotations, orphans, call>>
    /\ UNCHANGED <<target, owed, cleared, creations, faults>>

\* stopServer(): when every call is answered, or by force after five seconds.
ServerStopped ==
    /\ server = "stopping"
    /\ server' = "off"
    /\ grpcServerStarted' = FALSE
    /\ grpcServerInitPromise' = "null"
    /\ life' = [r \in Ids |-> IF life[r] = "stopping" THEN "none" ELSE life[r]]
    /\ DestroyManagers({r \in Ids : life[r] = "stopping"})
    /\ UNCHANGED <<instancesMap, target, owed, cleared, creations, faults>>

-----------------------------------------------------------------------------
(* The handlers of the admin service.                                      *)

\* findInstance, for a call that the server accepts.
Found(r) == server = "listening" /\ r \in instancesMap /\ Alive(r)

\* Add: appended to the log, then to the filter; one that is shutting down refuses.
\* A rotation that is writing this filter may write the token, too.
Add(r, t) ==
    /\ Found(r)
    /\ manager[r] = "live"
    /\ log' = [log EXCEPT ![r] = @ \cup {t}]
    /\ content' = [content EXCEPT ![r] = @ \cup {t}]
    /\ LET Writing(j) == step[j] = "writing" /\ of[j] = r /\ Holds(r, j)
       IN  copy' \in {copy, [j \in Rotators |-> IF Writing(j) THEN copy[j] \cup {t} ELSE copy[j]]}
    /\ owed' = [owed EXCEPT ![r] = IF Saving(r) = {} THEN @ \cup {t} ELSE @]
    /\ cleared' = [c \in Calls |-> IF target[c] = r THEN cleared[c] \ {t} ELSE cleared[c]]
    /\ UNCHANGED <<globals, life, manager, mutex, blobCurrent, blobPrevious, step, of, call,
                   target, orphans, creations, faults>>

Reset(c, r) ==
    /\ Found(r)
    /\ call[c] = "idle"
    /\ call' = [call EXCEPT ![c] = "waiting"]
    /\ target' = [target EXCEPT ![c] = r]
    /\ Enqueue(r, c)

ResetAndRestore(c, r) ==
    /\ Reset(c, r)
    /\ UNCHANGED <<globals, life, manager, content, files, rotations, owed, cleared, orphans,
                   creations, faults>>

\* The files are deleted before the mutex is asked for; a rotation that is under way,
\* or before the reset, writes them again.
ResetAndClearData(c, r) ==
    /\ Reset(c, r)
    /\ blobCurrent' = [blobCurrent EXCEPT ![r] = NoBlob]
    /\ blobPrevious' = [blobPrevious EXCEPT ![r] = {}]
    /\ log' = [log EXCEPT ![r] = {}]
    /\ owed' = [owed EXCEPT ![r] = {}]
    /\ cleared' = [cleared EXCEPT ![c] =
          IF \E j \in Rotators : of[j] = r /\ step[j] # "idle" THEN {} ELSE content[r]]
    /\ UNCHANGED <<globals, life, manager, content, rotations, orphans, creations, faults>>

\* Mutant: the reset starts from empty filters, and reads no file.
ResetRunUnrestored(c) ==
    LET r == target[c]
    IN  /\ Holds(r, c)
        /\ content' = [content EXCEPT ![r] = {}]
        /\ Release(r)
        /\ call' = [call EXCEPT ![c] = IF @ = "waiting" THEN "ok" ELSE @]
        /\ UNCHANGED <<globals, life, manager, files, rotations, target, owed, cleared,
                       orphans, creations, faults>>

\* Mutant: the filters are not emptied before the files are read.
ResetRunMerging(c) ==
    LET r == target[c]
    IN  /\ Holds(r, c)
        /\ content' = [content EXCEPT ![r] = @ \cup Files(r)]
        /\ Release(r)
        /\ call' = [call EXCEPT ![c] = IF @ = "waiting" THEN "ok" ELSE @]
        /\ UNCHANGED <<globals, life, manager, files, rotations, target, owed, cleared,
                       orphans, creations, faults>>

\* Mutant: a reset whose call has timed out does not go on, and keeps the mutex.
ResetRunIfAwaited(c) ==
    LET r == target[c]
    IN  /\ Holds(r, c)
        /\ call[c] = "waiting"
        /\ content' = [content EXCEPT ![r] = Files(r)]
        /\ Release(r)
        /\ call' = [call EXCEPT ![c] = "ok"]
        /\ UNCHANGED <<globals, life, manager, files, rotations, target, owed, cleared,
                       orphans, creations, faults>>

\* The reset has the mutex: it restores the files, and answers if nothing has.
ResetRun(c) ==
    LET r == target[c]
    IN  /\ Holds(r, c)
        /\ content' = [content EXCEPT ![r] = Files(r)]
        /\ Release(r)
        /\ call' = [call EXCEPT ![c] = IF @ = "waiting" THEN "ok" ELSE @]
        /\ UNCHANGED <<globals, life, manager, files, rotations, target, owed, cleared,
                       orphans, creations, faults>>

\* Mutant: nothing is answered for a revoker that is gone.
AnswerForInstance(c, reply) ==
    /\ Alive(target[c])
    /\ call' = [call EXCEPT ![c] = reply]
    /\ UNCHANGED <<globals, life, managers, files, rotations, target, owed, cleared, orphans,
                   creations, faults>>

Answer(c, reply) ==
    /\ call' = [call EXCEPT ![c] = reply]
    /\ UNCHANGED <<globals, life, managers, files, rotations, target, owed, cleared, orphans,
                   creations, faults>>

\* The race against five seconds: the reset itself goes on.
ResetTimeout(c) == call[c] \in {"waiting", "late"} /\ Answer(c, "timeout")

\* The reset has run on the destroyed manager.
ResetLate(c) == call[c] = "late" /\ Answer(c, "ok")

-----------------------------------------------------------------------------

Init ==
    /\ instancesMap = NoMap /\ grpcServerStarted = FALSE /\ grpcServerInitPromise = "null"
    /\ server = "off"
    /\ life = [r \in Ids |-> "none"] /\ manager = [r \in Ids |-> "none"]
    /\ content = [r \in Ids |-> {}] /\ mutex = [r \in Ids |-> <<>>]
    /\ blobCurrent = [r \in Ids |-> NoBlob] /\ blobPrevious = [r \in Ids |-> {}]
    /\ log = [r \in Ids |-> {}]
    /\ step = [j \in Rotators |-> "idle"] /\ copy = [j \in Rotators |-> {}]
    /\ of = [j \in Rotators |-> CHOOSE r \in Ids : TRUE]
    /\ call = [c \in Calls |-> "idle"] /\ target = [c \in Calls |-> CHOOSE r \in Ids : TRUE]
    /\ owed = [r \in Ids |-> {}] /\ cleared = [c \in Calls |-> {}]
    /\ orphans = {} /\ creations = 0 /\ faults = 0

ServerStep == Bound \/ BindFails \/ ServerStopped

ManagerStep ==
    \/ \E j \in Rotators : RotateStep(j)
    \/ \E r \in Ids : ShutdownDone(r)
    \/ \E c \in Calls : ResetRun(c)

TimerStep == \E c \in Calls : ResetTimeout(c) \/ ResetLate(c)

UserStep ==
    \E r \in Ids :
        \/ CreateRegistered(r) \/ CreateRejected(r) \/ CreateAwaiting(r)
        \/ Shutdown(r) \/ Destroy(r)
        \/ \E j \in Rotators : RotateBegin(j, r)
        \/ \E t \in Tokens : Add(r, t)
        \/ \E c \in Calls : ResetAndRestore(c, r) \/ ResetAndClearData(c, r)

Next == ServerStep \/ ManagerStep \/ TimerStep \/ UserStep

\* The server calls back, what holds a mutex ends, and timers fire.  Nobody has
\* to create a revoker, to use it or to shut it down.
Fairness ==
    /\ WF_vars(ServerStep)
    /\ \A j \in Rotators : WF_vars(RotateStep(j))
    /\ \A r \in Ids : WF_vars(ShutdownDone(r))
    /\ \A c \in Calls : WF_vars(ResetRun(c)) /\ WF_vars(ResetTimeout(c) \/ ResetLate(c))

Spec == Init /\ [][Next]_vars /\ Fairness

-----------------------------------------------------------------------------
(* The middlewares.                                                        *)

\* A request carries its claims in the order in which they are checked, or its
\* one token; Missing stands for one that it lacks.
Missing == "missing"

Rejects(r, claim) == claim = Missing \/ Has(r, claim)

\* The status, or "next": the first claim that is rejected decides.
Reply(r, claims) ==
    LET bad == {i \in DOMAIN claims : Rejects(r, claims[i])}
    IN  IF bad = {} THEN "next"
        ELSE LET first == CHOOSE i \in bad : \A j \in bad : i <= j
             IN  IF claims[first] = Missing THEN "400" ELSE "401"

Requests == UNION {[1..n -> Tokens \cup {Missing}] : n \in 1..2}

-----------------------------------------------------------------------------
(* Properties.                                                             *)

TypeOK ==
    /\ instancesMap = NoMap \/ instancesMap \subseteq Ids
    /\ grpcServerStarted \in BOOLEAN
    /\ grpcServerInitPromise \in {"null", "pending", "resolved"}
    /\ server \in {"off", "binding", "listening", "stopping"}
    /\ life \in [Ids -> {"none", "starting", "ready", "draining", "stopping"}]
    /\ manager \in [Ids -> {"none", "live", "shutting"}]
    /\ {content, blobPrevious, log, owed} \subseteq [Ids -> SUBSET Tokens]
    /\ blobCurrent \in [Ids -> {NoBlob} \cup SUBSET Tokens]
    /\ mutex \in [Ids -> Seq({"shutdown"} \cup Calls \cup Rotators)]
    /\ step \in [Rotators -> {"idle", "waiting", "writing", "renamed"}]
    /\ of \in [Rotators -> Ids]
    /\ copy \in [Rotators -> SUBSET Tokens]
    /\ call \in [Calls -> {"idle", "waiting", "late", "ok", "timeout"}]
    /\ target \in [Calls -> Ids]
    /\ cleared \in [Calls -> SUBSET Tokens]
    /\ orphans \subseteq Ids
    /\ creations \in 0..MaxCreations /\ faults \in 0..MaxFaults

\* README of the core: the server stops with the last instance.  As long as one
\* revoker is in use, whoever else comes, fails to come, or leaves, it is
\* registered, its manager is there, and the server listens.
Served ==
    \A r \in Ids : life[r] \in {"ready", "draining"} =>
        r \in instancesMap /\ Alive(r) /\ grpcServerStarted /\ server = "listening"

\* Comment of _grpcInit: after a failed bind, or the last revoker, the next
\* createRevoker starts afresh "instead of failing forever".
CanRetry ==
    /\ (~grpcServerStarted /\ grpcServerInitPromise = "null") => instancesMap = NoMap
    /\ (\A r \in Ids : life[r] = "none") =>
        server = "off" /\ ~grpcServerStarted /\ grpcServerInitPromise = "null"

\* A revoker that createRevoker has not returned, or that has left, has no live
\* manager: no timers, and no files of its own.  (orphans are those that the code
\* misses.)
NoLeak == \A r \in Ids : Alive(r) => life[r] # "none"

\* The middlewares let no request through that carries a token whose revocation
\* was answered, across resets, rotations, failed backups and restarts of the revoker,
\* with a rotation of a destroyed manager still writing the files; as long as its
\* manager is not destroyed.  A token that is added while a rotation saves is truncated
\* from the log without being in the blob: it is refused until a reset or a restart.
Refused ==
    \A r \in Ids : \A claims \in Requests :
        (Alive(r) /\ \E i \in DOMAIN claims : claims[i] \in owed[r]) =>
            Reply(r, claims) # "next"

\* A ResetAndClearData that has answered "deleted" has removed everything from
\* before, unless a rotation was under way, one of a destroyed manager included.
ClearClears ==
    \A c \in Calls : call[c] = "ok" => cleared[c] \cap content[target[c]] = {}

\* Comment of stopServer and of shutdown(): both end, whatever rotates and resets.
ShutdownEnds ==
    \A r \in Ids :
        (life[r] \in {"starting", "draining", "stopping"}) ~> (life[r] \in {"ready", "none"})

\* A reset is answered, also when its manager is destroyed under it.
ResetAnswered ==
    \A c \in Calls : (call[c] = "waiting") ~> (call[c] \in {"ok", "timeout"})
=============================================================================
