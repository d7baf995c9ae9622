# A TLA+ verification of token-revoker

The repository revokes tokens (JWT ids, opaque tokens) before they expire. A
*revoker* keeps revoked tokens in two Bloom filters that rotate, and writes
them to disk so that a restart loses none. A *coordinator* turns one revoker
into the writer of a cluster: it numbers the revocations in a canonical log and
sends them to *nodes*, each of which wraps a revoker of its own. The one thing
the system must not do is forget a revocation too early.

This directory holds the TLA+ modules, the TLC configurations and the TLAPS
proofs about that code. Paths are relative to the repository; `core`,
`server`, `node` stand for `packages/<name>/src`.

## 1. Inventory

| Component | Source | State | Operations | Talks to |
| --- | --- | --- | --- | --- |
| Bloom filter | `core/bloomfilter.ts`, `BloomFilterFactory.ts` | buckets, k | add, test, union, intersection | - |
| BloomFilterManager | `core/Bloom-filter-manager.ts` | current, previous, insertion counter, rotation interval, mutex, shutting-down flag | add, applyEntry, has, rotations (interval, on demand), two resets, shutdown, destroy | calls the backup manager; calls back `onRotation` |
| BloomFilterBackupManager | `core/BloomFilterBackupManager.ts` | two blobs, a temporary blob, the log, write buffer, backup interval, generation, file mutex | backupItem, flush, periodic backup with retries, backupRotate, restore, delete | the file system |
| Revoker, revokerStore | `core/index.ts`, `revokerStore.ts` | instances by id, the shared gRPC server | create, reset, shutdown, destroy | manager, gRPC server |
| Admin gRPC | `core/grpc/*.ts` | server, per-call time limits | add, has, reset, metrics | revokerStore |
| Middlewares | `core/createMiddlewares.ts` | none | decide on one request | manager |
| CanonicalWal | `server/canonicalWal.ts` | one file per generation, next LSN, generation, highest deleted LSN | append, scan, readSince, retention | the file system |
| Meta | `server/meta.ts` | the checkpoint file | read, atomic write | the file system |
| Coordinator | `server/coordinator.ts` | checkpoint in memory, ready and shutting-down flags | init, add, rotation hook, getSnapshot, readSince, shutdown | revoker, CanonicalWal, Meta, DistributedServer |
| DistributedServer, NodeRegistry | `server/distributedServer.ts`, `nodeRegistry.ts` | a write chain per node, cursors, heartbeats | Add, GetSnapshot, Subscribe, PollDeltas, broadcast, stop | coordinator, nodes |
| SyncEngine, CoordinatorClient | `node/syncEngine.ts`, `coordinatorClient.ts` | stream, timers, applied LSN | subscribe, poll, watchdog, apply, rebootstrap | DistributedServer, RevokerNode |
| RevokerNode, StateFile | `node/revokerNode.ts`, `stateFile.ts` | revoker, state file, admission gate | bootstrap, apply, rotate, shutdown | SyncEngine, core revoker |

What is hard, and where:

- **Awaits inside one process.** JavaScript has no data races, but the backup
  of a filter, a flush, a rotation and a reset each cross awaits, and adds,
  timers and other callers run in between (two mutexes, a generation counter
  and an interval handle are all that order them).
- **Crashes.** Any two disk operations have a crash between them; four files of
  a revoker, and the log and the checkpoint of the coordinator, have to fit
  together afterwards.
- **Partial failures.** Appends stop half way, a rotation's backup fails, the
  checkpoint cannot be written, the local apply of a numbered entry fails.
- **Distribution.** Streams break and overlap with polls; snapshots are taken
  while the coordinator rotates; rotations are delivered again.

What makes each component correct: the revoker covers every acknowledged token
for two windows and evicts it afterwards, whatever happens to the disk; exactly
one rotation schedule is alive; nobody waits for ever on the mutexes. The
buffer keeps a token until it is written. The coordinator never gives one LSN
to two events, retains every event a node may ask for, and hands out snapshots
that together with the log's tail miss nothing. A node applies the canonical
log in order, without gaps, and rotates once per marker; the gate is shut while
that is not known to hold.

`PROJECT.json` lists the hazards with their lines, and which property covers which.

## 2. Modules

| Module | Models | Used by |
| --- | --- | --- |
| `BloomFilterManager` | manager and backup manager, synchronous log | `MCBloomFilterManager`, `BloomFilterManagerProofs` |
| `MCBloomFilterManager` | budgets and symmetry for TLC | the `bfm_*` runs |
| `BloomFilterManagerProofs` | inductive invariant, theorems, proofs | TLAPS |
| `WriteBuffer` | the buffered mode of the backup manager | the `write_buffer*` runs, `WriteBufferProofs` |
| `WriteBufferProofs` | inductive invariant, theorems, proofs | TLAPS |
| `Coordinator` | CanonicalWal, Meta, Coordinator | `MCCoordinator`, the `coordinator_*` runs, `CoordinatorProofs` |
| `MCCoordinator` | symmetry for TLC | the `coordinator` run |
| `CoordinatorProofs` | inductive invariant, theorems, proofs | TLAPS |
| `ReplicatedLog` | what replication promises of one node (abstract) | the refinement in `RevokerNode` |
| `DistributedServer` | Subscribe, PollDeltas, GetSnapshot, the registry, the network; the coordinator, coarsely | `SyncEngine` |
| `SyncEngine` | stream, polls, watchdog, apply chain | `RevokerNode` |
| `RevokerNode` | bootstrap, gate, state file, crashes; the composition of the four | the `cluster` run, `RevokerNodeProofs` |
| `DistributedServerProofs` | lemmas about the log's operators and the stream | `RevokerNodeProofs` |
| `RevokerNodeProofs` | inductive invariant of the composition, theorems, proofs | TLAPS, `ReplicationProofs` |
| `ReplicationProofs` | the refinement of `ReplicatedLog` | TLAPS |
| `Revoker` | createRevoker, the shared admin server, its handlers, the middlewares | the `revoker` run, `RevokerProofs` |
| `RevokerProofs` | inductive invariant, theorems, proofs | TLAPS |
| `Extremes` | least and greatest element of a set of naturals | the proofs about LSNs |

### BloomFilterManager

A filter is the exact set of its items. A Bloom filter has no false negatives,
and false positives could only hide a loss, so this is the right abstraction
for "a token must still be reported".

| Variables | Code |
| --- | --- |
| `current`, `previous`, `insertions` | the fields of the manager |
| `timers`, `handle` | live rotation intervals, and whether `rotationInterval` names one: an interval without a handle cannot be stopped |
| `generation`, `backupGen` | `#generation`, and the value the backup interval's closure captured |
| `phase`, `gen`, `tries` | where each asynchronous job is, the generation it carries, its attempts |
| `aliased`, `frozen` | which filter object a job holds: still the current one, or one that was replaced |
| `blobCur`, `blobPrev`, `tmp`, `wal`, `walTorn` | the files |
| `age`, `atRisk`, `budget` | observations: rotations since a token was acknowledged, acknowledgements that a crash may undo, bounds |

An action is what the event loop runs between two awaits that let another event
in. A backup goes through `queued` (waits for the file mutex), `locked` (writes
the blob), `written`, `renamed`, `truncated`; a rotation waits for the
manager's mutex first (`waiting`), raises the generation, goes through the same
disk steps, then promotes the blob and swaps the filters. The write of the blob
shares the filter's memory, so a token added meanwhile may or may not be in it
(`WriteBlob`). Every disk step may fail where `Faults` says so: a periodic
backup sleeps and retries, a rotation goes on in memory.

`atRisk` names the tokens whose acknowledgement the code does not back: added
while a backup that does not contain them is about to truncate the log, joined
to a torn line, or in a filter whose rotation backup failed. `Durable` and
`Coverage` are about all the others, and `NoLossWindow` is the claim of the
documentation that the set is empty.

### WriteBuffer

`Add` pushes to the array (`Push`) unless it is full. `FlushTick` joins the array and
starts an append, `AppendDone` is the append reaching the file, `FlushDone` the
continuation that assigns a new array, `FlushFails` the append that fails after some
whole lines and perhaps a part of the next. `Write` is what a restore finds of lines
that are appended: behind a torn line the first one is joined to it, and neither is
read. The periodic backup is `BackupStart`, `BackupRename` and `BackupTruncate`, with
pushes and flushes between them, and `BackupFails` at each; it saves the filter that it
captured, and what was added while it wrote in part; its retries go on after
`destroy()`, and `shutdown()` does not wait for it. Flushes of the interval may overlap
with each other and with that of `shutdown()`.

`exempt` collects the tokens that the code does not keep: pushed while an append or a
backup was under way (the array is replaced under them, or the log truncated), or
written behind a torn line. `NoTokenDropped` is the claim of the code's comment that
there are none. A token leaves the set when a blob has it.

### Coordinator

The log is a set of events with their file (generation); `torn` says that the
current file ends in half a line. `Event`, `Line`, `ReadSince`, `Retired`,
`CanServeFrom` are the functions of CanonicalWal. `Add` and its three failing
variants are the paths of `add()`; a failed append may have written a part of its line
(`MayTear`, where `Faults` has `"torn"`). The rotation hook is three actions,
`HookMarker`, `HookMeta`, `HookRetention`: it is synchronous, so only a crash or
a throw comes between them, and nodes look at the process only when it is
`Quiet`. `Start` is `init()`, `StartFails` an `init()` that ends after the
replay. The core revoker inside is coarser than in `BloomFilterManager`: a
rotation is the save, any number of adds, the swap; and core's log may lose any
token (`CoreAdd`), which is what `BloomFilterManager` shows to be possible.
`exempt` collects the tokens a rotation may have missed.

### ReplicatedLog, DistributedServer, SyncEngine, RevokerNode

These model one node against the coordinator. `RevokerNode` extends
`SyncEngine`, which extends `DistributedServer`: each adds the variables of one
process, and an action of the lower module is a part of an action above (the
engine's `ApplyEntry` is conjoined with what the node's revoker and state file
do in `NodeApplyEntry`).

| Variables | Code |
| --- | --- |
| `log`, `unsent`, `deletedMaxLsn`, `up` | the canonical log, what `add()` appended and did not broadcast, the retention floor, the coordinator's process |
| `call`, `chain`, `batch`, `lastWrittenLsn` | the node's call and its `NodeConnectionImpl`: the promise chain as a queue of tasks, the events that the drain has read and not written, the cursor |
| `zombie` | an earlier connection of the node is registered still: a new one gets ALREADY_EXISTS |
| `wire`, `silent` | the messages in transit; the connection is open and delivers nothing |
| `engine`, `applyChain`, `rotating`, `lastAppliedLsn`, `generation` | `SyncEngine`: its life, the events behind a rotation that is awaited, that rotation, the position |
| `status`, `boot`, `snapshot`, `catchingUp` | `RevokerNode`: its life, where the bootstrap is, the gate |
| `state`, `blobs` | the state file, whether a blob exists |
| `current`, `previous`, `fileCurrent`, `filePrevious` | the revoker's filters as sets of LSNs, and what a restart would find for each in blob and log |
| `stray`, `stale` | what a bootstrap has replaced and what goes on: a save of the destroyed revoker, the rotation that the old engine awaits |
| `mark`, `exempt`, `faults` | observations and the bound on failures |

The write chain is a queue: `Backlog` is the drain task followed by the first
keepalive, `Broadcast` appends a live event, and one task runs at a time
(`WriteBacklog`, `WriteEvent`, `WriteKeepalive`) when the transport takes more
(`Writable`, the back-pressure of `#writeMessage`). The drain reads
`DrainBatch` events and writes them one by one, with everything else in
between. The engine applies an event in the turn in which it comes; only
`rotateOnDemand()` is awaited (`StartRotation`, `FinishRotation`), and events,
a broken stream, the watchdog, `stop()` and a crash can come before it ends.
`FireAnomaly` is a gap, a wrong generation or a `resnapshot`; `NodeFire...` are
the failures that end in a rebootstrap too. The bootstrap is `AskSnapshot`,
`SnapshotArrives` (the gate closes, the engine is told to stop), `Install`. The
first `stop()` of an engine waits for its chain; a second one returns at once
(`StopWaits`), so that after a `shutdown()` the installation does not wait for the
rotation that is awaited (`boot = "installing"`). `Replace` keeps that rotation in
`stale`, and in `stray` a save that the old revoker has not ended: `StraySave`
writes it over the new files, `StaleEnds` saves the old position over the new state.

The core revoker in a node saves by itself. `Backup` is a periodic save, when it
ends: it has what the filter held at any moment since it began (`Copies`), and cuts
from the log what was applied meanwhile (the loss window of `bfm_loss_window`; the
state file is past it already, so nobody sends it again). `SelfRotate` is core's
rotation timer, at any time at which there is an engine, also while a rotation of
the stream is awaited or a rebootstrap is under way; its save, and the write of the
flag that it leaves in the state file, may fail. A coordinated rotation goes on in
memory, too, when its save fails (`NodeFinishRotation`). `Crash` may come anywhere;
`Halt` and `FilesCutShort` say what it leaves on disk, and `Resume` starts from the
files, not from what was applied.

`ReplicatedLog` is the abstract specification. A node has a position, is alive
or not, and its gate is open or closed. The position moves by one event that is
not a hole, or, behind a closed gate, to a rotation marker (a snapshot). When the
gate has been closed and a stream is accepted, the last event of that instant
becomes the mark; the gate opens at or past it. `RevokerNode!RL` maps the
state file to the position and `Serving` to the gate.

What is coarser than the code, and why that loses nothing here:

- The coordinator's rotation hook is one step, and a restart keeps its log;
  the hook's failures and the snapshots that miss an entry are in `Coordinator`.
- `subscribe` is answered in the step that asks; a refused one changes nothing.
  Polls bring one event at a time; a late response is a redelivery.
- Keepalives after the first only feed the watchdog, which here fires when a
  connection is silent or a rotation hangs. Delays and jitter are left out.
- A save of the node's revoker is one step, when it ends, but not an atomic one: it
  writes a copy from any moment since it began, and truncates what was logged since
  then. Its steps on disk, with a crash between them, are in `BloomFilterManager`.
- `SelfRotate` may come at any time: the safety window (`node/validation.ts:160`,
  `safetyFactor`) makes it rarer than the model does.
- A snapshot whose geometry does not match is refused by the code, for ever.

### Revoker

One process with several revokers (`createRevoker`), the module-level
`grpcServerStarted`, `grpcServerInitPromise` and `server`, and the store. `life`
says which await a revoker is in: the bind, the manager's shutdown, or
`stopServer`. The manager is `BloomFilterManager` at a coarser grain: content,
files, and the queue of its mutex, on which rotations, resets and shutdown wait
for each other. `Bound` and `BindFails` resume all that share the promise in
one turn. A reset is `ResetAndRestore` or `ResetAndClearData` (the call, and
for the second the deletion of the files before the mutex), `ResetRun` (it has
the mutex), and `ResetTimeout`, after which it goes on. A rotation is `RotateBegin`
(it asks for the mutex), `RotateSave`, `RotateRename`, `RotateEnd` (the log is
truncated, the blob promoted) or `RotateFails`, with Adds, destructions and other
creations between them; `Rotators` bounds how many are under way together. That of a
manager that is destroyed meanwhile goes on, and writes over the files of the next
revoker with this id. `Reply` is what the middlewares answer to a request with its
claims in the order of checking. One revoker at a time has an id; tokens do not age;
there is no periodic backup and no write buffer (both are in modules of their own).

`owed` has the tokens whose Add was answered while no rotation was saving, or that a
later rotation has saved: an Add that is answered while a rotation's backup runs may be
cut from the log without being in the blob, and is refused only until the next reset
or restart. `orphans` collects the ids whose manager the code leaves with a live timer
and without an owner.

## 3. What is checked

| Run | Result | Shows |
| --- | --- | --- |
| `bfm_durability` | pass, 1.5 million states | `Coverage`, `Durable`, `StaleBackupNeverLands` with two tokens, a backup with one retry, the rotation timer, every disk fault, one crash |
| `bfm_schedule` | pass, 47 000 states, with liveness | `OneSchedule`, `Evicted`, `Coverage`; every rotation, reset and shutdown that starts ends |
| `bfm_loss_window` | violated | the data-loss window is not zero: an add during a backup |
| `bfm_stale_after_reset` | violated | a backup that was running before a reset truncates the log written after it |
| `bfm_double_timer` | violated | two overlapping `rotateOnDemand`, both of them done, leave two live intervals (`NeverDoubled`) |
| `write_buffer` | pass, 383 000 states, with liveness | `BufferedOrSaved`, `ShutdownSaves`, `EventuallyFlushed` with overlapping flushes, backups at every step, torn appends, a crash |
| `write_buffer_drop` | violated | a token pushed during an append is dropped |
| `coordinator` | pass, 1.6 million states | `LsnUnique`, `RetainedComplete`, `SnapshotServable`, `SnapshotComplete`, `CoordinatorCoverage`, `CheckpointMonotone` |
| `coordinator_snapshot_lossy` | violated | an entry accepted while core saves the filter is missing from the next snapshot |
| `coordinator_torn` | violated | a torn line and two crashes: one LSN for two events |
| `cluster` | pass, 574 000 states, with liveness | `ReplicatesLog` (the node implements `ReplicatedLog`), `NodeCoverage`, `EngineConsistent`, `DeliveryOrder`, `NothingBetween`, `CatchesUp` with two failures of any kind, the node's own saves and rotations among them |
| `revoker` | pass, 240 000 states, with liveness | `Served`, `CanRetry`, `NoLeak`, `Refused`, `ClearClears`, `ShutdownEnds`, `ResetAnswered` with two revokers around one server, and a rotation that outlives its manager |

The violated runs are disagreements between the code and its own comments or
README; `PROJECT.json` quotes the lines.

**Bounds.** `MaxInsertions`, `MaxTries`, `Budget` (rotations, crashes, resets),
`MaxFailures`, `MaxFaults`, `MaxCrashes`, `MaxCreations`, `MaxChain`, `MaxLsn`,
`MaxRotations`, `Rotators` are the only bounds, and each stands in the guard of the
action it bounds. Two rotations are what a token
lives through; a second token is what shows that one token's fate does not
depend on another's; one retry is enough for a backup to sleep across a
rotation; a third coordinated rotation is the first in which retention has
deleted a file and a later one is deleted too; a second crash is what follows a
recovery. `bfm_schedule` has one token because its properties are about jobs.
`ReplayLimit` is shorter than the tail can get: what a restart cuts off
(`Skipped`; the code warns of it) is owed no longer, and everything else is. In
`cluster` three events are what it takes for two rotations after an entry, for a hole with an event on either side of
it, and for a drain (`DrainBatch = 1`) that retention overtakes; two failures
are one during the recovery from another (a broken stream and a crash in the
bootstrap, a silent stream and a coordinator that stops). `MaxFaults` counts there
also the rotations of the node's own, its saves during which an entry is applied, and
those that outlive their revoker: each is a disturbance, and two of them are one that
meets another. `Window = 1` makes every write wait for the one before it, which is the
most a slow stream can hold back. In `write_buffer` one flush of the interval and that
of `shutdown()` overlap; several of the interval are only in the proof. In `revoker` two
creations are two revokers at the same server, or one that leaves and comes back with
the same id while the rotation of its first manager still writes its files; a second
rotation and a second call are only in the proof, whose invariant TLC has checked with two
rotations.

**Fairness.** `LiveSpec` of `BloomFilterManager` assumes that disk operations and
retry delays end and that a mutex is granted to whoever waits (async-mutex
grants in order, hence strong fairness); nothing is assumed of callers and
timers. `WriteBuffer` assumes that the interval fires and that an append ends,
one way or the other; failures are finite there, because with a disk that never
works no token is ever flushed; backups and callers are free. The coordinator's
properties need no fairness. In `RevokerNode` four groups of steps go on: the write
chain; the registry's cleanup and the start of the coordinator; what the engine does
(reconnects, messages of a stream that is not silent, the watchdog, the apply chain);
what the node does (the bootstrap, what a replaced engine has left, restarts). They are
callbacks and timers that the code always arms.
Nothing is assumed of failures, of revocations and of a silent connection: it
may stay silent for ever, and `CatchesUp` holds because of the watchdog. In
`Revoker` the server calls back, what holds a mutex ends, and the time limit of
a reset fires.

**Deadlock** is not checked: every run ends in states in which the bounds are
used up or the instance is destroyed, and progress is stated by the leads-to
properties instead.

## 4. What is proved

Every invariant and every action property of the runs that pass, and the
refinement, is a theorem: for every set of tokens and jobs, every bound, every
length of the log and every choice of faults, except where a hypothesis is
named. An invariant of the code is seldom inductive. Each module below states an
inductive invariant (`IInv`, or a name of its own), which TLC has checked on an
instance before it was proved, and derives the properties from it.

`BloomFilterManagerProofs`:

- `TypeCorrect`: `Spec => []TypeOK`. `TypeOK` is inductive; the proof has one
  lemma per group of actions that share a sub-action (`SwapTypes`,
  `RestoreTypes`, `DetachTypes`).
- `CoverageHolds`, `DurableHolds` and `StaleBackupsNeverLand`: without resets
  (`Budget["reset"] = 0`) `[]Coverage`, `[]Durable` and `StaleBackupNeverLands`.
  Call a token *owed* when it is promised, not at risk, and the current files
  have to hold it; call a job *armed* when it will truncate the log, or may as
  soon as it has the file mutex. The inductive invariant `IInv` says that
  - at most one job is inside each mutex (`OneHolder`);
  - a rotation has raised the generation above that of every backup scheduled
    before it (`Generations`), so that such a backup is not armed;
  - every armed job saves the filter in use, which holds every owed token
    (`ArmedContent`);
  - the blob and the log hold every owed token, and so does what a job inside
    the file mutex has captured (`OwedKept`), which makes its truncation safe;
  - a process that is not alive has no job with the current filter (`Stopped`).

  With resets `Durable` is false (`bfm_stale_after_reset`) because a reset does
  not raise the generation: the restriction is the code's. `Coverage` with a
  reset is checked by TLC in `bfm_schedule`.
- `OneScheduleHolds`: `[]OneSchedule`, when `rotateOnDemand` has one caller at a
  time (`Demands` has at most one member); with two it is false
  (`bfm_double_timer`). The invariant `Timed` says which of the two states the
  schedule is in: the interval and its handle, or a rotation on demand and
  neither. `Spent` ties the budget to what has happened: a process that is down
  has no job left that would start an interval in the next one.
- `EvictedHolds`: `[]Evicted`. What has lived through one rotation is no longer
  in the current filter (`Aging`), so the next rotation throws it away, in
  memory too when its backup fails.

`WriteBufferProofs`:

- `TypeCorrect`, `NothingLost` (`[]BufferedOrSaved`) and `ShutdownFlushes`
  (`[]ShutdownSaves`). Call a token *promised* when it is acknowledged and not exempt.
  Emptying the array after an append is safe because every flush under way holds all
  promised tokens of the array but those that a blob has (`FlushesHoldBuffer`), and what
  was appended stays on disk (`WrittenSaved`). Truncating the log is safe because the
  filter holds all that is promised (`FilterHolds`) and so does what a backup has
  captured, then its blob (`BackupHolds`). A promised token is in the array or saved also
  when the instance is destroyed and a backup still goes on (`Kept`), nothing is under way
  between two processes (`Ended`), and nothing else is ever in the buffer (`Accepted`).

`CoordinatorProofs`: `IInv` is `TypeOK` with

- `Numbering`: no line and no checkpoint is beyond the counters, the checkpoint
  on disk not beyond the one in memory, and nothing was deleted above either's
  consistency point. A restart resumes behind all of them (`ResumeFacts`, on
  `MaxOfIsGreatest`: the maximum that the code computes is one);
- `Hooked`: how far the rotation hook has come, and that nothing was accepted
  since the swap when it is interrupted;
- `Accepted` and `Held`: where the files and the filters have what was accepted
  in the last two windows: in the tail that a restart replays, in the blob that a
  rotation saved, in the one it promoted;
- `Sent`: what was sent is below the counter, and in the log or below every point
  that is served.

From it `TypeCorrect`, `SnapshotServableHolds`, `SnapshotCompleteHolds`,
`CoordinatorCoverageHolds` and `CheckpointMonotoneHolds` without a hypothesis, and
`LsnUniqueHolds` and `RetainedCompleteHolds` without torn lines
(`"torn" \notin Faults`): with one they are false (`coordinator_torn`).

`RevokerNodeProofs` and `DistributedServerProofs`: one invariant for the
coordinator, the stream, the engine and the node together,

- `LogOK` and `StreamOK`: the shape of the log, and the order in a stream. What
  the drain has not written is in its batch or still to be read, what was
  broadcast meanwhile is in the chain in the order of the log, and no LSN is
  between the two;
- `Applied`: an engine is where the state file is, unless the rotation of the engine
  before it has overwritten that in a node that is about to stop (`AtState`:
  `Past` or `Overwritten`); state and engine have the generation that the
  coordinator's log has there (`AtGeneration`, `AtApplied`), and the rotation that is
  awaited is the next event (`RotatesNext`);
- `Replacing`: a rotation that nobody waited for belongs to such a shutdown;
- `Asking`: the snapshot in transit is of a rotation, with the window before it,
  however far the coordinator has gone since;
- `Lifecycle`: what the phases of node, engine and bootstrap allow of each other,
  so that a closed gate belongs to an installation that is under way;
- `Kept`: every entry that is owed and not exempt is in a filter, and in the current
  one unless a rotation has followed it. The second half is what a rotation needs. It
  says so three times: of what the revoker holds up to the engine's position
  (`Held`), of what a crash would leave of that (`Saved`), and of what a restart from
  the state file would find (`Found`).

From it `TypeCorrect`, `NothingBetweenHolds`, `DeliveryOrderHolds`,
`EngineConsistentHolds` and `NodeCoverageHolds`. The lemmas about the log (the
generation of a position is the number of rotations up to it, what a growing log
does to `Retained`, `ReadSince` and `LastRotation`) are in
`DistributedServerProofs`.

`ReplicationProofs`: `ReplicatesLogHolds`, `Spec => ReplicatesLog`: the composition
implements `ReplicatedLog`. The abstract specification states no fairness, so this
is the whole refinement: initial states map to initial states and every step to an
abstract step or to a stutter, one lemma per group of actions. The step that takes
an argument is the opening of the gate: the first keepalive has to come after all
that the log had when the stream was accepted. `PipeOK` says so of everything that
is on its way, from the chain of the engine to the wire (`pipe`): a keepalive
behind a closed gate has a mark (`Announced`), and the events up to the mark are
applied or before it (`Behind`); a stream has delivered what it has written
(`Written`), and its drain has ended only at the mark or past it (`DrainedToMark`).
The state that an old rotation overwrites is a jump of the abstract node to a rotation
marker behind a closed gate, or a stutter (`StaleRefines`).
TLC has checked `IInv` and `PipeOK` on the instance of the `cluster` run with a fourth
event (2.8 million states).

`RevokerProofs`:

- `TypeCorrect`, `ServedHolds`, `CanRetryHolds`, `NoLeakHolds`, `RefusedHolds`
  and `ClearClearsHolds`: every invariant of the `revoker` run. Not even
  `TypeOK` is inductive: `Bound` adds to the registry of instances, which has
  to be there. The inductive invariant `IInv` adds to it
  - the four phases of the server (`Phases`): each says what the promise, the
    flag, the registry and every revoker may be, and while the server listens
    the registry is the set of the revokers in use;
  - who has a manager, and who may wait in its mutex (`Members`);
  - that a rotation is once in the queue of its manager's mutex or in none, and at its
    head while it saves, unless the manager is destroyed (`Rotations`);
  - what is owed is in the files, in a live manager, and in what a rotation is
    writing before it truncates the log, one of a destroyed manager included (`Kept`);
  - what a `ResetAndClearData` removed is in no file and in no copy being written, and
    no rotation that writes the filter back is before it in the mutex (`Clearing`). The
    mutex is a queue, so this order has to be kept by every task that joins or leaves.

`Extremes` proves from the well-foundedness of the naturals that a set of them has
a least element, and a greatest one if it is bounded: what the `CHOOSE` of an LSN
means.

The assumptions are those that the modules name (`JobsAssumption`,
`LimitsAssumption`, `FaultsAssumption`, `BoundsAssumption`,
`NoneAssumption`, `CloserAssumption`, `ServerAssumption`, `SyncAssumption`,
`RevokerAssumption`); TLC evaluates them in every run.

Only model-checked: liveness (`RotationCompletes`, `ResetCompletes`,
`ShutdownCompletes`, `EventuallyFlushed`, `CatchesUp`, `ShutdownEnds`,
`ResetAnswered`), which the proof system does not cover: it has no rule for
`ENABLED`, on which fairness rests. So are `Coverage` with a reset, and the violations.

## 5. What is not modelled, and what the models leave aside

- The Bloom filter's hashing and bit layout: pure functions that the unit tests
  compare with known values. The modules use their specification, and false
  positives could only hide a loss.
- Blobs and snapshots whose geometry does not match a changed configuration, a
  corrupt checkpoint file, and file-system failures at start: the code refuses
  or starts empty.
- Validation of items, authentication, logging, metrics, health checks,
  throttling: no state the properties depend on.
- Saturation estimates.
- The coordinator with more than one node: connections share nothing but the
  log, so that each node sees what `cluster` models.

The properties of `write_buffer`, `cluster` and `revoker` leave out, by an observation
variable or a condition of their own, what the code does not guarantee. A reader should
know of it:

1. The loss window. A token that is added while a backup or the backup of a rotation
   runs may be cut from the log without being in the blob (`bfm_loss_window`). In
   `BloomFilterManager` it is `atRisk`. In `WriteBuffer` it is pushed while a backup is
   under way (`exempt` in `Push`, as are the tokens that a flush under way drops,
   `write_buffer_drop`); the last flush of `shutdown()` may be truncated like this, as nothing
   waits for the backup. In a node it is an entry that is applied during a save
   (`exempt` in `Backup`): the state file is past it, so no restart gets it again. In
   `Revoker` it is an Add that is answered while a rotation saves (`owed`): a reset
   behind the rotation forgets it.
2. A torn line. After an append that failed half way, the next line is joined to it
   and neither is restored, also when the append is a retry that succeeds and the
   buffer is emptied (`Write`).
3. A node that crashes between a coordinated rotation and the write of the
   state file applies the rotation twice, and the second one evicts entries
   that are owed (`exempt` in `Halt`; the comment in `stateFile.ts:17` says the
   order is safe, which holds for entries only). So does a rotation that the
   state file write fails after (`NodeFireUnsavedRotation`), until the
   rebootstrap.
4. A crash inside the bootstrap, between the blobs and the state file, leaves
   new blobs under the old position, and `init()` resumes from them
   (`FilesCutShort`).
5. The gate is not persisted: a node that crashes before it has caught up
   resumes with the gate open, at its old position (`Resume`).
6. A self-rotation, which comes also when the coordinator is back after an outage,
   evicts ahead of the coordinator: until the next snapshot all that the node held is
   exempt (`SelfRotate`). While a coordinated rotation is awaited it is taken for it, and
   leaves no flag (`rotating # 0`).
7. `shutdown()` during a bootstrap does not stop it: a new revoker and a new
   engine start after it. As the second `stop()` of the engine returns at once, they may
   start while the old rotation is awaited; it is then saved over the state and the
   files of the snapshot (`StaleEnds`, `StraySave`), so that the state file says less
   than the new engine has applied. `EngineConsistent` speaks of a node that is up.
8. The save of a revoker that a bootstrap has destroyed may end after the installation,
   over the new files (`StraySave`): all up to the position is exempt.
9. After a failed append no node gets over the hole: each attempt ends in a
   rebootstrap to the same consistency point, until the next rotation
   (`Stuck`).
10. An entry that was appended and not broadcast is seen by the nodes with a
    stream when the next event shows them a gap (`unsent`).
11. `createRevoker` while the last revoker awaits `stopServer` throws outside of
    its `try`, and the new manager keeps its timers (`CreateRejected`). A reset that
    waits for the mutex behind a shutdown runs on the destroyed manager and starts its
    rotation timer again (`DestroyManagers`). Both are recorded in `orphans`, and
    `NoLeak` does not count them.
12. A rotation under way when `resetAndClearData` deletes the files writes them
    again, and the reset restores them (the condition on `cleared`); so may the
    rotation of a destroyed manager.
13. The middleware that was handed out before `shutdown()` asks a destroyed
    manager, whose `has()` is false: it lets every token through (`Has`; the
    condition `Alive` of `Refused`).
14. A periodic backup under way when a reset runs truncates the log that is written
    after it (`bfm_stale_after_reset`); `Revoker` has no periodic backup.

## 6. Plan

In the order of what matters most:

1. `BloomFilterManager`, proofs of all its safety properties - done. Next: `Coverage`
   with resets, under the condition that no backup is under way when one is called
   (what `bfm_stale_after_reset` shows to be needed).
2. `WriteBuffer`, proofs of `BufferedOrSaved` and `ShutdownSaves` - done.
3. `Coordinator`, proofs of all its safety properties - done.
4. `DistributedServer`, `SyncEngine`, `RevokerNode`, `ReplicatedLog`, proofs of all
   safety properties and of the refinement - done.
5. `Revoker`, proofs of all its invariants - done.
6. Next: an abstract specification of a revoker (a token is reported for two
   windows after it was acknowledged) that `BloomFilterManager` implements, as
   `ReplicatedLog` is of a node.
