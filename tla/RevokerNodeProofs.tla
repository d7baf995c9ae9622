-------------------------- MODULE RevokerNodeProofs --------------------------
(***************************************************************************)
(* A node and its coordinator, for every log, every number of failures and *)
(* every size of the batches, the window and the chain: the position that  *)
(* is saved is the one that was applied, the stream keeps its order, and   *)
(* the filters and the files have what the coordinator still owes up to    *)
(* that position, but for what is exempt.                                  *)
(***************************************************************************)
EXTENDS RevokerNode, DistributedServerProofs

ApplyChainType == applyChain \in Seq(Sendable)

Engines == {"none", "running", "fired", "stopped"}
Statuses == {"down", "starting", "up", "closing"}
Boots == {"no", "queued", "asked", "stopping", "installing"}

\* Positions are in the log.
Domains ==
    /\ engine \in Engines /\ status \in Statuses /\ boot \in Boots
    /\ ApplyChainType
    /\ {lastAppliedLsn, rotating, stale, generation} \subseteq 0..Len(log)
    /\ mark \in (0..Len(log)) \cup {NoMark}
    /\ state \in [lsn : 0..Len(log), generation : 0..Len(log), dirty : BOOLEAN]
    /\ {snapshot.lsn, snapshot.generation} \subseteq 0..Len(log)

Flags == {up, zombie, silent, catchingUp, blobs} \subseteq BOOLEAN

\* Only a running engine has a stream and a chain.
Detached == engine # "running" => call = "none" /\ applyChain = <<>>

\* An engine is where the state file is.
Past == lastAppliedLsn = state.lsn /\ generation = state.generation

\* What is left when the rotation of a replaced engine has overwritten the state of
\* the engine that has replaced it: that of a shutdown that is about to end.
Overwritten ==
    /\ engine = "stopped" /\ status = "closing" /\ boot = "no" /\ mark = NoMark
    /\ stray = NoCopy /\ stale = 0
    /\ EntriesIn(1, state.lsn) \subseteq exempt \cup fileCurrent

AtState == engine # "none" => Past \/ Overwritten

\* The state says of its position what the coordinator does (EngineConsistent).
AtGeneration == state.generation = Generation(state.lsn)

\* So does an engine.
AtApplied == engine # "none" => generation = Generation(lastAppliedLsn)

\* The rotation that is awaited is the next event.
RotatesNext ==
    rotating # 0 =>
        /\ engine \in {"running", "stopped"}
        /\ rotating = lastAppliedLsn + 1 /\ log[rotating] = "rotate"

Applied == Detached /\ AtState /\ AtGeneration /\ AtApplied /\ RotatesNext

\* So is that of a replaced engine, which is only left behind by a shutdown, with no
\* other bootstrap to come.
Replacing == stale # 0 => status = "closing" /\ boot = "no" /\ log[stale] = "rotate"

\* A snapshot is of a rotation, or of nothing, and has the window before it.
SnapshotOf(s) ==
    /\ s.lsn \in {0} \cup RotationsIn(1, Len(log))
    /\ s.generation = Generation(s.lsn)
    /\ s.previous = EntriesIn(LastRotation(s.lsn - 1) + 1, s.lsn)

Asking == boot \in {"asked", "stopping", "installing"} => SnapshotOf(snapshot)

\* The phases of a node.  Only a snapshot that is being installed closes the gate, and
\* only behind a closed gate is there something to reach.
Lifecycle ==
    /\ engine = "running" => status \in {"up", "closing"}
    /\ engine = "stopped" => status = "closing" \/ boot = "stopping"
    /\ boot \in {"stopping", "installing"} =>
           engine \in {"none", "stopped"} /\ catchingUp /\ mark = NoMark
    /\ boot = "installing" => status = "closing"
    /\ status = "down" => boot = "no"
    /\ status \in {"down", "starting"} => engine = "none" /\ (boot # "stopping" => ~catchingUp)
    /\ ~catchingUp => mark = NoMark
    /\ status = "up" /\ ~catchingUp => engine # "none"

\* What the filters, the files and the snapshot have is in the log.
Tokens ==
    /\ stray = NoCopy \/ stray \subseteq EntriesIn(1, Len(log))
    /\ current \cup previous \cup fileCurrent \cup filePrevious \cup exempt
           \cup snapshot.current \cup snapshot.previous \subseteq EntriesIn(1, Len(log))

\* Two filters, or their files, have what is owed up to a position, in the right one of
\* them: what no rotation has followed is in the current one, so the next rotation
\* keeps it.
KeptUpTo(lsn, cur, prev) ==
    \A n \in 1..lsn : Owed(n) /\ n \notin exempt =>
        /\ n \in cur \cup prev
        /\ RotationsIn(n, lsn) = {} => n \in cur

\* What the revoker has (NodeCoverage), what it would have after a crash, and what a
\* restart from the state would find.
Held == engine # "none" => KeptUpTo(lastAppliedLsn, current, previous)
Saved == engine # "none" => KeptUpTo(lastAppliedLsn, fileCurrent, filePrevious)
Found == engine # "none" \/ blobs => KeptUpTo(state.lsn, fileCurrent, filePrevious)

Kept == Held /\ Saved /\ Found

-----------------------------------------------------------------------------
(* What comes to the engine.                                               *)

\* A message that comes is one that may be said of the log.
LEMMA SourceIs ==
    ASSUME LogOK, StreamOK, Domains, NEW via \in Sources
    PROVE  Source(via) \in Seq(Sendable)
<1>1. /\ wire \in Seq(Sendable) /\ applyChain \in Seq(Sendable)
      /\ LogType /\ deletedMaxLsn \in Nat /\ Len(log) \in Nat /\ lastAppliedLsn \in Nat
  BY LogShape DEF StreamOK, StreamType, WireType, Domains, ApplyChainType, LogOK
<1>2. PollDeltas \in Seq(Sendable)
  <2> DEFINE read == ReadSince(lastAppliedLsn, 1)
  <2>1. read \subseteq Retained(lastAppliedLsn)
    BY <1>1, ReadSinceFacts
  <2>2. read \subseteq DOMAIN log /\ read \in SUBSET Nat
    BY <1>1, <2>1, LogShape DEF Retained, Bigger
  <2>3. \/ PollDeltas \in {<<>>, <<Resnapshot>>}
        \/ read # {} /\ PollDeltas = <<Event(First(read))>>
    BY DEF PollDeltas
  <2> HIDE DEF read
  <2>4. read # {} => Event(First(read)) \in Sendable
    BY <2>2, FirstIs DEF Sendable
  <2>5. Resnapshot \in Sendable
    BY DEF Sendable
  <2>6. \A m \in Sendable : <<m>> \in Seq(Sendable)
    OBVIOUS
  <2>7. <<>> \in Seq(Sendable)
    OBVIOUS
  <2> QED
    BY <2>3, <2>4, <2>5, <2>6, <2>7
<1>3. CASE via = "chain"
  BY <1>1, <1>3 DEF Source
<1>4. CASE via = "stream"
  BY <1>1, <1>4 DEF Source
<1>5. CASE via = "poll"
  BY <1>2, <1>5 DEF Source
<1> QED
  BY <1>3, <1>4, <1>5 DEF Sources

\* So is the one that is taken, and only a running engine that awaits nothing takes one.
LEMMA IncomingIs ==
    ASSUME LogOK, StreamOK, Domains, NEW via \in Sources, Comes(via)
    PROVE  engine = "running" /\ rotating = 0 /\ Incoming(via) \in Sendable
BY SourceIs, HeadTailProperties DEF Comes, Incoming

\* An event that is due is the next one.
LEMMA DueIs ==
    ASSUME LogOK, Domains, NEW m \in Sendable, NEW kind, Due(m, kind)
    PROVE  /\ m.lsn = lastAppliedLsn + 1 /\ m.lsn \in 1..Len(log) /\ log[m.lsn] = kind
           /\ kind = "rotate" => Generation(m.lsn) = generation + 1
<1>1. LogType /\ Len(log) \in Nat /\ lastAppliedLsn \in Nat
  BY LogShape DEF LogOK, Domains
<1>2. /\ IsEvent(m) /\ log[m.lsn] = kind /\ ~(m.lsn <= lastAppliedLsn)
      /\ ~(m.lsn > lastAppliedLsn + 1)
      /\ ~WrongGeneration(m)
  BY DEF Due, Redelivered, Anomaly, Gap, IsEvent
<1>3. m.lsn \in 1..Len(log)
  BY <1>1, <1>2, TaskIs
<1> QED
  BY <1>1, <1>2, <1>3 DEF WrongGeneration

\* What is taken leaves the chain, the stream or neither.
LEMMA TakeIs ==
    ASSUME Domains, NEW via \in Sources, Comes(via), Take(via)
    PROVE  /\ Delivers \/ Rests
           /\ applyChain' \in Seq(Sendable)
<1>1. applyChain \in Seq(Sendable)
  BY DEF Domains, ApplyChainType
<1>2. CASE via = "chain"
  BY <1>1, <1>2, HeadTailProperties DEF Comes, Source, Take, Rests
<1>3. CASE via = "stream"
  BY <1>1, <1>3 DEF Comes, Source, Take, Delivers
<1>4. CASE via = "poll"
  BY <1>1, <1>4 DEF Take, Rests
<1> QED
  BY <1>2, <1>3, <1>4 DEF Sources

\* An engine that quits drops its stream.
LEMMA QuitIs ==
    ASSUME NEW how, Quit(how), UNCHANGED coordinator
    PROVE  Dropped \/ Rests
BY DEF Quit, Dropped, Rests, stream, coordinator

\* Every step is one of the stream.
LEMMA NextToStream ==
    ASSUME LogOK, StreamOK, Domains, Applied, [Next]_vars
    PROVE  StreamNext
<1>1. ASSUME ServerStep PROVE StreamNext
  BY <1>1 DEF ServerStep, StreamNext
<1>2. ASSUME NodeSubscribe PROVE StreamNext
  <2>1. lastAppliedLsn \in 0..Len(log)
    BY DEF Domains
  <2>2. call = "none" /\ Subscribe(lastAppliedLsn) /\ UNCHANGED coordinator
    BY <1>2 DEF NodeSubscribe, TrySubscribe, Degraded, Streaming
  <2> QED
    BY <2>1, <2>2 DEF StreamNext, Asked
<1>3. ASSUME StreamEnds \/ Watchdog PROVE StreamNext
  BY <1>3 DEF StreamEnds, Watchdog, StreamDown, StreamNext, Dropped
<1>4. ASSUME Arrive PROVE StreamNext
  BY <1>4 DEF Arrive, StreamNext, Delivers
<1>5. ASSUME NEW via \in Sources, Comes(via), Take(via) PROVE StreamNext
  BY <1>5, TakeIs DEF StreamNext
<1>6. ASSUME NEW how, Quit(how), UNCHANGED coordinator PROVE StreamNext
  BY <1>6, QuitIs DEF StreamNext
<1>7. CASE UNCHANGED <<coordinator, stream>>
  BY <1>7 DEF StreamNext, Rests, stream
<1>8. ASSUME EngineStep PROVE StreamNext
  BY <1>3, <1>4, <1>5, <1>8 DEF EngineStep, StartRotation
<1>9. ASSUME ApplyStep PROVE StreamNext
  BY <1>5, <1>6, <1>7, <1>9
     DEF ApplyStep, NodeApplyNothing, ApplyNothing, NodeApplyEntry, ApplyEntry, NodeFireUnsaved,
         FireUnsaved, NodeFinishRotation, FinishRotation, NodeFire, FireAnomaly, FireUnapplied,
         FireUnrotated, NodeFireUnsavedRotation, Fire
<1>10. ASSUME BootStep PROVE StreamNext
  BY <1>6, <1>7, <1>10
     DEF BootStep, AskSnapshot, SnapshotFails, SnapshotArrives, StopEngine, Install,
         InstallFails
<1>11. ASSUME Crash \/ Restart \/ Shutdown PROVE StreamNext
  BY <1>6, <1>7, <1>11
     DEF Crash, Restart, Shutdown, Exit, Halt, NoEngine, StopEngine, Resume, Bootstrap
<1>12. ASSUME Backup \/ SelfRotate \/ ReplacedStep PROVE StreamNext
  BY <1>6, <1>7, <1>12 DEF Backup, SelfRotate, ReplacedStep, StraySave, StaleEnds, StopEngine
<1> QED
  BY <1>1, <1>2, <1>3, <1>7, <1>8, <1>9, <1>10, <1>11, <1>12 DEF Next, WatchdogStep, vars

-----------------------------------------------------------------------------
(* The steps.                                                              *)

\* The steps, one by one.
NextIs ==
    \/ ServerStep
    \/ NodeSubscribe
    \/ StreamEnds /\ UNCHANGED node
    \/ WatchdogStep
    \/ Arrive /\ UNCHANGED node
    \/ \E via \in Sources : StartRotation(via) /\ UNCHANGED node
    \/ \E via \in Sources : NodeApplyNothing(via)
    \/ \E via \in Sources : NodeApplyEntry(via)
    \/ \E via \in Sources : NodeFireUnsaved(via)
    \/ NodeFinishRotation
    \/ NodeFire
    \/ NodeFireUnsavedRotation
    \/ Backup
    \/ SelfRotate
    \/ AskSnapshot
    \/ SnapshotFails
    \/ SnapshotArrives
    \/ Install
    \/ InstallFails
    \/ StraySave
    \/ StaleEnds
    \/ Halt
    \/ Resume
    \/ Bootstrap
    \/ Shutdown
    \/ UNCHANGED vars

\* There are no others.
LEMMA NextCases ==
    ASSUME [Next]_vars
    PROVE  NextIs
BY DEF Next, EngineStep, ApplyStep, BootStep, ReplacedStep, Restart, Crash, Exit, NextIs

\* A step keeps the phases.
LEMMA LifecycleStep ==
    ASSUME Domains, Flags, Applied, Replacing, Lifecycle, NextIs
    PROVE  Lifecycle'
<1>1. ASSUME NodeSubscribe PROVE Lifecycle'
  BY <1>1
     DEF NodeSubscribe, TrySubscribe, core, syncEngine, coordinator, Lifecycle, Domains,
         Engines, Statuses, Boots, NoMark, Degraded, files, replaced
<1>2. ASSUME NEW via \in Sources, NodeApplyNothing(via) PROVE Lifecycle'
  BY <1>2
     DEF NodeApplyNothing, ApplyNothing, Take, core, gate, coordinator, Lifecycle,
         Domains, Engines, Statuses, Boots, NoMark, Comes, files, replaced
<1>3. ASSUME NEW via \in Sources, NodeFireUnsaved(via) PROVE Lifecycle'
  BY <1>3
     DEF NodeFireUnsaved, FireUnsaved, Fire, Quit, ScheduleRebootstrap, gate, coordinator,
         Lifecycle, Domains, Engines, Statuses, Boots, NoMark, Comes
<1>4. ASSUME NodeFire PROVE Lifecycle'
  BY <1>4
     DEF NodeFire, FireAnomaly, FireUnapplied, FireUnrotated, Fire, Quit,
         ScheduleRebootstrap, gate, core, coordinator, Lifecycle, Domains, Engines, Statuses,
         Boots, NoMark, Comes, files, replaced
<1>5. ASSUME NodeFireUnsavedRotation PROVE Lifecycle'
  BY <1>5
     DEF NodeFireUnsavedRotation, FireUnrotated, Quit, ScheduleRebootstrap, gate,
         coordinator, Lifecycle, Domains, Engines, Statuses, Boots, NoMark, Rotated,
         SaveRotated
<1>6. ASSUME SelfRotate PROVE Lifecycle'
  BY <1>6
     DEF SelfRotate, ScheduleRebootstrap, gate, syncEngine, coordinator, Lifecycle,
         Domains, Engines, Statuses, Boots, NoMark, SelfRotated, Rotated, SaveRotated, Faults
<1>7. ASSUME AskSnapshot PROVE Lifecycle'
  BY <1>7
     DEF AskSnapshot, gate, core, syncEngine, coordinator, Lifecycle, Domains, Engines,
         Statuses, Boots, NoMark, files, replaced
<1>8. ASSUME SnapshotFails PROVE Lifecycle'
  BY <1>8
     DEF SnapshotFails, NoSnapshot, gate, core, syncEngine, coordinator, Lifecycle,
         Domains, Engines, Statuses, Boots, NoMark, files, replaced
<1>9. ASSUME SnapshotArrives PROVE Lifecycle'
  BY <1>9
     DEF SnapshotArrives, StopEngine, Quit, core, coordinator, Lifecycle, Domains,
         Engines, Statuses, Boots, NoMark, StopWaits, files, replaced
<1>10. ASSUME Install PROVE Lifecycle'
  BY <1>10
     DEF Install, Installed, InstallFiles, StartEngine, NoSnapshot, gate, coordinator,
         Lifecycle, Domains, Engines, Statuses, Boots, NoMark, Replace, Installs
<1>11. ASSUME InstallFails PROVE Lifecycle'
  BY <1>11
     DEF InstallFails, Installed, InstallFiles, FilesCutShort, NoSnapshot, coordinator,
         Lifecycle, Domains, Engines, Statuses, Boots, NoMark, Installs, NoRevoker
<1>12. ASSUME Halt PROVE Lifecycle'
  BY <1>12
     DEF Halt, NoEngine, Quit, FilesCutShort, InstallFiles, NoSnapshot, core, coordinator,
         Lifecycle, Domains, Engines, Statuses, Boots, NoMark, Installs, NoRevoker,
         SaveRotated, files, replaced
<1>13. ASSUME Resume PROVE Lifecycle'
  BY <1>13
     DEF Resume, StartEngine, gate, core, coordinator, Lifecycle, Domains, Engines,
         Statuses, Boots, NoMark, files, replaced
<1>14. ASSUME Bootstrap PROVE Lifecycle'
  BY <1>14
     DEF Bootstrap, gate, core, syncEngine, coordinator, Lifecycle, Domains, Engines,
         Statuses, Boots, NoMark, files, replaced
<1>15. ASSUME Shutdown PROVE Lifecycle'
  BY <1>15
     DEF Shutdown, StopEngine, Quit, gate, core, coordinator, Lifecycle, Domains, Engines,
         Statuses, Boots, NoMark, files, replaced
<1>16. ASSUME UNCHANGED vars PROVE Lifecycle'
  BY <1>16
     DEF vars, node, gate, core, syncEngine, coordinator, Lifecycle, Domains, Engines,
         Statuses, Boots, NoMark, files, replaced
<1>17. ASSUME \/ ServerStep
              \/ StreamEnds /\ UNCHANGED node
              \/ WatchdogStep
              \/ Arrive /\ UNCHANGED node
              \/ \E via \in Sources : StartRotation(via) /\ UNCHANGED node
              \/ \E via \in Sources : NodeApplyEntry(via)
              \/ NodeFinishRotation
              \/ Backup
       PROVE  Lifecycle'
  <2>1. UNCHANGED <<engine, status, boot, catchingUp, mark>>
    BY <1>17
       DEF ServerStep, node, gate, core, syncEngine, StreamEnds, StreamDown, coordinator,
           WatchdogStep, Watchdog, Arrive, StartRotation, Take, NodeApplyEntry, ApplyEntry,
           NodeFinishRotation, FinishRotation, Backup, files, replaced, Rotated, SaveRotated
  <2> QED
    BY <2>1 DEF Lifecycle
<1>18. ASSUME StraySave PROVE Lifecycle'
  BY <1>18
     DEF StraySave, SelfRotated, ScheduleRebootstrap, syncEngine, coordinator, gate,
         Lifecycle, Domains, Engines, Statuses, Boots, NoMark
<1>19. ASSUME StaleEnds PROVE Lifecycle'
  BY <1>19
     DEF StaleEnds, StopEngine, Quit, coordinator, files, Lifecycle, Domains, Engines,
         Statuses, Boots, NoMark, Replacing
<1> QED
  BY <1>1, <1>2, <1>3, <1>4, <1>5, <1>6, <1>7, <1>8, <1>9, <1>10, <1>11, <1>12, <1>13, <1>14,
     <1>15, <1>16, <1>17, <1>18, <1>19
     DEF NextIs

\* A step stays within the phases.
LEMMA PhasesStep ==
    ASSUME Domains, Flags, NextIs
    PROVE  engine' \in Engines /\ status' \in Statuses /\ boot' \in Boots
<1>1. ASSUME NEW via \in Sources, NodeFireUnsaved(via)
      PROVE  engine' \in Engines /\ status' \in Statuses /\ boot' \in Boots
  BY <1>1
     DEF NodeFireUnsaved, FireUnsaved, Fire, Quit, ScheduleRebootstrap, gate, coordinator,
         Domains, Engines, Statuses, Boots
<1>2. ASSUME NodeFire PROVE engine' \in Engines /\ status' \in Statuses /\ boot' \in Boots
  BY <1>2
     DEF NodeFire, FireAnomaly, FireUnapplied, FireUnrotated, Fire, Quit,
         ScheduleRebootstrap, gate, core, coordinator, Domains, Engines, Statuses, Boots,
         files, replaced
<1>3. ASSUME NodeFireUnsavedRotation
      PROVE  engine' \in Engines /\ status' \in Statuses /\ boot' \in Boots
  BY <1>3
     DEF NodeFireUnsavedRotation, FireUnrotated, Quit, ScheduleRebootstrap, gate,
         coordinator, Domains, Engines, Statuses, Boots, Rotated, SaveRotated
<1>4. ASSUME SelfRotate PROVE engine' \in Engines /\ status' \in Statuses /\ boot' \in Boots
  BY <1>4
     DEF SelfRotate, ScheduleRebootstrap, gate, syncEngine, coordinator, Domains, Engines,
         Statuses, Boots, SelfRotated, Rotated, SaveRotated, Faults
<1>5. ASSUME AskSnapshot PROVE engine' \in Engines /\ status' \in Statuses /\ boot' \in Boots
  BY <1>5
     DEF AskSnapshot, gate, core, syncEngine, coordinator, Domains, Engines, Statuses,
         Boots, files, replaced
<1>6. ASSUME SnapshotFails PROVE engine' \in Engines /\ status' \in Statuses /\ boot' \in Boots
  BY <1>6
     DEF SnapshotFails, NoSnapshot, gate, core, syncEngine, coordinator, Domains, Engines,
         Statuses, Boots, files, replaced
<1>7. ASSUME SnapshotArrives
      PROVE  engine' \in Engines /\ status' \in Statuses /\ boot' \in Boots
  BY <1>7
     DEF SnapshotArrives, StopEngine, Quit, core, coordinator, Domains, Engines, Statuses,
         Boots, StopWaits, files, replaced
<1>8. ASSUME Install PROVE engine' \in Engines /\ status' \in Statuses /\ boot' \in Boots
  BY <1>8
     DEF Install, Installed, InstallFiles, StartEngine, NoSnapshot, gate, coordinator,
         Domains, Engines, Statuses, Boots, Replace, Installs
<1>9. ASSUME InstallFails PROVE engine' \in Engines /\ status' \in Statuses /\ boot' \in Boots
  BY <1>9
     DEF InstallFails, Installed, InstallFiles, FilesCutShort, NoSnapshot, coordinator,
         Domains, Engines, Statuses, Boots, Installs, NoRevoker
<1>10. ASSUME Halt PROVE engine' \in Engines /\ status' \in Statuses /\ boot' \in Boots
  BY <1>10
     DEF Halt, NoEngine, Quit, FilesCutShort, InstallFiles, NoSnapshot, core, coordinator,
         Domains, Engines, Statuses, Boots, Installs, NoRevoker, SaveRotated, files, replaced
<1>11. ASSUME Resume PROVE engine' \in Engines /\ status' \in Statuses /\ boot' \in Boots
  BY <1>11
     DEF Resume, StartEngine, gate, core, coordinator, Domains, Engines, Statuses, Boots,
         files, replaced
<1>12. ASSUME Bootstrap PROVE engine' \in Engines /\ status' \in Statuses /\ boot' \in Boots
  BY <1>12
     DEF Bootstrap, gate, core, syncEngine, coordinator, Domains, Engines, Statuses,
         Boots, files, replaced
<1>13. ASSUME Shutdown PROVE engine' \in Engines /\ status' \in Statuses /\ boot' \in Boots
  BY <1>13
     DEF Shutdown, StopEngine, Quit, gate, core, coordinator, Domains, Engines, Statuses,
         Boots, files, replaced
<1>14. ASSUME UNCHANGED vars
       PROVE  engine' \in Engines /\ status' \in Statuses /\ boot' \in Boots
  BY <1>14
     DEF vars, node, gate, core, syncEngine, coordinator, Domains, Engines, Statuses,
         Boots, files, replaced
<1>15. ASSUME \/ ServerStep
              \/ StreamEnds /\ UNCHANGED node
              \/ WatchdogStep
              \/ Arrive /\ UNCHANGED node
              \/ \E via \in Sources : StartRotation(via) /\ UNCHANGED node
              \/ \E via \in Sources : NodeApplyEntry(via)
              \/ NodeFinishRotation
              \/ Backup
              \/ NodeSubscribe
              \/ \E via \in Sources : NodeApplyNothing(via)
       PROVE  engine' \in Engines /\ status' \in Statuses /\ boot' \in Boots
  <2>1. UNCHANGED <<engine, status, boot>>
    BY <1>15
       DEF ServerStep, node, gate, core, syncEngine, StreamEnds, StreamDown, coordinator,
           WatchdogStep, Watchdog, Arrive, StartRotation, Take, NodeApplyEntry, ApplyEntry,
           NodeFinishRotation, FinishRotation, Backup, NodeSubscribe, TrySubscribe,
           NodeApplyNothing, ApplyNothing, files, replaced, Rotated, SaveRotated
  <2> QED
    BY <2>1 DEF Domains, Engines, Statuses, Boots
<1>16. ASSUME StraySave PROVE engine' \in Engines /\ status' \in Statuses /\ boot' \in Boots
  BY <1>16
     DEF StraySave, SelfRotated, ScheduleRebootstrap, syncEngine, coordinator, gate,
         Domains, Engines, Statuses, Boots, NoMark
<1>17. ASSUME StaleEnds PROVE engine' \in Engines /\ status' \in Statuses /\ boot' \in Boots
  BY <1>17
     DEF StaleEnds, StopEngine, Quit, coordinator, files, Domains, Engines, Statuses, Boots
<1> QED
  BY <1>1, <1>2, <1>3, <1>4, <1>5, <1>6, <1>7, <1>8, <1>9, <1>10, <1>11, <1>12, <1>13, <1>14,
     <1>15, <1>16, <1>17
     DEF NextIs

\* What waits in the chain may be said of the log.
LEMMA ChainStep ==
    ASSUME LogOK, StreamOK, Domains, Applied, NextIs
    PROVE  applyChain' \in Seq(Sendable)
<1>1. /\ applyChain \in Seq(Sendable) /\ <<>> \in Seq(Sendable)
      /\ wire \in Seq(Sendable)
  BY DEF Domains, ApplyChainType, StreamOK, StreamType, WireType
<1>2. ASSUME NEW via \in Sources, Comes(via), Take(via) PROVE applyChain' \in Seq(Sendable)
  BY <1>2, TakeIs
<1>3. ASSUME Arrive PROVE applyChain' \in Seq(Sendable)
  <2>1. wire # <<>> /\ applyChain' = Append(applyChain, Head(wire))
    BY <1>3 DEF Arrive
  <2>2. Head(wire) \in Sendable
    BY <1>1, <2>1
  <2> QED
    BY <1>1, <2>1, <2>2
<1>4. CASE applyChain' \in {applyChain, <<>>}
  BY <1>1, <1>4
<1> QED
  BY <1>2, <1>3, <1>4
     DEF NextIs, ServerStep, NodeSubscribe, TrySubscribe, StreamEnds, WatchdogStep,
         Watchdog, StreamDown, StartRotation, NodeApplyNothing, ApplyNothing, NodeApplyEntry,
         ApplyEntry, NodeFireUnsaved, FireUnsaved, NodeFinishRotation, FinishRotation,
         NodeFire, FireAnomaly, FireUnapplied, FireUnrotated, NodeFireUnsavedRotation, Fire,
         Quit, Backup, SelfRotate, AskSnapshot, SnapshotFails, SnapshotArrives, StopEngine,
         Install, StartEngine, InstallFails, Halt, NoEngine, Resume, Bootstrap, Shutdown,
         StraySave, StaleEnds, syncEngine, vars

\* There is a last event.
LEMMA LastEventIs ==
    ASSUME LogType
    PROVE  /\ LastEvent \in 0..Len(log)
           /\ LastEvent > 0 => log[LastEvent] # "hole"
           /\ \A m \in 1..Len(log) : m > LastEvent => log[m] = "hole"
<1> DEFINE E == {n \in 1..Len(log) : log[n] # "hole"}
<1>1. Len(log) \in Nat /\ E \in SUBSET Nat /\ \A n \in E : n <= Len(log)
  BY LogShape
<1>2. \E n \in 0..Len(log) :
          /\ n > 0 => log[n] # "hole"
          /\ \A m \in (n + 1)..Len(log) : log[m] = "hole"
  <2>1. CASE E = {}
    BY <1>1, <2>1
  <2>2. CASE E # {}
    <3>1. PICK n \in E : \A m \in E : m <= n
      BY <1>1, <2>2, GreatestNatural
    <3> QED
      BY <1>1, <3>1
  <2> QED
    BY <2>1, <2>2
<1>3. /\ LastEvent \in 0..Len(log) /\ (LastEvent > 0 => log[LastEvent] # "hole")
      /\ \A m \in (LastEvent + 1)..Len(log) : log[m] = "hole"
  BY <1>2 DEF LastEvent
<1> QED
  BY <1>1, <1>3

\* The positions after a step are in the log before it.
Reached ==
    /\ lastAppliedLsn' \in 0..Len(log) /\ rotating' \in 0..Len(log)
    /\ generation' \in 0..Len(log) /\ stale' \in 0..Len(log)
    /\ mark' \in (0..Len(log)) \cup {NoMark}
    /\ state' \in [lsn : 0..Len(log), generation : 0..Len(log), dirty : BOOLEAN]
    /\ snapshot'.lsn \in 0..Len(log) /\ snapshot'.generation \in 0..Len(log)

\* They are.
LEMMA ReachedStep ==
    ASSUME LogOK, StreamOK, Domains, Applied, Lifecycle, NextIs
    PROVE  Reached
<1>1. Len(log) \in Nat
  BY LogShape DEF LogOK
<1>2. ASSUME ServerStep PROVE Reached
  BY <1>2, <1>1
     DEF ServerStep, node, gate, core, syncEngine, Reached, Domains, NoMark, files,
         replaced
<1>3. ASSUME NodeSubscribe PROVE Reached
  BY <1>3, <1>1, LastEventIs
     DEF NodeSubscribe, TrySubscribe, core, syncEngine, coordinator, Reached, Domains,
         NoMark, LogOK, files, replaced
<1>4. ASSUME StreamEnds /\ UNCHANGED node PROVE Reached
  BY <1>4, <1>1
     DEF StreamEnds, StreamDown, node, gate, core, syncEngine, coordinator, Reached,
         Domains, NoMark, files, replaced
<1>5. ASSUME WatchdogStep PROVE Reached
  BY <1>5, <1>1
     DEF WatchdogStep, Watchdog, StreamDown, node, gate, core, syncEngine, coordinator,
         Reached, Domains, NoMark, files, replaced
<1>6. ASSUME Arrive /\ UNCHANGED node PROVE Reached
  BY <1>6, <1>1
     DEF Arrive, node, gate, core, coordinator, Reached, Domains, NoMark, files, replaced
<1>7. ASSUME NEW via \in Sources, StartRotation(via), UNCHANGED node PROVE Reached
  <2>1. engine = "running" /\ Incoming(via).lsn \in 1..Len(log)
    BY <1>7, IncomingIs, DueIs DEF StartRotation
  <2> QED
    BY <1>1, <1>7, <2>1
       DEF StartRotation, Take, node, gate, core, Reached, Domains, NoMark, files,
           replaced
<1>8. ASSUME NEW via \in Sources, NodeApplyNothing(via) PROVE Reached
  BY <1>8, <1>1
     DEF NodeApplyNothing, ApplyNothing, Take, core, gate, coordinator, Reached, Domains,
         NoMark, files, replaced
<1>9. ASSUME NEW via \in Sources, NodeApplyEntry(via) PROVE Reached
  <2>1. engine = "running" /\ Incoming(via).lsn \in 1..Len(log)
    BY <1>9, IncomingIs, DueIs DEF NodeApplyEntry, ApplyEntry
  <2>2. /\ state \in [lsn : 0..Len(log), generation : 0..Len(log), dirty : BOOLEAN]
        /\ generation \in 0..Len(log)
    BY DEF Domains
  <2>3. state' = [state EXCEPT !.lsn = Incoming(via).lsn, !.generation = generation]
    BY <1>9 DEF NodeApplyEntry, ApplyEntry
  <2>4. Incoming(via).lsn \in 0..Len(log)
    BY <1>1, <2>1
  <2>5. state' \in [lsn : 0..Len(log), generation : 0..Len(log), dirty : BOOLEAN]
    BY <2>2, <2>3, <2>4
  <2> QED
    BY <1>9, <2>4, <2>5 DEF NodeApplyEntry, ApplyEntry, gate, replaced, Reached, Domains
<1>10. ASSUME NEW via \in Sources, NodeFireUnsaved(via) PROVE Reached
  BY <1>10, <1>1
     DEF NodeFireUnsaved, FireUnsaved, Fire, Quit, ScheduleRebootstrap, gate, coordinator,
         replaced, Reached, Domains, NoMark
<1>11. ASSUME NodeFinishRotation PROVE Reached
  <2>0. rotating # 0 /\ engine # "none"
    BY <1>11
       DEF NodeFinishRotation, FinishRotation, Applied, RotatesNext, Rotated, SaveRotated
  <2>1. /\ rotating = lastAppliedLsn + 1 /\ log[rotating] = "rotate"
        /\ generation = Generation(lastAppliedLsn)
    BY <2>0 DEF Applied, AtApplied, RotatesNext
  <2>3. rotating \in 1..Len(log) /\ lastAppliedLsn \in Nat
    BY <1>1, <2>0 DEF Domains
  <2>2. Generation(rotating) = generation + 1 /\ Generation(rotating) \in 0..rotating
    <3>1. LogType /\ rotating \in Nat /\ lastAppliedLsn + 1 <= Len(log)
      BY <1>1, <2>1, <2>3 DEF LogOK
    <3>2. Generation(lastAppliedLsn + 1) = Generation(lastAppliedLsn) + 1
      BY <2>1, <2>3, <3>1, GenerationStep
    <3>3. Generation(rotating) \in 0..rotating
      BY <3>1, GenerationBound
    <3> QED
      BY <2>1, <3>2, <3>3
  <2>4. generation + 1 \in 0..Len(log) /\ rotating \in 0..Len(log)
    BY <1>1, <2>2, <2>3
  <2>5. /\ state \in [lsn : 0..Len(log), generation : 0..Len(log), dirty : BOOLEAN]
        /\ state' = [state EXCEPT !.lsn = rotating, !.generation = generation + 1]
    BY <1>11 DEF NodeFinishRotation, FinishRotation, Domains, Rotated, SaveRotated
  <2>6. state' \in [lsn : 0..Len(log), generation : 0..Len(log), dirty : BOOLEAN]
    BY <2>4, <2>5
  <2> QED
    BY <1>1, <1>11, <2>4, <2>6
       DEF NodeFinishRotation, FinishRotation, gate, replaced, Reached, Domains
<1>12. ASSUME NodeFire PROVE Reached
  BY <1>12, <1>1
     DEF NodeFire, FireAnomaly, FireUnapplied, FireUnrotated, Fire, Quit,
         ScheduleRebootstrap, gate, core, coordinator, Reached, Domains, NoMark, files,
         replaced
<1>13. ASSUME NodeFireUnsavedRotation PROVE Reached
  BY <1>13, <1>1
     DEF NodeFireUnsavedRotation, FireUnrotated, Quit, ScheduleRebootstrap, gate,
         coordinator, replaced, Reached, Domains, NoMark
<1>14. ASSUME Backup PROVE Reached
  BY <1>14, <1>1 DEF Backup, gate, syncEngine, replaced, Reached, Domains, NoMark
<1>15. ASSUME SelfRotate PROVE Reached
  <2>1. \/ state' = state
        \/ \E flagged \in BOOLEAN : state' = [state EXCEPT !.dirty = @ \/ flagged]
    BY <1>15 DEF SelfRotate, SelfRotated
  <2>2. state' \in [lsn : 0..Len(log), generation : 0..Len(log), dirty : BOOLEAN]
    BY <2>1 DEF Domains
  <2>3. UNCHANGED <<lastAppliedLsn, rotating, generation, stale, mark, snapshot>>
    BY <1>15 DEF SelfRotate, syncEngine, replaced, gate
  <2> QED
    BY <2>2, <2>3 DEF Reached, Domains
<1>16. ASSUME AskSnapshot PROVE Reached
  <2>1. ConsistencyPoint \in 0..Len(log)
    BY <1>1, LastRotationIs DEF ConsistencyPoint, LogOK
  <2>2. Generation(ConsistencyPoint) \in 0..Len(log)
    BY <1>1, <2>1, GenerationBound DEF LogOK
  <2>3. snapshot'.lsn = ConsistencyPoint /\ snapshot'.generation = Generation(ConsistencyPoint)
    BY <1>16 DEF AskSnapshot, Snapshot
  <2> QED
    BY <1>1, <1>16, <2>1, <2>2, <2>3
       DEF AskSnapshot, gate, core, syncEngine, Reached, Domains, NoMark, files, replaced
<1>17. ASSUME SnapshotFails PROVE Reached
  BY <1>17, <1>1
     DEF SnapshotFails, NoSnapshot, gate, core, syncEngine, coordinator, Reached, Domains,
         NoMark, files, replaced
<1>18. ASSUME SnapshotArrives PROVE Reached
  BY <1>18, <1>1
     DEF SnapshotArrives, StopEngine, Quit, core, coordinator, Reached, Domains, NoMark,
         StopWaits, files, replaced
<1>19. ASSUME Install PROVE Reached
  <2>1. {snapshot.lsn, snapshot.generation} \subseteq 0..Len(log)
    BY DEF Domains
  <2>2. state' = [lsn |-> snapshot.lsn, generation |-> snapshot.generation, dirty |-> FALSE]
    BY <1>19 DEF Install, Installed, Replace, Installs
  <2>3. /\ lastAppliedLsn' = snapshot.lsn /\ generation' = snapshot.generation
        /\ rotating' = 0 /\ mark' = mark /\ snapshot'.lsn = 0 /\ snapshot'.generation = 0
    BY <1>19 DEF Install, StartEngine, NoSnapshot, gate, Replace, Installs
  <2>4. state' \in [lsn : 0..Len(log), generation : 0..Len(log), dirty : BOOLEAN]
    BY <2>1, <2>2
  <2>5. mark' \in (0..Len(log)) \cup {NoMark} /\ 0 \in 0..Len(log)
    BY <1>1, <2>3 DEF Domains
  <2>6. stale' \in {rotating, stale}
    BY <1>19 DEF Install, Replace
  <2> QED
    BY <2>1, <2>3, <2>4, <2>5, <2>6 DEF Reached, Domains
<1>20. ASSUME InstallFails PROVE Reached
  <2>1. snapshot.lsn \in 0..Len(log) /\ snapshot.generation \in 0..Len(log)
    BY DEF Domains
  <2>2. state \in [lsn : 0..Len(log), generation : 0..Len(log), dirty : BOOLEAN]
    BY DEF Domains
  <2>3. \/ state' = [lsn |-> snapshot.lsn, generation |-> snapshot.generation, dirty |-> FALSE]
        \/ state' = state
    BY <1>20 DEF InstallFails, FilesCutShort, Installed, Installs, NoRevoker
  <2>4. state' \in [lsn : 0..Len(log), generation : 0..Len(log), dirty : BOOLEAN]
    <3>1. CASE state' = state
      BY <2>2, <3>1
    <3>2. CASE state' = [lsn |-> snapshot.lsn, generation |-> snapshot.generation,
                         dirty |-> FALSE]
      BY <2>1, <3>2
    <3> QED
      BY <2>3, <3>1, <3>2
  <2>5. snapshot' = NoSnapshot
    BY <1>20 DEF InstallFails
  <2>6. snapshot'.lsn = 0 /\ snapshot'.generation = 0
    BY <2>5 DEF NoSnapshot
  <2>7. rotating' = 0 /\ stale' \in {rotating, stale}
    BY <1>20 DEF InstallFails
  <2>8. UNCHANGED <<lastAppliedLsn, generation, mark>>
    BY <1>20 DEF InstallFails
  <2>9. 0 \in 0..Len(log)
    BY <1>1
  <2> QED
    BY <2>4, <2>6, <2>7, <2>8, <2>9 DEF Reached, Domains
<1>21. ASSUME Halt PROVE Reached
  BY <1>21, <1>1
     DEF Halt, NoEngine, Quit, FilesCutShort, InstallFiles, NoSnapshot, core, coordinator,
         Reached, Domains, NoMark, Installs, NoRevoker, SaveRotated, files, replaced
<1>22. ASSUME Resume PROVE Reached
  BY <1>22, <1>1
     DEF Resume, StartEngine, gate, core, coordinator, Reached, Domains, NoMark, files,
         replaced
<1>23. ASSUME Bootstrap PROVE Reached
  BY <1>23, <1>1
     DEF Bootstrap, gate, core, syncEngine, coordinator, Reached, Domains, NoMark, files,
         replaced
<1>24. ASSUME Shutdown PROVE Reached
  BY <1>24, <1>1
     DEF Shutdown, StopEngine, Quit, gate, core, coordinator, Reached, Domains, NoMark,
         files, replaced
<1>25. ASSUME UNCHANGED vars PROVE Reached
  BY <1>25, <1>1
     DEF vars, node, gate, core, syncEngine, coordinator, Reached, Domains, NoMark, files,
         replaced
<1>26. ASSUME StraySave PROVE Reached
  <2>1. state' = state \/ state' = [state EXCEPT !.dirty = TRUE]
    BY <1>26 DEF StraySave, SelfRotated
  <2>2. state' \in [lsn : 0..Len(log), generation : 0..Len(log), dirty : BOOLEAN]
    BY <2>1 DEF Domains
  <2> QED
    BY <1>26, <2>2 DEF StraySave, syncEngine, gate, Reached, Domains
<1>27. ASSUME StaleEnds PROVE Reached
  <2>1. /\ stale \in 0..Len(log)
        /\ state \in [lsn : 0..Len(log), generation : 0..Len(log), dirty : BOOLEAN]
    BY DEF Domains
  <2>2. Generation(stale) \in 0..Len(log)
    <3>1. Generation(stale) \in 0..stale
      BY <1>1, <2>1, GenerationBound DEF LogOK
    <3> QED
      BY <1>1, <2>1, <3>1
  <2>3. state' = [state EXCEPT !.lsn = stale, !.generation = Generation(stale)]
    BY <1>27 DEF StaleEnds
  <2>4. state' \in [lsn : 0..Len(log), generation : 0..Len(log), dirty : BOOLEAN]
    BY <2>1, <2>2, <2>3
  <2>5. /\ UNCHANGED <<lastAppliedLsn, rotating, generation, snapshot>> /\ mark' = NoMark
        /\ stale' = 0
    BY <1>27 DEF StaleEnds, StopEngine
  <2> QED
    BY <1>1, <2>4, <2>5 DEF Reached, Domains
<1> QED
  BY <1>2, <1>3, <1>4, <1>5, <1>6, <1>7, <1>8, <1>9, <1>10, <1>11, <1>12, <1>13, <1>14,
     <1>15, <1>16, <1>17, <1>18, <1>19, <1>20, <1>21, <1>22, <1>23, <1>24, <1>25, <1>26,
     <1>27
     DEF NextIs

\* So the domains stay.
LEMMA DomainsStep ==
    ASSUME LogOK, StreamOK, Domains, Flags, Applied, Lifecycle, NextIs, StreamNext
    PROVE  Domains'
<1>1. /\ engine' \in Engines /\ status' \in Statuses /\ boot' \in Boots
      /\ applyChain' \in Seq(Sendable) /\ Reached
  BY PhasesStep, ChainStep, ReachedStep
<1>2. ApplyChainType'
  BY <1>1, LogStep, SendableGrows DEF ApplyChainType
<1>3. Len(log) \in Nat /\ Len(log)' \in Nat /\ Len(log) <= Len(log)'
  BY LogStep, LogGrown, LogShape DEF LogOK, LogType, Grows
<1>4. 0..Len(log) \subseteq 0..Len(log)'
  BY <1>3
<1> QED
  BY <1>1, <1>2, <1>4 DEF Domains, Reached, Engines, Statuses, Boots

\* The flags stay Booleans.
LEMMA FlagsStep ==
    ASSUME Flags, NextIs
    PROVE  Flags'
<1>1. ASSUME ServerStep PROVE Flags'
  <2>1. UNCHANGED <<catchingUp, blobs>>
    BY <1>1 DEF ServerStep, node, gate, core, files, replaced
  <2>2. {up, zombie, silent}' \subseteq BOOLEAN
    BY <1>1
       DEF ServerStep, ServerNext, Publish, UnchangedButChain, PublishFails, stream,
           WriteStep, WriteBacklog, WriteEvent, WriteKeepalive, UnchangedByWrite, coordinator,
           ZombieCloses, Break, Stall, Heal, CoordinatorStop, CoordinatorStart, Flags
  <2> QED
    BY <2>1, <2>2 DEF Flags
<1>2. ASSUME NodeSubscribe PROVE Flags'
  BY <1>2
     DEF NodeSubscribe, TrySubscribe, core, syncEngine, coordinator, Flags, Subscribe,
         Ended, files, replaced
<1>3. ASSUME StreamEnds /\ UNCHANGED node PROVE Flags'
  BY <1>3
     DEF StreamEnds, StreamDown, node, gate, core, syncEngine, coordinator, Flags, Drop,
         Registered, stream, files, replaced
<1>4. ASSUME WatchdogStep PROVE Flags'
  BY <1>4
     DEF WatchdogStep, Watchdog, StreamDown, node, gate, core, syncEngine, coordinator,
         Flags, Drop, Registered, stream, files, replaced
<1>5. ASSUME Arrive /\ UNCHANGED node PROVE Flags'
  BY <1>5
     DEF Arrive, node, gate, core, coordinator, Flags, Drop, Registered, stream, files,
         replaced
<1>6. ASSUME NEW via \in Sources, StartRotation(via), UNCHANGED node PROVE Flags'
  BY <1>6 DEF StartRotation, Take, node, gate, core, coordinator, Flags, files, replaced
<1>7. ASSUME NEW via \in Sources, NodeApplyNothing(via) PROVE Flags'
  BY <1>7
     DEF NodeApplyNothing, ApplyNothing, Take, core, gate, coordinator, Flags, files,
         replaced
<1>8. ASSUME NEW via \in Sources, NodeApplyEntry(via) PROVE Flags'
  BY <1>8 DEF NodeApplyEntry, ApplyEntry, Take, gate, coordinator, Flags
<1>9. ASSUME NEW via \in Sources, NodeFireUnsaved(via) PROVE Flags'
  BY <1>9
     DEF NodeFireUnsaved, FireUnsaved, Fire, Quit, ScheduleRebootstrap, gate, coordinator,
         Flags, Drop, Registered, stream
<1>10. ASSUME NodeFinishRotation PROVE Flags'
  BY <1>10
     DEF NodeFinishRotation, FinishRotation, gate, coordinator, Flags, Drop, Registered,
         stream, Rotated, SaveRotated, files
<1>11. ASSUME NodeFire PROVE Flags'
  BY <1>11
     DEF NodeFire, FireAnomaly, FireUnapplied, FireUnrotated, Fire, Quit,
         ScheduleRebootstrap, gate, core, coordinator, Flags, Drop, Registered, stream, files,
         replaced
<1>12. ASSUME NodeFireUnsavedRotation PROVE Flags'
  BY <1>12
     DEF NodeFireUnsavedRotation, FireUnrotated, Quit, ScheduleRebootstrap, gate,
         coordinator, Flags, Drop, Registered, stream, Rotated, SaveRotated, files
<1>13. ASSUME Backup PROVE Flags'
  BY <1>13 DEF Backup, gate, syncEngine, coordinator, Flags, stream
<1>14. ASSUME SelfRotate PROVE Flags'
  <2>1. UNCHANGED <<up, zombie, silent, catchingUp>> /\ (blobs' = TRUE \/ blobs' = blobs)
    BY <1>14 DEF SelfRotate, SaveRotated, files, coordinator, stream, gate
  <2> QED
    BY <2>1 DEF Flags
<1>15. ASSUME AskSnapshot PROVE Flags'
  BY <1>15
     DEF AskSnapshot, gate, core, syncEngine, coordinator, Flags, stream, files, replaced
<1>16. ASSUME SnapshotFails PROVE Flags'
  BY <1>16
     DEF SnapshotFails, NoSnapshot, gate, core, syncEngine, coordinator, Flags, stream,
         files, replaced
<1>17. ASSUME SnapshotArrives PROVE Flags'
  BY <1>17
     DEF SnapshotArrives, StopEngine, Quit, core, coordinator, Flags, Drop, Registered,
         stream, StopWaits, files, replaced
<1>18. ASSUME Install PROVE Flags'
  BY <1>18
     DEF Install, Installed, InstallFiles, StartEngine, NoSnapshot, gate, coordinator,
         Flags, stream, Replace, Installs
<1>19. ASSUME InstallFails PROVE Flags'
  BY <1>19
     DEF InstallFails, Installed, InstallFiles, FilesCutShort, NoSnapshot, coordinator,
         Flags, stream, Installs, NoRevoker
<1>20. ASSUME Halt PROVE Flags'
  BY <1>20
     DEF Halt, NoEngine, Quit, FilesCutShort, InstallFiles, NoSnapshot, core, coordinator,
         Flags, Drop, Registered, stream, Installs, NoRevoker, SaveRotated, files, replaced
<1>21. ASSUME Resume PROVE Flags'
  BY <1>21 DEF Resume, StartEngine, gate, core, coordinator, Flags, stream, files, replaced
<1>22. ASSUME Bootstrap PROVE Flags'
  BY <1>22 DEF Bootstrap, gate, core, syncEngine, coordinator, Flags, stream, files, replaced
<1>23. ASSUME Shutdown PROVE Flags'
  BY <1>23
     DEF Shutdown, StopEngine, Quit, gate, core, coordinator, Flags, Drop, Registered,
         stream, files, replaced
<1>24. ASSUME UNCHANGED vars PROVE Flags'
  BY <1>24 DEF vars, node, gate, core, syncEngine, coordinator, Flags, stream, files, replaced
<1>25. ASSUME StraySave PROVE Flags'
  BY <1>25
     DEF StraySave, SelfRotated, ScheduleRebootstrap, syncEngine, coordinator, gate,
         Flags, stream
<1>26. ASSUME StaleEnds PROVE Flags'
  BY <1>26
     DEF StaleEnds, StopEngine, Quit, coordinator, files, Flags, Drop, Registered, stream
<1> QED
  BY <1>1, <1>2, <1>3, <1>4, <1>5, <1>6, <1>7, <1>8, <1>9, <1>10, <1>11, <1>12, <1>13, <1>14,
     <1>15, <1>16, <1>17, <1>18, <1>19, <1>20, <1>21, <1>22, <1>23, <1>24, <1>25, <1>26
     DEF NextIs

\* An engine that does not run has neither a stream nor a chain.
LEMMA DetachedStep ==
    ASSUME StreamOK, Lifecycle, Detached, NextIs
    PROVE  Detached'
<1>1. ASSUME ServerStep PROVE Detached'
  <2>1. UNCHANGED <<engine, applyChain>>
    BY <1>1 DEF ServerStep, syncEngine
  <2>2. call = "none" => call' = "none"
    BY <1>1
       DEF ServerStep, ServerNext, Publish, UnchangedButChain, PublishFails, stream,
           WriteStep, WriteBacklog, WriteEvent, WriteKeepalive, UnchangedByWrite,
           ZombieCloses, Break, Stall, Heal, CoordinatorStop, CoordinatorStart
  <2> QED
    BY <2>1, <2>2 DEF Detached
<1>2. ASSUME NodeSubscribe PROVE Detached'
  BY <1>2
     DEF NodeSubscribe, TrySubscribe, core, syncEngine, coordinator, Detached, Degraded,
         files, replaced
<1>3. ASSUME StreamEnds /\ UNCHANGED node PROVE Detached'
  BY <1>3
     DEF StreamEnds, StreamDown, node, gate, core, syncEngine, coordinator, Detached,
         Drop, Streaming, files, replaced
<1>4. ASSUME WatchdogStep PROVE Detached'
  BY <1>4
     DEF WatchdogStep, Watchdog, StreamDown, node, gate, core, syncEngine, coordinator,
         Detached, Drop, Streaming, files, replaced
<1>5. ASSUME Arrive /\ UNCHANGED node PROVE Detached'
  BY <1>5
     DEF Arrive, node, gate, core, coordinator, Detached, stream, StreamOK, files,
         replaced
<1>6. ASSUME NEW via \in Sources, StartRotation(via), UNCHANGED node PROVE Detached'
  BY <1>6
     DEF StartRotation, Take, node, gate, core, coordinator, Detached, Comes, files,
         replaced
<1>7. ASSUME NEW via \in Sources, NodeApplyNothing(via) PROVE Detached'
  BY <1>7
     DEF NodeApplyNothing, ApplyNothing, Take, core, gate, coordinator, Detached, Comes,
         files, replaced
<1>8. ASSUME NEW via \in Sources, NodeApplyEntry(via) PROVE Detached'
  BY <1>8 DEF NodeApplyEntry, ApplyEntry, Take, gate, coordinator, Detached, Comes
<1>9. ASSUME NEW via \in Sources, NodeFireUnsaved(via) PROVE Detached'
  BY <1>9
     DEF NodeFireUnsaved, FireUnsaved, Fire, Quit, ScheduleRebootstrap, gate, coordinator,
         Detached, Drop, Streaming, stream
<1>10. ASSUME NodeFinishRotation PROVE Detached'
  BY <1>10
     DEF NodeFinishRotation, FinishRotation, gate, coordinator, Detached, stream, Rotated,
         SaveRotated
<1>11. ASSUME NodeFire PROVE Detached'
  BY <1>11
     DEF NodeFire, FireAnomaly, FireUnapplied, FireUnrotated, Fire, Quit,
         ScheduleRebootstrap, gate, core, coordinator, Detached, Drop, Streaming, stream,
         files, replaced
<1>12. ASSUME NodeFireUnsavedRotation PROVE Detached'
  BY <1>12
     DEF NodeFireUnsavedRotation, FireUnrotated, Quit, ScheduleRebootstrap, gate,
         coordinator, Detached, Drop, Streaming, stream, Rotated, SaveRotated
<1>13. ASSUME Backup PROVE Detached'
  BY <1>13 DEF Backup, gate, syncEngine, coordinator, Detached, stream
<1>14. ASSUME SelfRotate PROVE Detached'
  BY <1>14
     DEF SelfRotate, ScheduleRebootstrap, gate, syncEngine, coordinator, Detached, stream,
         SelfRotated, Rotated, SaveRotated, Faults
<1>15. ASSUME AskSnapshot PROVE Detached'
  BY <1>15
     DEF AskSnapshot, gate, core, syncEngine, coordinator, Detached, stream, files,
         replaced
<1>16. ASSUME SnapshotFails PROVE Detached'
  BY <1>16
     DEF SnapshotFails, NoSnapshot, gate, core, syncEngine, coordinator, Detached, stream,
         files, replaced
<1>17. ASSUME SnapshotArrives PROVE Detached'
  BY <1>17
     DEF SnapshotArrives, StopEngine, Quit, core, coordinator, Detached, Drop, Streaming,
         stream, StopWaits, files, replaced
<1>18. ASSUME Install PROVE Detached'
  BY <1>18
     DEF Install, Installed, InstallFiles, StartEngine, NoSnapshot, gate, coordinator,
         Detached, stream, Replace, Installs, Lifecycle
<1>19. ASSUME InstallFails PROVE Detached'
  BY <1>19
     DEF InstallFails, Installed, InstallFiles, FilesCutShort, NoSnapshot, coordinator,
         Detached, stream, Lifecycle, Installs, NoRevoker
<1>20. ASSUME Halt PROVE Detached'
  BY <1>20
     DEF Halt, NoEngine, Quit, FilesCutShort, InstallFiles, NoSnapshot, core, coordinator,
         Detached, Drop, Streaming, stream, Installs, NoRevoker, SaveRotated, files, replaced
<1>21. ASSUME Resume PROVE Detached'
  BY <1>21 DEF Resume, StartEngine, gate, core, coordinator, Detached, stream, files, replaced
<1>22. ASSUME Bootstrap PROVE Detached'
  BY <1>22
     DEF Bootstrap, gate, core, syncEngine, coordinator, Detached, stream, files, replaced
<1>23. ASSUME Shutdown PROVE Detached'
  BY <1>23
     DEF Shutdown, StopEngine, Quit, gate, core, coordinator, Detached, Drop, Streaming,
         stream, files, replaced
<1>24. ASSUME UNCHANGED vars PROVE Detached'
  BY <1>24
     DEF vars, node, gate, core, syncEngine, coordinator, Detached, stream, files,
         replaced
<1>25. ASSUME StraySave PROVE Detached'
  BY <1>25
     DEF StraySave, SelfRotated, ScheduleRebootstrap, syncEngine, coordinator, gate,
         Detached, stream
<1>26. ASSUME StaleEnds PROVE Detached'
  BY <1>26
     DEF StaleEnds, StopEngine, Quit, coordinator, files, Detached, Drop, Streaming, stream
<1> QED
  BY <1>1, <1>2, <1>3, <1>4, <1>5, <1>6, <1>7, <1>8, <1>9, <1>10, <1>11, <1>12, <1>13, <1>14,
     <1>15, <1>16, <1>17, <1>18, <1>19, <1>20, <1>21, <1>22, <1>23, <1>24, <1>25, <1>26
     DEF NextIs

\* An overwritten state stays so, as nothing that it exempts is in it alone.
LEMMA OverwrittenStays ==
    ASSUME LogOK, Domains, Grows, Overwritten,
           UNCHANGED <<engine, status, boot, mark, stray, stale>>, state'.lsn = state.lsn,
           exempt \cup fileCurrent \subseteq exempt' \cup fileCurrent'
    PROVE  Overwritten'
<1>1. state.lsn \in Int /\ state.lsn <= Len(log) /\ 1 \in Int
  BY LogShape DEF Domains, LogOK
<1>2. EntriesIn(1, state.lsn)' = EntriesIn(1, state.lsn)
  <2>1. EntriesIn(1, state.lsn)' = EntriesIn(1, state'.lsn)
    BY <1>1 DEF Grows
  <2> QED
    BY <2>1
<1> QED
  BY <1>2 DEF Overwritten

\* An engine is where the state file is, unless the state has been overwritten.
LEMMA AtStateStep ==
    ASSUME LogOK, StreamOK, Domains, Grows, AtState, Replacing, Lifecycle, RotatesNext, NextIs
    PROVE  AtState'
<1>1. ASSUME engine # "none" => Past, engine' # "none" => engine # "none",
             state'.lsn = state.lsn, state'.generation = state.generation,
             UNCHANGED <<lastAppliedLsn, generation>>
      PROVE  AtState'
  BY <1>1 DEF AtState, Past
<1>2. ASSUME UNCHANGED <<engine, status, boot, mark, stray, stale, lastAppliedLsn, generation>>,
             state' = state,
             exempt \cup fileCurrent \subseteq exempt' \cup fileCurrent'
      PROVE  AtState'
  <2>1. CASE engine # "none" => Past
    BY <1>1, <1>2, <2>1
  <2>2. CASE Overwritten
    BY <1>2, <2>2, OverwrittenStays DEF AtState
  <2> QED
    BY <2>1, <2>2 DEF AtState
<1>3. engine # "none" /\ (engine # "stopped" \/ boot # "no" \/ status # "closing"
                             \/ stray # NoCopy \/ stale # 0) => Past
  BY DEF AtState, Overwritten
<1>4. ASSUME state'.lsn = lastAppliedLsn', state'.generation = generation'
      PROVE  AtState'
  BY <1>4 DEF AtState, Past
<1>5. \A lsn, gen : LET new == [state EXCEPT !.lsn = lsn, !.generation = gen]
                    IN  new.lsn = lsn /\ new.generation = gen
  BY DEF Domains
<1>6. ASSUME NEW via \in Sources, NodeApplyEntry(via) PROVE AtState'
  <2>1. generation' = generation
        /\ state' = [state EXCEPT !.lsn = lastAppliedLsn', !.generation = generation]
    BY <1>6 DEF NodeApplyEntry, ApplyEntry
  <2> QED
    BY <1>4, <1>5, <2>1
<1>7. ASSUME NodeFinishRotation PROVE AtState'
  <2>1. state' = [state EXCEPT !.lsn = lastAppliedLsn', !.generation = generation']
    BY <1>7 DEF NodeFinishRotation
  <2> QED
    BY <1>4, <1>5, <2>1
<1>8. ASSUME Install PROVE AtState'
  BY <1>4, <1>8 DEF Install, Installed, StartEngine
<1>9. ASSUME Resume PROVE AtState'
  BY <1>4, <1>9 DEF Resume, StartEngine
<1>10. ASSUME \/ \E via \in Sources : NodeFireUnsaved(via)
              \/ NodeFire
              \/ NodeFireUnsavedRotation
       PROVE  AtState'
  <2>1. engine = "running" /\ UNCHANGED <<state, lastAppliedLsn, generation>>
    BY <1>10
       DEF NodeFireUnsaved, FireUnsaved, NodeFire, FireAnomaly, FireUnapplied, FireUnrotated,
           Fire, NodeFireUnsavedRotation, Comes
  <2> QED
    BY <1>1, <1>3, <2>1
<1>11. ASSUME SelfRotate PROVE AtState'
  <2>1. UNCHANGED <<engine, status, mark, stray, stale, lastAppliedLsn, generation>>
    BY <1>11 DEF SelfRotate, syncEngine, replaced, gate
  <2>2. CASE status = "closing"
    <3>1. UNCHANGED <<state, boot>> /\ exempt \cup fileCurrent \subseteq exempt'
      BY <1>11, <2>2 DEF SelfRotate, SelfRotated
    <3> QED
      BY <1>2, <2>1, <3>1
  <2>3. CASE status # "closing"
    <3>1. \/ state' = state
          \/ \E flagged \in BOOLEAN : state' = [state EXCEPT !.dirty = @ \/ flagged]
      BY <1>11, <2>3 DEF SelfRotate, SelfRotated
    <3>2. state'.lsn = state.lsn /\ state'.generation = state.generation
      BY <3>1 DEF Domains
    <3> QED
      BY <1>1, <1>3, <2>1, <2>3, <3>2
  <2> QED
    BY <2>2, <2>3
<1>12. ASSUME AskSnapshot \/ SnapshotFails \/ SnapshotArrives \/ Shutdown PROVE AtState'
  <2>1. /\ boot # "no" \/ status = "up"
        /\ UNCHANGED <<state, lastAppliedLsn, generation>>
        /\ engine' # "none" => engine # "none"
    BY <1>12
       DEF AskSnapshot, SnapshotFails, SnapshotArrives, Shutdown, StopEngine, Quit, syncEngine
  <2> QED
    BY <1>1, <1>3, <2>1
<1>13. ASSUME InstallFails \/ Halt PROVE AtState'
  BY <1>13 DEF InstallFails, Halt, NoEngine, Quit, AtState
<1>14. ASSUME StraySave PROVE AtState'
  <2>1. stray # NoCopy /\ UNCHANGED <<engine, lastAppliedLsn, generation>>
    BY <1>14 DEF StraySave, syncEngine
  <2>2. state' = state \/ state' = [state EXCEPT !.dirty = @ \/ TRUE]
    BY <1>14 DEF StraySave, SelfRotated
  <2>3. state'.lsn = state.lsn /\ state'.generation = state.generation
    BY <2>2 DEF Domains
  <2> QED
    BY <1>1, <1>3, <2>1, <2>3
<1>15. ASSUME StaleEnds PROVE AtState'
  <2>1. CASE engine = "none"
    BY <1>15, <2>1 DEF StaleEnds, StopEngine, Quit, AtState
  <2>2. CASE engine # "none"
    <3>1. /\ engine' = "stopped" /\ status' = "closing" /\ boot' = "no" /\ mark' = NoMark
          /\ stray' = NoCopy /\ stale' = 0
      BY <1>15, <2>2 DEF StaleEnds, StopEngine, Quit, Replacing
    <3>2. state'.lsn = stale
      BY <1>5, <1>15 DEF StaleEnds
    <3>3. EntriesIn(1, state.lsn)' = EntriesIn(1, stale)
      <4>1. log' = log
        BY <1>15 DEF StaleEnds, coordinator
      <4> QED
        BY <3>2, <4>1 DEF EntriesIn
    <3>4. exempt' = exempt \cup EntriesIn(1, stale)
      BY <1>15 DEF StaleEnds
    <3> QED
      BY <3>1, <3>3, <3>4 DEF AtState, Overwritten
  <2> QED
    BY <2>1, <2>2
<1>16. ASSUME Bootstrap PROVE AtState'
  BY <1>16 DEF Bootstrap, syncEngine, AtState, Lifecycle
<1>17. ASSUME Backup PROVE AtState'
  <2>1. exempt \cup fileCurrent \subseteq exempt' \cup fileCurrent'
    BY <1>17 DEF Backup
  <2> QED
    BY <1>2, <1>17, <2>1 DEF Backup, syncEngine, gate, replaced
<1>18. ASSUME NodeSubscribe \/ \E via \in Sources : NodeApplyNothing(via) PROVE AtState'
  <2>1. engine = "running" /\ UNCHANGED <<engine, state, lastAppliedLsn, generation>>
    BY <1>18
       DEF NodeSubscribe, TrySubscribe, Degraded, NodeApplyNothing, ApplyNothing, Take, Comes,
           syncEngine
  <2> QED
    BY <1>1, <1>3, <2>1
<1>19. ASSUME \/ ServerStep
              \/ StreamEnds /\ UNCHANGED node
              \/ WatchdogStep
              \/ Arrive /\ UNCHANGED node
              \/ \E via \in Sources : StartRotation(via) /\ UNCHANGED node
              \/ UNCHANGED vars
       PROVE  AtState'
  <2>1. UNCHANGED <<engine, lastAppliedLsn, generation>> /\ UNCHANGED node
    BY <1>19
       DEF ServerStep, syncEngine, StreamEnds, StreamDown, WatchdogStep, Watchdog, Arrive,
           StartRotation, Take, vars
  <2> QED
    BY <1>2, <2>1 DEF node, gate, core, files, replaced
<1> QED
  BY <1>6, <1>7, <1>8, <1>9, <1>10, <1>11, <1>12, <1>13, <1>14, <1>15, <1>16, <1>17, <1>18,
     <1>19
     DEF NextIs

\* A rotation that is awaited is of the next event.
LEMMA RotatesNextStep ==
    ASSUME LogOK, StreamOK, Domains, RotatesNext, Grows, NextIs
    PROVE  RotatesNext'
<1>1. /\ Len(log) \in Nat /\ rotating \in 0..Len(log)
      /\ \A n \in 1..Len(log) : log'[n] = log[n]
  BY LogShape DEF LogOK, Domains, Grows
<1>2. ASSUME NEW via \in Sources, StartRotation(via), UNCHANGED node PROVE RotatesNext'
  <2>1. Incoming(via).lsn = lastAppliedLsn + 1 /\ Incoming(via).lsn \in 1..Len(log)
    BY <1>2, IncomingIs, DueIs DEF StartRotation
  <2>2. log[Incoming(via).lsn] = "rotate" /\ engine = "running"
    BY <1>2, IncomingIs, DueIs DEF StartRotation
  <2>3. /\ engine' = "running" /\ lastAppliedLsn' = lastAppliedLsn
        /\ rotating' = lastAppliedLsn + 1 /\ log'[rotating'] = "rotate"
    BY <1>1, <1>2, <2>1, <2>2 DEF StartRotation, Take
  <2> QED
    BY <2>3 DEF RotatesNext
<1>3. ASSUME NEW via \in Sources, NodeApplyNothing(via) PROVE RotatesNext'
  BY <1>3, <1>1
     DEF NodeApplyNothing, ApplyNothing, Take, core, gate, coordinator, RotatesNext,
         Comes, files, replaced
<1>4. ASSUME NEW via \in Sources, NodeApplyEntry(via) PROVE RotatesNext'
  BY <1>4, <1>1 DEF NodeApplyEntry, ApplyEntry, Take, gate, coordinator, RotatesNext, Comes
<1>5. ASSUME NEW via \in Sources, NodeFireUnsaved(via) PROVE RotatesNext'
  BY <1>5, <1>1
     DEF NodeFireUnsaved, FireUnsaved, Fire, Quit, ScheduleRebootstrap, gate, coordinator,
         RotatesNext, Comes
<1>6. ASSUME NodeFinishRotation PROVE RotatesNext'
  BY <1>6, <1>1
     DEF NodeFinishRotation, FinishRotation, gate, coordinator, RotatesNext, Rotated,
         SaveRotated
<1>7. ASSUME NodeFire PROVE RotatesNext'
  BY <1>7, <1>1
     DEF NodeFire, FireAnomaly, FireUnapplied, FireUnrotated, Fire, Quit,
         ScheduleRebootstrap, gate, core, coordinator, RotatesNext, Comes, files, replaced
<1>8. ASSUME NodeFireUnsavedRotation PROVE RotatesNext'
  BY <1>8, <1>1
     DEF NodeFireUnsavedRotation, FireUnrotated, Quit, ScheduleRebootstrap, gate,
         coordinator, RotatesNext, Comes, Rotated, SaveRotated
<1>9. ASSUME SnapshotArrives PROVE RotatesNext'
  BY <1>9, <1>1
     DEF SnapshotArrives, StopEngine, Quit, core, coordinator, RotatesNext, StopWaits,
         files, replaced
<1>10. ASSUME Install PROVE RotatesNext'
  BY <1>10, <1>1
     DEF Install, Installed, InstallFiles, StartEngine, NoSnapshot, gate, coordinator,
         RotatesNext, Replace, Installs
<1>11. ASSUME InstallFails PROVE RotatesNext'
  BY <1>11, <1>1
     DEF InstallFails, Installed, InstallFiles, FilesCutShort, NoSnapshot, coordinator,
         RotatesNext, Installs, NoRevoker
<1>12. ASSUME Halt PROVE RotatesNext'
  BY <1>12, <1>1
     DEF Halt, NoEngine, Quit, FilesCutShort, InstallFiles, NoSnapshot, core, coordinator,
         RotatesNext, Installs, NoRevoker, SaveRotated, files, replaced
<1>13. ASSUME Resume PROVE RotatesNext'
  BY <1>13, <1>1
     DEF Resume, StartEngine, gate, core, coordinator, RotatesNext, files, replaced
<1>14. ASSUME Shutdown PROVE RotatesNext'
  BY <1>14, <1>1
     DEF Shutdown, StopEngine, Quit, gate, core, coordinator, RotatesNext, files, replaced
<1>15. ASSUME \/ ServerStep
              \/ NodeSubscribe
              \/ StreamEnds /\ UNCHANGED node
              \/ WatchdogStep
              \/ Arrive /\ UNCHANGED node
              \/ Backup
              \/ SnapshotFails
              \/ AskSnapshot
              \/ SelfRotate
              \/ UNCHANGED vars
              \/ Bootstrap
       PROVE  RotatesNext'
  <2>1. UNCHANGED <<engine, rotating, lastAppliedLsn>>
    BY <1>15
       DEF ServerStep, node, gate, core, syncEngine, NodeSubscribe, TrySubscribe,
           coordinator, StreamEnds, StreamDown, WatchdogStep, Watchdog, Arrive, Backup,
           SnapshotFails, NoSnapshot, AskSnapshot, SelfRotate, ScheduleRebootstrap, vars,
           Bootstrap, files, replaced, SelfRotated, Rotated, SaveRotated, Faults
  <2> QED
    BY <2>1, <1>1 DEF RotatesNext
<1>16. ASSUME StraySave PROVE RotatesNext'
  BY <1>16, <1>1
     DEF StraySave, SelfRotated, ScheduleRebootstrap, syncEngine, coordinator, gate,
         RotatesNext
<1>17. ASSUME StaleEnds PROVE RotatesNext'
  BY <1>17, <1>1
     DEF StaleEnds, StopEngine, Quit, coordinator, files, RotatesNext
<1> QED
  BY <1>2, <1>3, <1>4, <1>5, <1>6, <1>7, <1>8, <1>9, <1>10, <1>11, <1>12, <1>13, <1>14,
     <1>15, <1>16, <1>17
     DEF NextIs

\* An event that is applied is saved with the generation of its position.
LEMMA WalkStep ==
    ASSUME LogOK, StreamOK, Domains, Applied,
           NodeFinishRotation \/ \E via \in Sources : NodeApplyEntry(via)
    PROVE  /\ engine # "none" /\ lastAppliedLsn' \in 0..Len(log)
           /\ generation' = Generation(lastAppliedLsn')
           /\ state'.lsn = lastAppliedLsn' /\ state'.generation = generation'
<1>1. ASSUME state' = [state EXCEPT !.lsn = lastAppliedLsn', !.generation = generation']
      PROVE  state'.lsn = lastAppliedLsn' /\ state'.generation = generation'
  BY <1>1 DEF Domains
<1>2. ASSUME NEW via \in Sources, NodeApplyEntry(via)
      PROVE  /\ engine # "none" /\ lastAppliedLsn' \in 0..Len(log)
             /\ generation' = Generation(lastAppliedLsn')
             /\ state' = [state EXCEPT !.lsn = lastAppliedLsn', !.generation = generation']
  <2>1. /\ engine # "none" /\ lastAppliedLsn' = Incoming(via).lsn /\ generation' = generation
        /\ Incoming(via).lsn = lastAppliedLsn + 1
        /\ Incoming(via).lsn \in 1..Len(log) /\ log[Incoming(via).lsn] = "entry"
    BY <1>2, IncomingIs, DueIs DEF NodeApplyEntry, ApplyEntry
  <2>2. generation = Generation(lastAppliedLsn) /\ lastAppliedLsn \in Nat
    BY <2>1 DEF Applied, AtApplied, Domains
  <2>3. LogType /\ lastAppliedLsn + 1 <= Len(log) /\ log[lastAppliedLsn + 1] = "entry"
    BY <2>1, <2>2 DEF LogOK
  <2>4. Generation(lastAppliedLsn + 1) = Generation(lastAppliedLsn) + 0
    BY <2>2, <2>3, GenerationStep
  <2>5. Generation(lastAppliedLsn) \in Nat
    BY <2>2, <2>3, GenerationBound
  <2>6. generation' = Generation(lastAppliedLsn')
    BY <2>1, <2>2, <2>4, <2>5
  <2>7. state' = [state EXCEPT !.lsn = lastAppliedLsn', !.generation = generation']
    BY <1>2, <2>1 DEF NodeApplyEntry
  <2>8. lastAppliedLsn' \in 0..Len(log)
    BY <2>1
  <2> QED
    BY <2>1, <2>6, <2>7, <2>8
<1>3. ASSUME NodeFinishRotation
      PROVE  /\ engine # "none" /\ lastAppliedLsn' \in 0..Len(log)
             /\ generation' = Generation(lastAppliedLsn')
             /\ state' = [state EXCEPT !.lsn = lastAppliedLsn', !.generation = generation']
  <2>1. /\ rotating # 0 /\ engine # "none" /\ rotating = lastAppliedLsn + 1
        /\ lastAppliedLsn' = rotating /\ generation' = generation + 1
        /\ log[rotating] = "rotate"
    BY <1>3 DEF NodeFinishRotation, FinishRotation, Applied, RotatesNext
  <2>2. /\ generation = Generation(lastAppliedLsn) /\ lastAppliedLsn \in Nat
        /\ rotating \in 0..Len(log)
    BY <2>1 DEF Applied, AtApplied, Domains
  <2>3. LogType /\ lastAppliedLsn + 1 <= Len(log) /\ log[lastAppliedLsn + 1] = "rotate"
    BY <2>1, <2>2 DEF LogOK
  <2>4. Generation(lastAppliedLsn + 1) = Generation(lastAppliedLsn) + 1
    BY <2>2, <2>3, GenerationStep
  <2>5. state' = [state EXCEPT !.lsn = lastAppliedLsn', !.generation = generation']
    BY <1>3 DEF NodeFinishRotation
  <2> QED
    BY <2>1, <2>2, <2>4, <2>5
<1> QED
  BY <1>1, <1>2, <1>3

\* The generation that is saved is that of the position.
LEMMA AtGenerationStep ==
    ASSUME LogOK, StreamOK, Domains, Domains', Applied, Lifecycle, Asking, Grows, NextIs
    PROVE  AtGeneration'
<1>1. ASSUME state'.generation = Generation(state'.lsn), state'.lsn \in 0..Len(log)
      PROVE  AtGeneration'
  <2>1. Generation(state.lsn)' = Generation(state'.lsn)
    BY <1>1, LogShape DEF Grows, LogOK
  <2> QED
    BY <1>1, <2>1 DEF AtGeneration
<1>2. ASSUME state'.generation = state.generation, state'.lsn = state.lsn PROVE AtGeneration'
  BY <1>1, <1>2 DEF Applied, AtGeneration, Domains
<1>3. ASSUME NodeFinishRotation \/ \E via \in Sources : NodeApplyEntry(via) PROVE AtGeneration'
  BY <1>1, <1>3, WalkStep
<1>4. ASSUME SelfRotate \/ StraySave PROVE AtGeneration'
  <2>1. \/ state' = state
        \/ \E flagged \in BOOLEAN : state' = [state EXCEPT !.dirty = @ \/ flagged]
    BY <1>4 DEF SelfRotate, StraySave, SelfRotated
  <2>2. state'.generation = state.generation /\ state'.lsn = state.lsn
    BY <2>1 DEF Domains
  <2> QED
    BY <1>2, <2>2
<1>5. ASSUME Install \/ InstallFails PROVE AtGeneration'
  <2>1. boot \in {"stopping", "installing"}
    BY <1>5 DEF Install, InstallFails, Installs
  <2>2. \/ state' = state
        \/ state'.lsn = snapshot.lsn /\ state'.generation = snapshot.generation
    BY <1>5 DEF Install, InstallFails, FilesCutShort, Installed
  <2> QED
    BY <1>1, <1>2, <2>1, <2>2 DEF Asking, SnapshotOf, Domains
<1>6. ASSUME StaleEnds PROVE AtGeneration'
  <2>1. state' = [state EXCEPT !.lsn = stale, !.generation = Generation(stale)]
    BY <1>6 DEF StaleEnds
  <2>2. state'.lsn = stale /\ state'.generation = Generation(stale) /\ stale \in 0..Len(log)
    BY <2>1 DEF Domains
  <2> QED
    BY <1>1, <2>2
<1>7. ASSUME \/ ServerStep
             \/ NodeSubscribe
             \/ StreamEnds /\ UNCHANGED node
             \/ WatchdogStep
             \/ Arrive /\ UNCHANGED node
             \/ \E via \in Sources : NodeApplyNothing(via)
             \/ Backup
             \/ SnapshotFails
             \/ \E via \in Sources : StartRotation(via) /\ UNCHANGED node
             \/ \E via \in Sources : NodeFireUnsaved(via)
             \/ NodeFire
             \/ NodeFireUnsavedRotation
             \/ AskSnapshot
             \/ SnapshotArrives
             \/ Halt
             \/ Resume
             \/ Bootstrap
             \/ Shutdown
             \/ UNCHANGED vars
      PROVE  AtGeneration'
  <2>1. state' = state
    BY <1>7
       DEF ServerStep, node, NodeSubscribe, StreamEnds, WatchdogStep, Arrive,
           NodeApplyNothing, Backup, SnapshotFails, StartRotation, NodeFireUnsaved, NodeFire,
           NodeFireUnsavedRotation, AskSnapshot, SnapshotArrives, Halt, FilesCutShort, Resume,
           Bootstrap, Shutdown, vars
  <2> QED
    BY <2>1, <1>2
<1> QED
  BY <1>3, <1>4, <1>5, <1>6, <1>7 DEF NextIs

\* So is that of an engine.
LEMMA AtAppliedStep ==
    ASSUME LogOK, StreamOK, Domains, Domains', Applied, Lifecycle, Asking, Grows, NextIs
    PROVE  AtApplied'
<1>1. ASSUME generation' = Generation(lastAppliedLsn'), lastAppliedLsn' \in 0..Len(log)
      PROVE  AtApplied'
  <2>1. Generation(lastAppliedLsn)' = Generation(lastAppliedLsn')
    BY <1>1, LogShape DEF Grows, LogOK
  <2> QED
    BY <1>1, <2>1 DEF AtApplied
<1>2. ASSUME UNCHANGED <<lastAppliedLsn, generation>>, engine' # "none" => engine # "none"
      PROVE  AtApplied'
  <2>1. CASE engine # "none"
    BY <1>1, <1>2, <2>1 DEF Applied, AtApplied, Domains
  <2>2. CASE engine' = "none"
    BY <2>2 DEF AtApplied
  <2> QED
    BY <1>2, <2>1, <2>2
<1>3. ASSUME NodeFinishRotation \/ \E via \in Sources : NodeApplyEntry(via) PROVE AtApplied'
  BY <1>1, <1>3, WalkStep
<1>4. ASSUME Install PROVE AtApplied'
  <2>1. boot \in {"stopping", "installing"}
    BY <1>4 DEF Install, Installs
  <2>2. lastAppliedLsn' = snapshot.lsn /\ generation' = snapshot.generation
    BY <1>4 DEF Install, StartEngine
  <2> QED
    BY <1>1, <2>1, <2>2 DEF Asking, SnapshotOf, Domains
<1>5. ASSUME Resume PROVE AtApplied'
  BY <1>1, <1>5 DEF Resume, StartEngine, Applied, AtGeneration, Domains
<1>6. ASSUME InstallFails \/ Halt PROVE AtApplied'
  BY <1>6 DEF InstallFails, Halt, NoEngine, Quit, AtApplied
<1>7. ASSUME \/ ServerStep
             \/ NodeSubscribe
             \/ StreamEnds /\ UNCHANGED node
             \/ WatchdogStep
             \/ Arrive /\ UNCHANGED node
             \/ \E via \in Sources : NodeApplyNothing(via)
             \/ Backup
             \/ SelfRotate
             \/ SnapshotFails
             \/ \E via \in Sources : StartRotation(via) /\ UNCHANGED node
             \/ AskSnapshot
             \/ StraySave
             \/ Bootstrap
             \/ UNCHANGED vars
      PROVE  AtApplied'
  <2>1. UNCHANGED <<lastAppliedLsn, generation, engine>>
    BY <1>7
       DEF ServerStep, syncEngine, NodeSubscribe, TrySubscribe, StreamEnds, StreamDown,
           WatchdogStep, Watchdog, Arrive, NodeApplyNothing, ApplyNothing, Take, Backup,
           SelfRotate, SnapshotFails, StartRotation, AskSnapshot, StraySave, Bootstrap, vars
  <2> QED
    BY <2>1, <1>2
<1>8. ASSUME \/ \E via \in Sources : NodeFireUnsaved(via)
             \/ NodeFire
             \/ NodeFireUnsavedRotation
             \/ SnapshotArrives
             \/ StaleEnds
             \/ Shutdown
      PROVE  AtApplied'
  <2>1. UNCHANGED <<lastAppliedLsn, generation>> /\ (engine' # "none" => engine # "none")
    BY <1>8
       DEF NodeFireUnsaved, FireUnsaved, NodeFire, FireAnomaly, FireUnapplied, FireUnrotated,
           Fire, NodeFireUnsavedRotation, Comes, SnapshotArrives, StaleEnds, Shutdown,
           StopEngine, Quit
  <2> QED
    BY <2>1, <1>2
<1> QED
  BY <1>3, <1>4, <1>5, <1>6, <1>7, <1>8 DEF NextIs

\* A rotation that is left behind is one of the log, and a shutdown waits for it.
LEMMA ReplacingStep ==
    ASSUME LogOK, Domains, RotatesNext, Replacing, Lifecycle, Grows, NextIs
    PROVE  Replacing'
<1>1. ASSUME stale' # 0 => /\ stale' \in 1..Len(log) /\ log[stale'] = "rotate"
                           /\ status' = "closing" /\ boot' = "no"
      PROVE  Replacing'
  <2>1. CASE stale' = 0
    BY <2>1 DEF Replacing
  <2>2. CASE stale' # 0
    <3>1. log'[stale'] = log[stale']
      BY <1>1, <2>2 DEF Grows
    <3> QED
      BY <1>1, <2>2, <3>1 DEF Replacing
  <2> QED
    BY <2>1, <2>2
<1>2. /\ stale # 0 => stale \in 1..Len(log)
      /\ rotating # 0 => rotating \in 1..Len(log) /\ log[rotating] = "rotate"
  BY LogShape DEF Domains, LogOK, RotatesNext
<1>3. ASSUME UNCHANGED stale, stale # 0 => status' = "closing" /\ boot' = "no"
      PROVE  Replacing'
  BY <1>1, <1>2, <1>3 DEF Replacing
<1>4. ASSUME Install \/ InstallFails PROVE Replacing'
  <2>1. boot \in {"stopping", "installing"} /\ (rotating # 0 => boot = "installing")
        /\ stale' = IF rotating # 0 THEN rotating ELSE stale
    BY <1>4 DEF Install, InstallFails, Installs, Replace
  <2>2. stale = 0
    BY <2>1 DEF Replacing
  <2>3. rotating # 0 => status' = "closing" /\ boot' = "no"
    BY <1>4, <2>1 DEF Install, InstallFails, Lifecycle
  <2> QED
    BY <1>1, <1>2, <2>1, <2>2, <2>3
<1>5. ASSUME Halt \/ StaleEnds PROVE Replacing'
  BY <1>5 DEF Halt, StaleEnds, Replacing
<1>6. ASSUME AskSnapshot \/ SnapshotFails \/ SnapshotArrives \/ Resume \/ Bootstrap \/ Shutdown
      PROVE  Replacing'
  <2>1. UNCHANGED stale /\ (boot # "no" \/ status # "closing")
    BY <1>6
       DEF AskSnapshot, SnapshotFails, SnapshotArrives, Resume, Bootstrap, Shutdown, core,
           replaced
  <2> QED
    BY <1>3, <2>1 DEF Replacing
<1>7. ASSUME \/ \E via \in Sources : NodeFireUnsaved(via)
             \/ NodeFire
             \/ NodeFireUnsavedRotation
             \/ SelfRotate
             \/ StraySave
      PROVE  Replacing'
  <2>1. /\ UNCHANGED <<stale, status>>
        /\ boot' = boot \/ ScheduleRebootstrap
    BY <1>7
       DEF NodeFireUnsaved, NodeFire, NodeFireUnsavedRotation, SelfRotate, StraySave,
           SelfRotated, core, replaced
  <2> QED
    BY <1>3, <2>1 DEF Replacing, ScheduleRebootstrap
<1>8. ASSUME \/ ServerStep
             \/ NodeSubscribe
             \/ StreamEnds /\ UNCHANGED node
             \/ WatchdogStep
             \/ Arrive /\ UNCHANGED node
             \/ \E via \in Sources : StartRotation(via) /\ UNCHANGED node
             \/ \E via \in Sources : NodeApplyNothing(via)
             \/ \E via \in Sources : NodeApplyEntry(via)
             \/ NodeFinishRotation
             \/ Backup
             \/ UNCHANGED vars
      PROVE  Replacing'
  <2>1. UNCHANGED <<stale, status, boot>>
    BY <1>8
       DEF ServerStep, NodeSubscribe, WatchdogStep, NodeApplyNothing, NodeApplyEntry,
           NodeFinishRotation, Backup, vars, node, core, replaced
  <2> QED
    BY <1>3, <2>1 DEF Replacing
<1> QED
  BY <1>4, <1>5, <1>6, <1>7, <1>8 DEF NextIs

\* A snapshot stays what it is.
LEMMA AskingStep ==
    ASSUME LogOK, Asking, Grows, NextIs
    PROVE  Asking'
<1>1. ASSUME NEW s, SnapshotOf(s)
      PROVE  /\ s.lsn \in {0} \cup RotationsIn(1, Len(log))'
             /\ s.generation = Generation(s.lsn)'
             /\ s.previous = EntriesIn(LastRotation(s.lsn - 1) + 1, s.lsn)'
  <2>1. s.lsn \in {0} \cup RotationsIn(1, Len(log))'
    BY <1>1 DEF SnapshotOf, Grows
  <2>2. s.lsn \in Int /\ s.lsn <= Len(log) /\ s.lsn - 1 \in Int /\ s.lsn - 1 <= Len(log)
    BY <1>1, LogShape DEF SnapshotOf, RotationsIn, LogOK
  <2>3. /\ Generation(s.lsn)' = Generation(s.lsn)
        /\ LastRotation(s.lsn - 1)' = LastRotation(s.lsn - 1)
    BY <2>2 DEF Grows
  <2>4. LastRotation(s.lsn - 1) + 1 \in Int
    <3>1. Len(log) \in Nat /\ \A b \in Int : LastRotation(b) \in 0..Len(log)
      BY LastRotationIs, LogShape DEF LogOK
    <3>2. LastRotation(s.lsn - 1) \in 0..Len(log)
      BY <2>2, <3>1
    <3> QED
      BY <3>1, <3>2
  <2>5. EntriesIn(LastRotation(s.lsn - 1) + 1, s.lsn)'
          = EntriesIn(LastRotation(s.lsn - 1) + 1, s.lsn)
    BY <2>2, <2>3, <2>4 DEF Grows
  <2> QED
    BY <1>1, <2>1, <2>3, <2>5 DEF SnapshotOf
<1>2. ASSUME boot' \in {"asked", "stopping", "installing"} => SnapshotOf(snapshot')
      PROVE  Asking'
  BY <1>1, <1>2 DEF Asking, SnapshotOf
<1>3. ASSUME NEW via \in Sources, NodeFireUnsaved(via) PROVE Asking'
  BY <1>3, <1>2
     DEF NodeFireUnsaved, FireUnsaved, Fire, Quit, ScheduleRebootstrap, gate, coordinator,
         Asking
<1>4. ASSUME NodeFire PROVE Asking'
  BY <1>4, <1>2
     DEF NodeFire, FireAnomaly, FireUnapplied, FireUnrotated, Fire, Quit,
         ScheduleRebootstrap, gate, core, coordinator, Asking, files, replaced
<1>5. ASSUME NodeFireUnsavedRotation PROVE Asking'
  BY <1>5, <1>2
     DEF NodeFireUnsavedRotation, FireUnrotated, Quit, ScheduleRebootstrap, gate,
         coordinator, Asking, Rotated, SaveRotated
<1>6. ASSUME SelfRotate PROVE Asking'
  BY <1>6, <1>2
     DEF SelfRotate, ScheduleRebootstrap, gate, syncEngine, coordinator, Asking,
         SelfRotated, Rotated, SaveRotated, Faults
<1>7. ASSUME AskSnapshot PROVE Asking'
  <2>1. snapshot' \in Snapshot
    BY <1>7 DEF AskSnapshot
  <2>2. /\ snapshot'.lsn = ConsistencyPoint
        /\ snapshot'.generation = Generation(ConsistencyPoint)
        /\ snapshot'.previous
             = EntriesIn(LastRotation(ConsistencyPoint - 1) + 1, ConsistencyPoint)
    BY <2>1 DEF Snapshot
  <2>3. ConsistencyPoint \in {0} \cup RotationsIn(1, Len(log))
    BY LastRotationIs, LogShape DEF ConsistencyPoint, LogOK
  <2> QED
    BY <1>2, <2>2, <2>3 DEF SnapshotOf
<1>8. ASSUME SnapshotFails PROVE Asking'
  BY <1>8, <1>2
     DEF SnapshotFails, NoSnapshot, gate, core, syncEngine, coordinator, Asking, files,
         replaced
<1>9. ASSUME SnapshotArrives PROVE Asking'
  BY <1>9, <1>2
     DEF SnapshotArrives, StopEngine, Quit, core, coordinator, Asking, StopWaits, files,
         replaced
<1>10. ASSUME Install PROVE Asking'
  BY <1>10, <1>2
     DEF Install, Installed, InstallFiles, StartEngine, NoSnapshot, gate, coordinator,
         Asking, Replace, Installs
<1>11. ASSUME InstallFails PROVE Asking'
  BY <1>11, <1>2
     DEF InstallFails, Installed, InstallFiles, FilesCutShort, NoSnapshot, coordinator,
         Asking, Installs, NoRevoker
<1>12. ASSUME Halt PROVE Asking'
  BY <1>12, <1>2
     DEF Halt, NoEngine, Quit, FilesCutShort, InstallFiles, NoSnapshot, core, coordinator,
         Asking, Installs, NoRevoker, SaveRotated, files, replaced
<1>13. ASSUME Resume PROVE Asking'
  BY <1>13, <1>2 DEF Resume, StartEngine, gate, core, coordinator, Asking, files, replaced
<1>14. ASSUME Bootstrap PROVE Asking'
  BY <1>14, <1>2 DEF Bootstrap, gate, core, syncEngine, coordinator, Asking, files, replaced
<1>15. ASSUME Shutdown PROVE Asking'
  BY <1>15, <1>2
     DEF Shutdown, StopEngine, Quit, gate, core, coordinator, Asking, files, replaced
<1>16. ASSUME UNCHANGED vars PROVE Asking'
  BY <1>16, <1>2 DEF vars, node, gate, core, syncEngine, coordinator, Asking, files, replaced
<1>17. ASSUME \/ ServerStep
              \/ NodeSubscribe
              \/ StreamEnds /\ UNCHANGED node
              \/ WatchdogStep
              \/ Arrive /\ UNCHANGED node
              \/ \E via \in Sources : NodeApplyNothing(via)
              \/ Backup
              \/ \E via \in Sources : StartRotation(via) /\ UNCHANGED node
              \/ \E via \in Sources : NodeApplyEntry(via)
              \/ NodeFinishRotation
       PROVE  Asking'
  <2>1. UNCHANGED <<boot, snapshot>>
    BY <1>17
       DEF ServerStep, node, gate, core, syncEngine, NodeSubscribe, TrySubscribe,
           coordinator, StreamEnds, StreamDown, WatchdogStep, Watchdog, Arrive,
           NodeApplyNothing, ApplyNothing, Take, Backup, StartRotation, NodeApplyEntry,
           ApplyEntry, NodeFinishRotation, FinishRotation, files, replaced, Rotated,
           SaveRotated
  <2> QED
    BY <2>1, <1>2 DEF Asking
<1>18. ASSUME StraySave PROVE Asking'
  BY <1>18, <1>2
     DEF StraySave, SelfRotated, ScheduleRebootstrap, syncEngine, coordinator, gate,
         Asking
<1>19. ASSUME StaleEnds PROVE Asking'
  BY <1>19, <1>2
     DEF StaleEnds, StopEngine, Quit, coordinator, files, Asking
<1> QED
  BY <1>3, <1>4, <1>5, <1>6, <1>7, <1>8, <1>9, <1>10, <1>11, <1>12, <1>13, <1>14, <1>15,
     <1>16, <1>17, <1>18, <1>19
     DEF NextIs

\* What the filters, the files and the snapshot have after a step is in the log before it.
Taken ==
    /\ stray' = NoCopy \/ stray' \subseteq EntriesIn(1, Len(log))
    /\ current' \cup previous' \cup fileCurrent' \cup filePrevious' \cup exempt'
           \subseteq EntriesIn(1, Len(log))
    /\ snapshot'.current \cup snapshot'.previous \subseteq EntriesIn(1, Len(log))

\* It is.
LEMMA TakenStep ==
    ASSUME LogOK, StreamOK, Domains, Applied, Replacing, Tokens, NextIs
    PROVE  Taken
<1>1. ASSUME UNCHANGED snapshot, stray' \in {stray, NoCopy, current},
             current' \cup previous' \cup fileCurrent' \cup filePrevious' \cup exempt'
                 \subseteq current \cup previous \cup fileCurrent \cup filePrevious \cup exempt
                            \cup snapshot.current \cup snapshot.previous
                            \cup EntriesIn(1, Len(log))
      PROVE  Taken
  BY <1>1 DEF Tokens, Taken
<1>2. ASSUME NEW via \in Sources, NodeApplyEntry(via) \/ NodeFireUnsaved(via) PROVE Taken
  <2>1. Incoming(via).lsn \in 1..Len(log) /\ log[Incoming(via).lsn] = "entry"
    BY <1>2, IncomingIs, DueIs DEF NodeApplyEntry, ApplyEntry, NodeFireUnsaved, FireUnsaved
  <2>2. Incoming(via).lsn \in EntriesIn(1, Len(log))
    BY <2>1, LogShape DEF EntriesIn, LogOK
  <2>3. /\ current' = current \cup {Incoming(via).lsn}
        /\ fileCurrent' = fileCurrent \cup {Incoming(via).lsn}
        /\ UNCHANGED <<filePrevious, previous, exempt, snapshot, stray>>
    BY <1>2 DEF NodeApplyEntry, ApplyEntry, NodeFireUnsaved, replaced
  <2> QED
    BY <1>1, <2>2, <2>3
<1>3. ASSUME NodeFinishRotation \/ NodeFireUnsavedRotation PROVE Taken
  <2>1. UNCHANGED <<snapshot, stray>> /\ previous' = current /\ current' = {}
    BY <1>3 DEF NodeFinishRotation, NodeFireUnsavedRotation, Rotated, replaced
  <2>2. exempt' = exempt \/ exempt' = exempt \cup current
    BY <1>3 DEF NodeFinishRotation, NodeFireUnsavedRotation
  <2>3. \/ UNCHANGED <<fileCurrent, filePrevious>>
        \/ fileCurrent' = {} /\ filePrevious' = current
    BY <1>3 DEF NodeFinishRotation, NodeFireUnsavedRotation, SaveRotated, files
  <2> QED
    BY <1>1, <2>1, <2>2, <2>3
<1>4. \A copy \in Copies : copy \subseteq current
  BY DEF Copies
<1>5. ASSUME Backup PROVE Taken
  <2>1. PICK copy \in Copies : fileCurrent' = copy /\ exempt' = (exempt \cup fileCurrent) \ copy
    BY <1>5 DEF Backup
  <2>2. UNCHANGED <<snapshot, stray, filePrevious, current, previous>>
    BY <1>5 DEF Backup, replaced
  <2> QED
    BY <1>1, <1>4, <2>1, <2>2
<1>6. ASSUME SelfRotate PROVE Taken
  <2>1. /\ UNCHANGED <<snapshot, stray>> /\ previous' = current /\ current' = {}
        /\ exempt' = exempt \cup current \cup previous \cup fileCurrent \cup filePrevious
    BY <1>6 DEF SelfRotate, Rotated, replaced
  <2>2. \/ UNCHANGED <<fileCurrent, filePrevious>>
        \/ fileCurrent' = {} /\ filePrevious' \in Copies
    BY <1>6 DEF SelfRotate, SaveRotated, files
  <2> QED
    BY <1>1, <1>4, <2>1, <2>2
<1>7. ASSUME AskSnapshot PROVE Taken
  <2>1. UNCHANGED <<current, previous, fileCurrent, filePrevious, stray, exempt>>
        /\ snapshot' \in Snapshot
    BY <1>7 DEF AskSnapshot, core, files, replaced
  <2>2. /\ snapshot'.current \in {{}, EntriesIn(ConsistencyPoint + 1, Len(log))}
        /\ snapshot'.previous
             = EntriesIn(LastRotation(ConsistencyPoint - 1) + 1, ConsistencyPoint)
    BY <2>1 DEF Snapshot
  <2>3. ConsistencyPoint \in 0..Len(log) /\ LastRotation(ConsistencyPoint - 1) \in Nat
    <3>1. LogType /\ Len(log) \in Nat
      BY LogShape DEF LogOK
    <3>2. \A b \in Int : LastRotation(b) \in 0..Len(log)
      BY <3>1, LastRotationIs
    <3>3. ConsistencyPoint \in 0..Len(log)
      BY <3>1, <3>2 DEF ConsistencyPoint
    <3>4. ConsistencyPoint - 1 \in Int
      BY <3>1, <3>3
    <3>5. LastRotation(ConsistencyPoint - 1) \in 0..Len(log)
      BY <3>2, <3>4
    <3> QED
      BY <3>1, <3>3, <3>5
  <2>4. snapshot'.current \cup snapshot'.previous \subseteq EntriesIn(1, Len(log))
    BY <2>2, <2>3, LogShape DEF EntriesIn, LogOK
  <2> QED
    BY <2>1, <2>4 DEF Tokens, Taken
<1>8. ASSUME NEW lsn \in 0..Len(log) PROVE EntriesIn(1, lsn) \subseteq EntriesIn(1, Len(log))
  BY <1>8, LogShape DEF EntriesIn, LogOK
<1>9. EntriesIn(1, state.lsn) \cup EntriesIn(1, stale) \subseteq EntriesIn(1, Len(log))
  BY <1>8 DEF Domains
<1>10. NoSnapshot.current = {} /\ NoSnapshot.previous = {}
  BY DEF NoSnapshot
<1>11. ASSUME Install PROVE Taken
  <2>1. /\ current' = snapshot.current /\ previous' = snapshot.previous
        /\ fileCurrent' = snapshot.current /\ filePrevious' = snapshot.previous
        /\ exempt' = {} /\ snapshot' = NoSnapshot /\ stray' \in {stray, current}
    BY <1>11 DEF Install, Installed, InstallFiles, Replace
  <2> QED
    BY <1>10, <2>1 DEF Tokens, Taken
<1>12. ASSUME FilesCutShort
       PROVE  fileCurrent' \cup filePrevious' \cup exempt'
                  \subseteq snapshot.current \cup snapshot.previous \cup exempt
                             \cup EntriesIn(1, Len(log))
  <2>1. CASE fileCurrent' = {} /\ filePrevious' = {} /\ exempt' = exempt
    BY <2>1
  <2>2. CASE /\ fileCurrent' = snapshot.current /\ filePrevious' \in {{}, snapshot.previous}
             /\ exempt' = exempt \cup EntriesIn(1, state.lsn)
    BY <1>9, <2>2
  <2> QED
    BY <1>12, <2>1, <2>2 DEF FilesCutShort
<1>13. ASSUME InstallFails PROVE Taken
  <2>1. /\ current' = {} /\ previous' = {} /\ stray' \in {stray, current}
        /\ snapshot' = NoSnapshot
    BY <1>13 DEF InstallFails, NoRevoker
  <2>2. CASE FilesCutShort
    BY <1>10, <1>12, <2>1, <2>2 DEF Tokens, Taken
  <2>3. CASE fileCurrent' = snapshot.current /\ filePrevious' = snapshot.previous /\ exempt' = {}
    BY <1>10, <2>1, <2>3 DEF Tokens, Taken
  <2> QED
    BY <1>13, <2>2, <2>3 DEF InstallFails, Installed, InstallFiles
<1>14. ASSUME StraySave PROVE Taken
  <2>1. /\ UNCHANGED <<current, previous, snapshot>> /\ stray # NoCopy /\ stray' = NoCopy
        /\ exempt' = exempt \cup EntriesIn(1, state.lsn)
        /\ fileCurrent' \in {stray, {}} /\ filePrevious' \in {filePrevious, stray}
    BY <1>14 DEF StraySave
  <2> QED
    BY <1>9, <2>1 DEF Tokens, Taken
<1>15. ASSUME StaleEnds PROVE Taken
  <2>1. /\ UNCHANGED <<current, previous, fileCurrent, filePrevious, snapshot, stray>>
        /\ exempt' = exempt \cup EntriesIn(1, stale)
    BY <1>15 DEF StaleEnds, files
  <2> QED
    BY <1>1, <1>9, <2>1
<1>16. ASSUME Halt PROVE Taken
  <2>1. /\ current' = {} /\ previous' = {} /\ stray' = NoCopy /\ snapshot' = NoSnapshot
    BY <1>16 DEF Halt, NoRevoker
  <2>2. CASE UNCHANGED <<state, files, exempt>>
    BY <1>10, <2>1, <2>2 DEF Tokens, Taken, files
  <2>3. CASE SaveRotated(current) /\ exempt' = exempt \cup current \cup fileCurrent
    BY <1>10, <2>1, <2>3 DEF Tokens, Taken, SaveRotated
  <2>4. CASE FilesCutShort
    BY <1>10, <1>12, <2>1, <2>4 DEF Tokens, Taken
  <2> QED
    BY <1>16, <2>2, <2>3, <2>4 DEF Halt
<1>17. ASSUME Resume PROVE Taken
  <2>1. /\ current' = fileCurrent /\ previous' = filePrevious
        /\ UNCHANGED <<fileCurrent, filePrevious, exempt, snapshot, stray>>
    BY <1>17 DEF Resume, files, replaced
  <2> QED
    BY <1>1, <2>1
<1>18. ASSUME SnapshotFails PROVE Taken
  <2>1. snapshot' = NoSnapshot /\ UNCHANGED core
    BY <1>18 DEF SnapshotFails
  <2> QED
    BY <1>10, <2>1 DEF Tokens, Taken, core, files, replaced
<1>19. ASSUME \/ ServerStep
              \/ NodeSubscribe
              \/ StreamEnds /\ UNCHANGED node
              \/ WatchdogStep
              \/ Arrive /\ UNCHANGED node
              \/ \E via \in Sources : StartRotation(via) /\ UNCHANGED node
              \/ \E via \in Sources : NodeApplyNothing(via)
              \/ NodeFire
              \/ SnapshotArrives
              \/ Bootstrap
              \/ Shutdown
              \/ UNCHANGED vars
       PROVE  Taken
  <2>1. UNCHANGED <<snapshot, core>>
    BY <1>19
       DEF ServerStep, node, NodeSubscribe, WatchdogStep, NodeApplyNothing, NodeFire,
           SnapshotArrives, Bootstrap, Shutdown, vars
  <2> QED
    BY <1>1, <2>1 DEF core, files, replaced
<1> QED
  BY <1>2, <1>3, <1>5, <1>6, <1>7, <1>11, <1>13, <1>14, <1>15, <1>16, <1>17, <1>18, <1>19
     DEF NextIs

\* So the tokens stay in the log.
LEMMA TokensStep ==
    ASSUME LogOK, StreamOK, Domains, Applied, Replacing, Tokens, Grows, NextIs
    PROVE  Tokens'
<1>1. Taken /\ EntriesIn(1, Len(log)) \subseteq EntriesIn(1, Len(log))'
  BY TakenStep DEF Grows
<1>2. stray' = NoCopy \/ stray' \subseteq EntriesIn(1, Len(log))'
  BY <1>1 DEF Taken
<1> QED
  BY <1>1, <1>2 DEF Taken, Tokens

\* What is owed after a step was owed before it.
LEMMA OwedBefore ==
    ASSUME LogOK, StreamNext, Grows, NEW n \in 1..Len(log), Owed(n)'
    PROVE  Owed(n)
<1>1. log'[n] = log[n]
  BY DEF Grows
<1>2. unsent \subseteq unsent'
  BY DEF StreamNext, ServerNext, Publish, PublishFails, WriteStep, WriteBacklog, WriteEvent,
         WriteKeepalive, UnchangedByWrite, ZombieCloses, Break, Stall, Heal, CoordinatorStop,
         CoordinatorStart, Asked, Dropped, Delivers, Rests, coordinator
<1>3. Cardinality(RotationsIn(n, Len(log))) <= Cardinality(RotationsIn(n, Len(log)))'
  <2>1. Len(log) \in Nat /\ Len(log)' \in Nat
    BY LogStep, LogShape DEF LogOK, LogType
  <2>2. Len(log) <= Len(log)' /\ \A m \in 1..Len(log) : log'[m] = log[m]
    BY DEF Grows
  <2>3. DOMAIN log = 1..Len(log) /\ DOMAIN log' = 1..Len(log)'
    BY LogStep, LogShape DEF LogOK, LogType
  <2>4. RotationsIn(n, Len(log)) \subseteq RotationsIn(n, Len(log))'
    BY <2>1, <2>2, <2>3 DEF RotationsIn
  <2>5. IsFiniteSet(RotationsIn(n, Len(log))')
    <3>1. RotationsIn(n, Len(log))' \in SUBSET (1..Len(log)')
      BY <2>1, <2>3 DEF RotationsIn
    <3>2. IsFiniteSet(1..Len(log)')
      BY <2>1, FS_Interval
    <3> QED
      BY <3>1, <3>2, FS_Subset
  <2> QED
    BY <2>4, <2>5, FS_Subset
<1>4. /\ Cardinality(RotationsIn(n, Len(log))) \in Nat
      /\ Cardinality(RotationsIn(n, Len(log)))' \in Int
  <2>1. Len(log) \in Int /\ Len(log)' \in Nat /\ DOMAIN log' = 1..Len(log)'
    BY LogStep, LogShape DEF LogOK, LogType
  <2>2. Cardinality(RotationsIn(n, Len(log))) \in Nat
    BY <2>1, RotationsFinite
  <2>3. RotationsIn(n, Len(log))' \in SUBSET (1..Len(log)')
    BY <2>1 DEF RotationsIn
  <2>4. IsFiniteSet(1..Len(log)')
    BY <2>1, FS_Interval
  <2> QED
    BY <2>2, <2>3, <2>4, FS_Subset, FS_CardinalityType
<1> QED
  BY <1>1, <1>2, <1>3, <1>4 DEF Owed

\* What a rotation and a later one follow is not owed.
LEMMA NotOwed ==
    ASSUME LogOK, NEW n \in Nat, NEW r \in Nat, NEW q \in Nat, n <= r, r < q,
           r \in RotationsIn(1, Len(log)), q \in RotationsIn(1, Len(log))
    PROVE  ~Owed(n)
<1>1. Len(log) \in Int /\ n \in Int
  BY LogShape DEF LogOK
<1>2. r \in RotationsIn(n, Len(log)) /\ q \in RotationsIn(n, Len(log)) /\ r # q
  BY <1>1 DEF RotationsIn
<1>3. Cardinality(RotationsIn(n, Len(log))) >= 2
  <2>1. \A a, b \in Int : \A x, y \in RotationsIn(a, b) :
            x # y => Cardinality(RotationsIn(a, b)) >= 2
    BY TwoRotations
  <2> QED
    BY <1>1, <1>2, <2>1
<1>4. Cardinality(RotationsIn(n, Len(log))) \in Nat
  <2>1. \A a, b \in Int : Cardinality(RotationsIn(a, b)) \in Nat
    BY RotationsFinite
  <2> QED
    BY <1>1, <2>1
<1> QED
  BY <1>3, <1>4 DEF Owed

\* Two filters, or their files, have after a step what was owed before it.
KeepsTo(lsn, cur, prev) ==
    \A n \in 1..Len(log) : n <= lsn /\ Owed(n) /\ n \notin exempt' =>
        /\ n \in cur \cup prev
        /\ RotationsIn(n, lsn) = {} => n \in cur

Keeps ==
    /\ engine' # "none" => /\ KeepsTo(lastAppliedLsn', current', previous')
                           /\ KeepsTo(lastAppliedLsn', fileCurrent', filePrevious')
    /\ engine' # "none" \/ blobs' => KeepsTo(state'.lsn, fileCurrent', filePrevious')

\* They do if each keeps what is not exempt, and the current one gets what is not any more.
LEMMA StaysKept ==
    ASSUME LogOK, NEW lsn \in 0..Len(log), NEW cur, NEW prev, KeptUpTo(lsn, cur, prev),
           NEW nextCur, NEW nextPrev,
           (cur \cup exempt) \ exempt' \subseteq nextCur, prev \ exempt' \subseteq nextPrev
    PROVE  KeepsTo(lsn, nextCur, nextPrev)
<1>1. Len(log) \in Nat
  BY LogShape DEF LogOK
<1> SUFFICES ASSUME NEW n \in 1..Len(log), n <= lsn, Owed(n), n \notin exempt'
             PROVE  /\ n \in nextCur \cup nextPrev
                    /\ RotationsIn(n, lsn) = {} => n \in nextCur
  BY DEF KeepsTo
<1>2. CASE n \in exempt
  BY <1>2
<1>3. CASE n \notin exempt
  <2>1. n \in 1..lsn
    BY <1>1
  <2>2. n \in cur \cup prev /\ (RotationsIn(n, lsn) = {} => n \in cur)
    BY <1>3, <2>1 DEF KeptUpTo
  <2> QED
    BY <2>2
<1> QED
  BY <1>2, <1>3

\* They do if all is exempt.
LEMMA AllExempt ==
    ASSUME LogOK, NEW lsn \in 0..Len(log), EntriesIn(1, lsn) \subseteq exempt'
    PROVE  \A cur, prev : KeepsTo(lsn, cur, prev)
<1>1. Len(log) \in Nat /\ DOMAIN log = 1..Len(log)
  BY LogShape DEF LogOK
<1>2. ASSUME NEW n \in 1..Len(log), n <= lsn, Owed(n) PROVE n \in exempt'
  BY <1>1, <1>2 DEF Owed, EntriesIn
<1> QED
  BY <1>2 DEF KeepsTo

\* They do if they get the entry that is applied.
LEMMA EntryKept ==
    ASSUME LogOK, NEW lsn \in Nat, lsn + 1 <= Len(log), NEW cur, NEW prev,
           KeptUpTo(lsn, cur, prev), exempt' = exempt
    PROVE  KeepsTo(lsn + 1, cur \cup {lsn + 1}, prev)
<1>1. Len(log) \in Nat
  BY LogShape DEF LogOK
<1> SUFFICES ASSUME NEW n \in 1..Len(log), n <= lsn + 1, Owed(n), n \notin exempt
             PROVE  /\ n \in (cur \cup {lsn + 1}) \cup prev
                    /\ RotationsIn(n, lsn + 1) = {} => n \in cur \cup {lsn + 1}
  BY DEF KeepsTo
<1>2. CASE n = lsn + 1
  BY <1>2
<1>3. CASE n # lsn + 1
  <2>1. n \in 1..lsn
    BY <1>1, <1>3
  <2>2. n \in cur \cup prev /\ (RotationsIn(n, lsn) = {} => n \in cur)
    BY <2>1 DEF KeptUpTo
  <2>3. RotationsIn(n, lsn) \subseteq RotationsIn(n, lsn + 1)
    BY <2>1 DEF RotationsIn
  <2> QED
    BY <2>2, <2>3
<1> QED
  BY <1>2, <1>3

\* Nothing that is owed has been rotated before the rotation that is awaited.
LEMMA FirstRotation ==
    ASSUME LogOK, Domains, RotatesNext, rotating # 0, NEW n \in 1..Len(log), Owed(n),
           n <= rotating
    PROVE  /\ n \in 1..lastAppliedLsn /\ RotationsIn(n, lastAppliedLsn) = {}
           /\ RotationsIn(n, rotating) # {}
<1>1. /\ rotating = lastAppliedLsn + 1 /\ log[rotating] = "rotate"
      /\ rotating \in 1..Len(log)
      /\ lastAppliedLsn \in Nat /\ Len(log) \in Nat /\ DOMAIN log = 1..Len(log)
  BY LogShape DEF RotatesNext, Domains, LogOK
<1>2. log[n] = "entry"
  BY DEF Owed
<1>3. n \in 1..lastAppliedLsn
  BY <1>1, <1>2
<1>4. ASSUME NEW r \in RotationsIn(n, lastAppliedLsn) PROVE FALSE
  <2>1. /\ r \in Nat /\ n \in Nat /\ n <= r /\ r < rotating /\ r \in 1..Len(log)
        /\ log[r] = "rotate"
    BY <1>1, <1>4 DEF RotationsIn
  <2>2. r \in RotationsIn(1, Len(log)) /\ rotating \in RotationsIn(1, Len(log))
    BY <1>1, <2>1 DEF RotationsIn
  <2> QED
    BY <1>1, <2>1, <2>2, NotOwed
<1>5. rotating \in RotationsIn(n, rotating)
  BY <1>1 DEF RotationsIn
<1> QED
  BY <1>3, <1>4, <1>5

\* So they have it after that rotation, in whichever filter it is now,
LEMMA RotationKept ==
    ASSUME LogOK, Domains, RotatesNext, rotating # 0, NEW cur, NEW prev,
           KeptUpTo(lastAppliedLsn, cur, prev), exempt' = exempt,
           NEW nextCur, NEW nextPrev, cur \subseteq nextCur \cup nextPrev
    PROVE  KeepsTo(rotating, nextCur, nextPrev)
<1> SUFFICES ASSUME NEW n \in 1..Len(log), n <= rotating, Owed(n), n \notin exempt
             PROVE  n \in nextCur \cup nextPrev /\ RotationsIn(n, rotating) # {}
  BY DEF KeepsTo
<1>1. /\ n \in 1..lastAppliedLsn /\ RotationsIn(n, lastAppliedLsn) = {}
      /\ RotationsIn(n, rotating) # {}
  BY FirstRotation
<1>2. n \in cur
  BY <1>1 DEF KeptUpTo
<1> QED
  BY <1>1, <1>2

\* and one that is not in the state has lost only what it has.
LEMMA RotationExempt ==
    ASSUME LogOK, Domains, RotatesNext, rotating # 0,
           KeptUpTo(lastAppliedLsn, current, previous), exempt \cup current \subseteq exempt'
    PROVE  \A cur, prev : KeepsTo(lastAppliedLsn, cur, prev)
<1>1. Len(log) \in Nat /\ lastAppliedLsn \in Nat /\ rotating = lastAppliedLsn + 1
  BY LogShape DEF LogOK, Domains, RotatesNext
<1>2. ASSUME NEW n \in 1..Len(log), n <= lastAppliedLsn, Owed(n), n \notin exempt \cup current
      PROVE  FALSE
  <2>1. n \in 1..lastAppliedLsn /\ RotationsIn(n, lastAppliedLsn) = {}
    BY <1>1, <1>2, FirstRotation
  <2> QED
    BY <1>2, <2>1 DEF KeptUpTo
<1> QED
  BY <1>2 DEF KeepsTo

\* A snapshot has what is owed up to its position.
LEMMA SnapshotKeeps ==
    ASSUME LogOK, Domains, SnapshotOf(snapshot)
    PROVE  \A cur : KeepsTo(snapshot.lsn, cur, snapshot.previous)
<1> DEFINE p == snapshot.lsn
<1> DEFINE q == LastRotation(p - 1)
<1>1. /\ LogType /\ Len(log) \in Nat /\ DOMAIN log = 1..Len(log) /\ p \in 0..Len(log)
      /\ p \in {0} \cup RotationsIn(1, Len(log)) /\ snapshot.previous = EntriesIn(q + 1, p)
  BY LogShape DEF LogOK, Domains, SnapshotOf
<1>2. q \in {0} \cup RotationsIn(1, p - 1)
  <2>1. \A b \in Int : LastRotation(b) \in {0} \cup RotationsIn(1, b)
    BY <1>1, LastRotationIs
  <2> HIDE DEF p
  <2>2. p - 1 \in Int
    BY <1>1
  <2> QED
    BY <2>1, <2>2
<1> SUFFICES ASSUME NEW n \in 1..Len(log), n <= p, Owed(n)
             PROVE  n \in EntriesIn(q + 1, p) /\ RotationsIn(n, p) # {}
  BY <1>1 DEF KeepsTo
<1> HIDE DEF p, q
<1>3. /\ n \in Nat /\ p \in RotationsIn(1, Len(log)) /\ p \in Nat /\ log[p] = "rotate"
      /\ p <= Len(log)
  BY <1>1 DEF RotationsIn
<1>4. RotationsIn(n, p) # {}
  BY <1>1, <1>3 DEF RotationsIn
<1>5. q \in Nat
  BY <1>2 DEF RotationsIn
<1>6. ASSUME n <= q PROVE FALSE
  <2>1. q \in RotationsIn(1, Len(log)) /\ q < p
    BY <1>1, <1>2, <1>3, <1>5, <1>6 DEF RotationsIn
  <2> QED
    BY <1>3, <1>5, <1>6, <2>1, NotOwed
<1>7. n \in DOMAIN log /\ log[n] = "entry" /\ n \in (q + 1)..p
  BY <1>1, <1>3, <1>5, <1>6 DEF Owed
<1> QED
  BY <1>4, <1>7 DEF EntriesIn

\* They have.
LEMMA KeepsStep ==
    ASSUME LogOK, StreamOK, Domains, Applied, Replacing, Lifecycle, Asking, Kept, NextIs
    PROVE  Keeps
<1>1. /\ Len(log) \in Nat /\ state.lsn \in 0..Len(log) /\ lastAppliedLsn \in 0..Len(log)
      /\ stale \in 0..Len(log)
  BY LogShape DEF LogOK, Domains
<1>2. /\ engine # "none" => KeptUpTo(lastAppliedLsn, current, previous)
      /\ engine # "none" => KeptUpTo(lastAppliedLsn, fileCurrent, filePrevious)
      /\ engine # "none" \/ blobs => KeptUpTo(state.lsn, fileCurrent, filePrevious)
  BY DEF Kept, Held, Saved, Found
<1>3. /\ rotating # 0 => engine # "none"
      /\ engine = "running" => lastAppliedLsn = state.lsn
      /\ engine # "none" /\ stray # NoCopy => lastAppliedLsn = state.lsn
      /\ engine # "none" /\ lastAppliedLsn # state.lsn =>
             EntriesIn(1, state.lsn) \subseteq exempt \cup fileCurrent
  BY DEF Applied, RotatesNext, AtState, Past, Overwritten
<1>4. \A lsn : /\ [state EXCEPT !.lsn = lsn].lsn = lsn
               /\ \A flagged : [state EXCEPT !.dirty = flagged].lsn = state.lsn
               /\ \A gen : [state EXCEPT !.lsn = lsn, !.generation = gen].lsn = lsn
  BY DEF Domains
<1>5. ASSUME UNCHANGED <<current, previous, fileCurrent, filePrevious, exempt>>,
             engine' # "none" => engine # "none" /\ lastAppliedLsn' = lastAppliedLsn,
             state'.lsn = state.lsn, blobs' => blobs
      PROVE  Keeps
  <2>1. engine' # "none" => /\ KeepsTo(lastAppliedLsn, current, previous)
                            /\ KeepsTo(lastAppliedLsn, fileCurrent, filePrevious)
    BY <1>1, <1>2, <1>5, StaysKept
  <2>2. engine' # "none" \/ blobs' => KeepsTo(state.lsn, fileCurrent, filePrevious)
    BY <1>1, <1>2, <1>5, StaysKept
  <2> QED
    BY <1>5, <2>1, <2>2 DEF Keeps
<1>6. ASSUME NEW via \in Sources, NodeApplyEntry(via) PROVE Keeps
  <2>1. /\ engine = "running" /\ Incoming(via).lsn = lastAppliedLsn + 1
        /\ Incoming(via).lsn \in 1..Len(log)
    BY <1>6, IncomingIs, DueIs DEF NodeApplyEntry, ApplyEntry
  <2>2. /\ lastAppliedLsn' = lastAppliedLsn + 1 /\ exempt' = exempt
        /\ current' = current \cup {lastAppliedLsn + 1} /\ previous' = previous
        /\ fileCurrent' = fileCurrent \cup {lastAppliedLsn + 1} /\ filePrevious' = filePrevious
        /\ state' = [state EXCEPT !.lsn = lastAppliedLsn + 1, !.generation = generation]
    BY <1>6, <2>1 DEF NodeApplyEntry, ApplyEntry
  <2>3. lastAppliedLsn \in Nat /\ lastAppliedLsn + 1 <= Len(log)
    BY <1>1, <2>1
  <2>4. /\ KeepsTo(lastAppliedLsn + 1, current', previous')
        /\ KeepsTo(lastAppliedLsn + 1, fileCurrent', filePrevious')
    BY <1>2, <2>1, <2>2, <2>3, EntryKept
  <2>5. state'.lsn = lastAppliedLsn + 1
    BY <1>4, <2>2
  <2> QED
    BY <2>2, <2>4, <2>5 DEF Keeps
<1>7. ASSUME NEW via \in Sources, NodeFireUnsaved(via) PROVE Keeps
  <2>1. /\ engine # "none" /\ current \subseteq current' /\ fileCurrent \subseteq fileCurrent'
        /\ UNCHANGED <<state, previous, filePrevious, exempt, lastAppliedLsn>>
    BY <1>7 DEF NodeFireUnsaved, FireUnsaved, Fire, Comes
  <2>2. /\ KeepsTo(lastAppliedLsn, current', previous')
        /\ KeepsTo(lastAppliedLsn, fileCurrent', filePrevious')
        /\ KeepsTo(state.lsn, fileCurrent', filePrevious')
    BY <1>1, <1>2, <2>1, StaysKept
  <2> QED
    BY <2>1, <2>2 DEF Keeps
<1>8. ASSUME NodeFinishRotation PROVE Keeps
  <2>1. /\ rotating # 0 /\ previous' = current /\ current' = {} /\ exempt' = exempt
        /\ lastAppliedLsn' = rotating
        /\ state' = [state EXCEPT !.lsn = rotating, !.generation = generation']
    BY <1>8 DEF NodeFinishRotation, FinishRotation, Rotated
  <2>2. RotatesNext /\ engine # "none"
    BY <1>3, <2>1 DEF Applied
  <2>3. KeepsTo(rotating, current', previous')
    BY <1>2, <2>1, <2>2, RotationKept
  <2>4. KeepsTo(rotating, fileCurrent', filePrevious')
    <3>1. CASE SaveRotated(current)
      BY <1>2, <2>1, <2>2, <3>1, RotationKept DEF SaveRotated
    <3>2. CASE UNCHANGED files
      BY <1>2, <2>1, <2>2, <3>2, RotationKept DEF files
    <3> QED
      BY <1>8, <3>1, <3>2 DEF NodeFinishRotation
  <2>5. state'.lsn = rotating
    BY <1>4, <2>1
  <2> QED
    BY <2>1, <2>3, <2>4, <2>5 DEF Keeps
<1>9. ASSUME NodeFireUnsavedRotation PROVE Keeps
  <2>1. /\ rotating # 0 /\ engine = "running" /\ UNCHANGED <<state, lastAppliedLsn>>
        /\ exempt' = exempt \cup current
    BY <1>9 DEF NodeFireUnsavedRotation, FireUnrotated
  <2>2. \A cur, prev : KeepsTo(lastAppliedLsn, cur, prev)
    BY <1>2, <2>1, RotationExempt DEF Applied
  <2> QED
    BY <1>3, <2>1, <2>2 DEF Keeps
<1>10. ASSUME Backup PROVE Keeps
  <2>1. PICK copy \in Copies : fileCurrent' = copy /\ exempt' = (exempt \cup fileCurrent) \ copy
    BY <1>10 DEF Backup
  <2>2. /\ engine # "none" /\ copy \subseteq current
        /\ UNCHANGED <<state, current, previous, filePrevious, lastAppliedLsn>>
    BY <1>10 DEF Backup, Copies, syncEngine
  <2>3. /\ KeepsTo(lastAppliedLsn, current, previous)
        /\ KeepsTo(lastAppliedLsn, copy, filePrevious)
        /\ KeepsTo(state.lsn, copy, filePrevious)
    <3>1. /\ (current \cup exempt) \ exempt' \subseteq current
          /\ previous \ exempt' \subseteq previous
          /\ (fileCurrent \cup exempt) \ exempt' \subseteq copy
          /\ filePrevious \ exempt' \subseteq filePrevious
      BY <2>1, <2>2
    <3> QED
      BY <1>1, <1>2, <2>2, <3>1, StaysKept
  <2> QED
    BY <2>1, <2>2, <2>3 DEF Keeps
<1>11. ASSUME SelfRotate PROVE Keeps
  <2>1. /\ engine # "none" /\ UNCHANGED lastAppliedLsn
        /\ exempt' = exempt \cup current \cup previous \cup fileCurrent \cup filePrevious
    BY <1>11 DEF SelfRotate, syncEngine
  <2>2. state'.lsn = state.lsn
    <3>1. state' = state \/ \E flagged : state' = [state EXCEPT !.dirty = flagged]
      BY <1>11 DEF SelfRotate, SelfRotated
    <3> QED
      BY <1>4, <3>1
  <2>3. \A cur, prev : KeepsTo(lastAppliedLsn, cur, prev) /\ KeepsTo(state.lsn, cur, prev)
    BY <1>1, <1>2, <2>1, StaysKept
  <2> QED
    BY <2>1, <2>2, <2>3 DEF Keeps
<1>12. ASSUME Install PROVE Keeps
  <2>1. /\ state'.lsn = snapshot.lsn /\ lastAppliedLsn' = snapshot.lsn
        /\ previous' = snapshot.previous /\ filePrevious' = snapshot.previous
    BY <1>12 DEF Install, Installed, InstallFiles, StartEngine
  <2>2. SnapshotOf(snapshot)
    BY <1>12 DEF Install, Installs, Asking
  <2> QED
    BY <2>1, <2>2, SnapshotKeeps DEF Keeps
<1>13. ASSUME FilesCutShort, engine' = "none" PROVE Keeps
  <2>1. CASE ~blobs'
    BY <1>13, <2>1 DEF Keeps
  <2>2. CASE exempt' = exempt \cup EntriesIn(1, state.lsn)
    BY <1>1, <1>13, <2>2, AllExempt DEF Keeps, FilesCutShort
  <2> QED
    BY <1>13, <2>1, <2>2 DEF FilesCutShort
<1>14. ASSUME InstallFails PROVE Keeps
  <2>1. engine' = "none"
    BY <1>14 DEF InstallFails
  <2>2. CASE Installed
    <3>1. state'.lsn = snapshot.lsn /\ filePrevious' = snapshot.previous
      BY <2>2 DEF Installed, InstallFiles
    <3>2. SnapshotOf(snapshot)
      BY <1>14 DEF InstallFails, Installs, Asking
    <3> QED
      BY <2>1, <3>1, <3>2, SnapshotKeeps DEF Keeps
  <2> QED
    BY <1>13, <1>14, <2>1, <2>2 DEF InstallFails
<1>15. ASSUME StraySave PROVE Keeps
  <2>1. /\ stray # NoCopy /\ UNCHANGED <<engine, lastAppliedLsn>>
        /\ exempt' = exempt \cup EntriesIn(1, state.lsn)
    BY <1>15 DEF StraySave, syncEngine
  <2>2. state'.lsn = state.lsn
    <3>1. state' = state \/ \E flagged : state' = [state EXCEPT !.dirty = flagged]
      BY <1>15 DEF StraySave, SelfRotated
    <3> QED
      BY <1>4, <3>1
  <2>3. \A cur, prev : KeepsTo(state.lsn, cur, prev)
    BY <1>1, <2>1, AllExempt
  <2> QED
    BY <1>3, <2>1, <2>2, <2>3 DEF Keeps
<1>16. ASSUME StaleEnds PROVE Keeps
  <2>1. /\ UNCHANGED <<current, previous, fileCurrent, filePrevious, lastAppliedLsn>>
        /\ exempt' = exempt \cup EntriesIn(1, stale)
        /\ engine' # "none" => engine # "none"
        /\ state' = [state EXCEPT !.lsn = stale, !.generation = Generation(stale)]
    BY <1>16 DEF StaleEnds, StopEngine, Quit, files
  <2>2. engine' # "none" => /\ KeepsTo(lastAppliedLsn, current, previous)
                            /\ KeepsTo(lastAppliedLsn, fileCurrent, filePrevious)
    BY <1>1, <1>2, <2>1, StaysKept
  <2>3. KeepsTo(stale, fileCurrent, filePrevious) /\ state'.lsn = stale
    BY <1>1, <1>4, <2>1, AllExempt
  <2> QED
    BY <2>1, <2>2, <2>3 DEF Keeps
<1>17. ASSUME Halt PROVE Keeps
  <2>1. engine' = "none"
    BY <1>17 DEF Halt, NoEngine, Quit
  <2>2. CASE UNCHANGED <<state, files, exempt>>
    <3>1. blobs' => KeepsTo(state.lsn, fileCurrent, filePrevious)
      BY <1>1, <1>2, <2>2, StaysKept DEF files
    <3> QED
      BY <2>1, <2>2, <3>1 DEF Keeps, files
  <2>3. CASE /\ rotating # 0 /\ UNCHANGED state
             /\ exempt' = exempt \cup current \cup fileCurrent
    <3>1. engine # "none" /\ RotatesNext
      BY <1>3, <2>3 DEF Applied
    <3>2. CASE lastAppliedLsn = state.lsn
      <4>1. \A cur, prev : KeepsTo(lastAppliedLsn, cur, prev)
        BY <1>2, <2>3, <3>1, RotationExempt
      <4> QED
        BY <2>1, <2>3, <3>2, <4>1 DEF Keeps
    <3>3. CASE lastAppliedLsn # state.lsn
      <4>1. EntriesIn(1, state.lsn) \subseteq exempt'
        BY <1>3, <2>3, <3>1, <3>3
      <4> QED
        BY <1>1, <2>1, <2>3, <4>1, AllExempt DEF Keeps
    <3> QED
      BY <3>2, <3>3
  <2> QED
    BY <1>13, <1>17, <2>1, <2>2, <2>3 DEF Halt
<1>18. ASSUME Resume PROVE Keeps
  <2>1. /\ blobs /\ UNCHANGED <<state, fileCurrent, filePrevious, exempt>>
        /\ current' = fileCurrent /\ previous' = filePrevious /\ lastAppliedLsn' = state.lsn
    BY <1>18 DEF Resume, Resumable, StartEngine, files
  <2>2. KeepsTo(state.lsn, fileCurrent, filePrevious)
    BY <1>1, <1>2, <2>1, StaysKept
  <2> QED
    BY <2>1, <2>2 DEF Keeps
<1>19. ASSUME NodeFire \/ SnapshotArrives \/ Shutdown PROVE Keeps
  <2>1. UNCHANGED <<state, core, lastAppliedLsn>> /\ (engine' # "none" => engine # "none")
    BY <1>19
       DEF NodeFire, FireAnomaly, FireUnapplied, FireUnrotated, Fire, Quit, Comes,
           SnapshotArrives, Shutdown, StopEngine
  <2> QED
    BY <1>5, <2>1 DEF core, files, replaced
<1>20. ASSUME \/ ServerStep
              \/ NodeSubscribe
              \/ StreamEnds /\ UNCHANGED node
              \/ WatchdogStep
              \/ Arrive /\ UNCHANGED node
              \/ \E via \in Sources : StartRotation(via) /\ UNCHANGED node
              \/ \E via \in Sources : NodeApplyNothing(via)
              \/ AskSnapshot
              \/ SnapshotFails
              \/ Bootstrap
              \/ UNCHANGED vars
       PROVE  Keeps
  <2>1. UNCHANGED <<state, core, engine, lastAppliedLsn>>
    BY <1>20
       DEF ServerStep, node, syncEngine, NodeSubscribe, TrySubscribe, StreamEnds, StreamDown,
           WatchdogStep, Watchdog, Arrive, StartRotation, Take, NodeApplyNothing,
           ApplyNothing, AskSnapshot, SnapshotFails, Bootstrap, vars
  <2> QED
    BY <1>5, <2>1 DEF core, files, replaced
<1> QED
  BY <1>6, <1>7, <1>8, <1>9, <1>10, <1>11, <1>12, <1>14, <1>15, <1>16, <1>17, <1>18,
     <1>19, <1>20
     DEF NextIs

\* So they go on having what is owed.
LEMMA KeptStep ==
    ASSUME LogOK, StreamOK, StreamNext, Domains, Applied, Replacing, Lifecycle, Asking, Kept,
           Grows, NextIs
    PROVE  Kept'
<1>1. Keeps /\ Reached
  BY KeepsStep, ReachedStep
<1>2. Len(log) \in Nat /\ \A n \in 1..Len(log) : Owed(n)' => Owed(n)
  BY OwedBefore, LogShape DEF LogOK
<1>3. ASSUME NEW lsn \in 0..Len(log), NEW cur, NEW prev, KeepsTo(lsn, cur, prev),
             NEW n \in 1..lsn, Owed(n)', n \notin exempt'
      PROVE  n \in cur \cup prev /\ (RotationsIn(n, lsn)' = {} => n \in cur)
  <2>1. n \in 1..Len(log) /\ n <= lsn /\ Owed(n)
    BY <1>2, <1>3
  <2>2. RotationsIn(n, lsn)' = RotationsIn(n, lsn)
    BY <1>2, <2>1 DEF Grows
  <2> QED
    BY <1>3, <2>1, <2>2 DEF KeepsTo
<1>4. lastAppliedLsn' \in 0..Len(log) /\ state'.lsn \in 0..Len(log)
  BY <1>1 DEF Reached
<1>5. Held'
  BY <1>1, <1>3, <1>4 DEF Keeps, Held, KeptUpTo
<1>6. Saved'
  BY <1>1, <1>3, <1>4 DEF Keeps, Saved, KeptUpTo
<1>7. Found'
  BY <1>1, <1>3, <1>4 DEF Keeps, Found, KeptUpTo
<1> QED
  BY <1>5, <1>6, <1>7 DEF Kept

-----------------------------------------------------------------------------
(* The theorems.                                                           *)

\* The inductive invariant.
IInv ==
    /\ LogOK /\ StreamOK
    /\ Flags /\ Domains /\ Applied /\ Replacing /\ Asking /\ Lifecycle
    /\ Tokens /\ Kept

\* It holds at first.
LEMMA InitOK ==
    ASSUME Init
    PROVE  IInv
<1>1. LogOK /\ StreamOK /\ Len(log) = 0 /\ log = <<>>
  BY StreamInit DEF Init, ServerInit
<1>2. Flags /\ Tokens /\ Lifecycle /\ Asking /\ Replacing
  BY DEF Init, ServerInit, SyncInit, NoSnapshot, NoMark, Flags, Tokens, Lifecycle, Asking,
         Replacing
<1>3. <<>> \in Seq(Sendable)
  OBVIOUS
<1>4. Domains
  BY <1>1, <1>3
     DEF Init, ServerInit, SyncInit, NoSnapshot, Domains, Engines, Statuses, Boots,
         ApplyChainType
<1>5. Generation(0) = 0
  BY <1>1, GenerationBound DEF LogOK
<1>6. Applied
  BY <1>5
     DEF Init, ServerInit, SyncInit, Applied, Detached, AtState, AtGeneration, AtApplied,
         RotatesNext
<1>7. Kept
  BY DEF Init, SyncInit, Kept, Held, Saved, Found
<1> QED
  BY <1>1, <1>2, <1>4, <1>6, <1>7 DEF IInv

\* What a step of the node is to the stream and to the log.
LEMMA StepIs ==
    ASSUME IInv, [Next]_vars
    PROVE  StreamNext /\ Grows /\ NextIs
<1>1. StreamNext
  BY NextToStream DEF IInv
<1>2. Grows
  BY <1>1, LogStep, LogGrown DEF IInv
<1> QED
  BY <1>1, <1>2, NextCases

\* Every step keeps it.
LEMMA StepOK ==
    ASSUME IInv, [Next]_vars
    PROVE  IInv'
<1>1. StreamNext /\ Grows /\ NextIs
  BY StepIs
<1>2. /\ LogOK /\ StreamOK /\ Flags /\ Domains /\ Applied /\ Replacing /\ Asking
      /\ Lifecycle /\ Tokens /\ Kept
  BY DEF IInv
<1>3. LogOK' /\ StreamOK'
  BY <1>1, <1>2, StreamStep
<1>4. Domains' /\ Flags' /\ Lifecycle'
  BY <1>1, <1>2, DomainsStep, FlagsStep, LifecycleStep
<1>5. Detached' /\ AtState' /\ RotatesNext'
  BY <1>1, <1>2, DetachedStep, AtStateStep, RotatesNextStep DEF Applied
<1>6. AtGeneration' /\ AtApplied' /\ Replacing'
  BY <1>1, <1>2, <1>4, AtGenerationStep, AtAppliedStep, ReplacingStep DEF Applied
<1>7. Asking' /\ Tokens'
  BY <1>1, <1>2, AskingStep, TokensStep
<1>8. Kept'
  BY <1>1, <1>2, <1>4, KeptStep
<1> QED
  BY <1>3, <1>4, <1>5, <1>6, <1>7, <1>8 DEF IInv, Applied

\* The invariant holds in every state.
THEOREM Inductive == Spec => []IInv
<1>1. Init => IInv
  BY InitOK
<1>2. IInv /\ [Next]_vars => IInv'
  BY StepOK
<1> QED
  BY <1>1, <1>2, PTL DEF Spec

\* Types: what is in the chain, in transit or waits for a rotation is a message of the
\* log, and the positions, the files and the snapshot are of the log.
THEOREM TypeCorrect == Spec => []TypeOK
<1>1. ASSUME IInv PROVE TypeOK
  <2>1. /\ LogOK /\ StreamOK /\ Flags /\ Domains /\ Tokens
        /\ Len(log) \in Nat /\ DOMAIN log = 1..Len(log) /\ Len(log) <= MaxLsn
    BY <1>1, LogShape DEF IInv, LogOK
  <2>2. /\ 0..Len(log) \subseteq Lsns /\ 1..Len(log) \subseteq 1..MaxLsn
        /\ 1..Len(log) \subseteq Lsns
    BY <2>1, ServerAssumption DEF Lsns
  <2>3. Sendable \subseteq Messages
    BY <2>1, <2>2 DEF Sendable, Messages
  <2>4. /\ chain \in Seq(Messages \cup {Drain}) /\ wire \in Seq(Messages)
        /\ applyChain \in Seq(Messages)
    BY <2>1, <2>3, SeqMonotonic
       DEF StreamOK, StreamType, ChainType, WireType, Domains, ApplyChainType
  <2>5. log \in Seq({"entry", "rotate", "hole"})
    BY <2>1 DEF LogOK, LogType, Kinds
  <2>6. /\ unsent \subseteq DOMAIN log /\ deletedMaxLsn \in Lsns /\ batch \subseteq Lsns
        /\ lastWrittenLsn \in Lsns /\ call \in {"none", "open", "ended"}
    BY <2>1, <2>2 DEF LogOK, StreamOK, StreamType
  <2>7. /\ engine \in {"none", "running", "fired", "stopped"}
        /\ status \in {"down", "starting", "up", "closing"}
        /\ boot \in {"no", "queued", "asked", "stopping", "installing"}
    BY <2>1 DEF Domains, Engines, Statuses, Boots
  <2>8. /\ {lastAppliedLsn, rotating, stale, generation} \subseteq Lsns
        /\ snapshot.lsn \in Lsns /\ snapshot.generation \in Lsns
        /\ mark \in Lsns \cup {NoMark}
    BY <2>1, <2>2 DEF Domains
  <2>9. state \in Positions
    BY <2>1, <2>2 DEF Domains, Positions
  <2> QED
    BY <2>1, <2>4, <2>5, <2>6, <2>7, <2>8, <2>9 DEF TypeOK, Flags, Tokens
<1> QED
  BY <1>1, Inductive, PTL

\* Nothing falls between the backlog and the live events: what a stream whose drain has
\* ended has not written is in its chain.
THEOREM NothingBetweenHolds == Spec => []NothingBetween
<1>1. IInv => NothingBetween
  BY StreamNothingBetween DEF IInv
<1> QED
  BY <1>1, Inductive, PTL

\* A stream delivers in the order of the log, and leaves out only what cannot be read.
THEOREM DeliveryOrderHolds == Spec => DeliveryOrder
<1> DEFINE Ordered ==
        \A lsn \in 1..MaxLsn : (call = "open" /\ wire' = Append(wire, Event(lsn))) =>
            /\ lsn > lastWrittenLsn
            /\ \A n \in (lastWrittenLsn + 1)..(lsn - 1) :
                   log[n] = "hole" \/ n \in unsent \/ n <= deletedMaxLsn
<1>1. IInv /\ [Next]_vars => [Ordered]_stream
  BY StepIs, StreamDeliveryOrder DEF IInv
<1> QED
  BY <1>1, Inductive, PTL DEF Spec, DeliveryOrder

\* What is saved is what has been applied, and the generation that is saved is the
\* coordinator's at that position; a rotation that outlives its engine overwrites only what
\* a shutdown leaves.
THEOREM EngineConsistentHolds == Spec => []EngineConsistent
<1>1. IInv => EngineConsistent
  BY DEF IInv, Applied, AtState, Past, Overwritten, AtGeneration, EngineConsistent
<1> QED
  BY <1>1, Inductive, PTL

\* A node that answers checks has every revocation up to its position that the coordinator
\* has not rotated out, but for what is exempt.
THEOREM NodeCoverageHolds == Spec => []NodeCoverage
<1>1. ASSUME IInv PROVE NodeCoverage
  <2>1. Serving => engine # "none" /\ status = "up"
    BY <1>1 DEF IInv, Lifecycle, Serving
  <2>2. Serving => lastAppliedLsn = state.lsn
    BY <1>1, <2>1 DEF IInv, Applied, AtState, Past, Overwritten
  <2> QED
    BY <1>1, <2>1, <2>2 DEF IInv, Kept, Held, KeptUpTo, NodeCoverage
<1> QED
  BY <1>1, Inductive, PTL
=============================================================================
