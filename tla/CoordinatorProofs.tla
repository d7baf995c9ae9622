-------------------------- MODULE CoordinatorProofs --------------------------
(***************************************************************************)
(* The coordinator, for every set of tokens, every limit of the replay and *)
(* every bound on LSNs, rotations and crashes.  What the log numbers twice *)
(* and what it loses is down to a torn line alone: without one the LSNs    *)
(* are unique and the log complete; snapshots and the coordinator's own    *)
(* filter cover what they owe in any case.                                 *)
(***************************************************************************)
EXTENDS Coordinator, Extremes

\* Nothing in the files or in a checkpoint is beyond the counters, and what was
\* deleted is not beyond a checkpoint.
Numbering ==
    /\ \A e \in lines : e.lsn < nextLsn /\ e.file <= canonGen
    /\ \A e \in lines : e.kind # "R" => e.item \in Items
    /\ deletedMaxLsn <= metaState.lastBackupLsn
    /\ \A m \in {metaState, metaFile} :
           m.lastBackupLsn <= m.lastLsn /\ m.lastLsn < nextLsn
    /\ metaFile.lastBackupLsn <= metaState.lastBackupLsn
    /\ metaFile.generation <= metaState.generation
    /\ metaFile.lastLsn <= metaState.lastLsn

\* The steps of the hook: only then is the log ahead of the checkpoint in memory,
\* and nothing was accepted since the swap.
Hooked ==
    /\ rotating = "retention" => metaFile = metaState
    /\ metaState.generation <= canonGen
    /\ status # "down" =>
           canonGen = metaState.generation + (IF rotating = "meta" THEN 1 ELSE 0)
    /\ status = "down" => rotating = "no"
    /\ ~Quiet => status = "running" /\ \A i \in Items : age[i] # 0

\* A line of the log that every reader takes for the entry of i.
LoggedAfter(i, lsn) ==
    \E e \in lines : /\ e.kind = "E" /\ e.item = i /\ e.lsn > lsn
                     /\ \A d \in lines : ~(d.lsn = e.lsn /\ d.kind = "T")

\* Where the items are that were accepted in the last two windows: in the log that
\* is replayed; in the blob a rotation saved; in the blob it promoted.
Accepted ==
    \A i \in Items \ exempt :
        /\ age[i] = 0 => LoggedAfter(i, metaState.lastBackupLsn)
        /\ age[i] = 0 /\ rotating = "saved" => i \in blobCur
        /\ age[i] = 1 => i \in blobPrev

\* The same of the filters in memory.
Held ==
    status # "down" => \A i \in Items :
        /\ age[i] = 0 => i \in current
        /\ age[i] = 1 => i \in current \cup previous

\* What was sent is numbered, and retained or below every point that is served.
Sent ==
    "torn" \notin Faults =>
        /\ ~torn
        /\ \A e \in issued :
               /\ e.lsn < nextLsn
               /\ \/ e \in lines
                  \/ e.lsn <= deletedMaxLsn /\ e.lsn <= metaFile.lastBackupLsn
        /\ LsnUnique

\* The inductive invariant.
IInv == TypeOK /\ Numbering /\ Hooked /\ Accepted /\ Held /\ Sent

-----------------------------------------------------------------------------
(* The greatest LSN.                                                       *)

\* MaxOf is what its name says, for a bounded set.
LEMMA MaxOfIsGreatest ==
    ASSUME NEW S \in SUBSET Nat, NEW floor \in Nat, NEW bound \in Nat,
           \A n \in S : n <= bound
    PROVE  /\ MaxOf(S, floor) \in S \cup {floor}
           /\ \A m \in S \cup {floor} : m <= MaxOf(S, floor)
<1> DEFINE T == S \cup {floor}
<1>1. T \in SUBSET Nat /\ T # {} /\ bound + floor \in Nat
  OBVIOUS
<1>2. \A n \in T : n <= bound + floor
  OBVIOUS
<1>3. \E n \in T : \A m \in T : m <= n
  <2> HIDE DEF T
  <2> QED
    BY <1>1, <1>2, GreatestNatural
<1> QED
  BY <1>3 DEF MaxOf

\* Of two numbers.
LEMMA MaxOfTwo ==
    ASSUME NEW m \in Nat, NEW n \in Nat
    PROVE  /\ MaxOf({m, n}, 0) \in Nat
           /\ MaxOf({m, n}, 0) \in {m, n}
           /\ m <= MaxOf({m, n}, 0) /\ n <= MaxOf({m, n}, 0)
<1>1. \A k \in {m, n} : k <= m + n
  OBVIOUS
<1>2. {m, n} \in SUBSET Nat /\ m + n \in Nat
  OBVIOUS
<1>3. /\ MaxOf({m, n}, 0) \in {m, n} \cup {0}
      /\ \A k \in {m, n} \cup {0} : k <= MaxOf({m, n}, 0)
  BY <1>1, <1>2, MaxOfIsGreatest
<1>4. CASE MaxOf({m, n}, 0) = 0
  BY <1>3, <1>4
<1> QED
  BY <1>3, <1>4

\* Where a restart goes on: behind every line of the log and the checkpoint.
LEMMA ResumeFacts ==
    ASSUME TypeOK, Numbering
    PROVE  /\ ResumeLsn \in Nat /\ ResumeGeneration \in Nat
           /\ metaFile.lastLsn <= ResumeLsn /\ metaFile.generation <= ResumeGeneration
           /\ \A e \in lines : e.lsn <= ResumeLsn /\ e.file <= ResumeGeneration
<1>1. /\ \A e \in lines : e.lsn \in Nat /\ e.file \in Nat
      /\ metaFile.lastLsn \in Nat /\ metaFile.generation \in Nat
      /\ nextLsn \in Nat /\ canonGen \in Nat
  BY DEF TypeOK, Events, MetaStates
<1>2. ScanMaxLsn \in Nat /\ \A e \in lines : e.lsn <= ScanMaxLsn
  <2>1. /\ {e.lsn : e \in lines} \in SUBSET Nat
        /\ \A n \in {e.lsn : e \in lines} : n <= nextLsn
    BY <1>1 DEF Numbering
  <2>2. /\ ScanMaxLsn \in {e.lsn : e \in lines} \cup {0}
        /\ \A n \in {e.lsn : e \in lines} \cup {0} : n <= ScanMaxLsn
    BY <1>1, <2>1, MaxOfIsGreatest DEF ScanMaxLsn
  <2> QED
    BY <2>1, <2>2
<1>3. ScanMaxGeneration \in Nat /\ \A e \in lines : e.file <= ScanMaxGeneration
  <2> DEFINE Files == {e.file : e \in lines}
                         \cup {e.file + 1 : e \in {d \in lines : d.kind = "R"}}
  <2>1. /\ Files \in SUBSET Nat
        /\ \A n \in Files : n <= canonGen + 1
        /\ canonGen + 1 \in Nat
    BY <1>1 DEF Numbering
  <2>2. /\ ScanMaxGeneration \in Files \cup {0}
        /\ \A n \in Files \cup {0} : n <= ScanMaxGeneration
    <3> HIDE DEF Files
    <3>1. /\ MaxOf(Files, 0) \in Files \cup {0}
          /\ \A n \in Files \cup {0} : n <= MaxOf(Files, 0)
      BY <2>1, MaxOfIsGreatest
    <3>2. ScanMaxGeneration = MaxOf(Files, 0)
      BY DEF ScanMaxGeneration, Files
    <3> QED
      BY <3>1, <3>2
  <2>3. \A e \in lines : e.file \in Files
    OBVIOUS
  <2> QED
    BY <2>1, <2>2, <2>3
<1> QED
  BY <1>1, <1>2, <1>3, MaxOfTwo DEF ResumeLsn, ResumeGeneration

\* What retention deletes is below the point that is served from then on, and that
\* is not beyond the checkpoint.
LEMMA RetentionFacts ==
    ASSUME TypeOK, Numbering, HookRetention
    PROVE  /\ lines' \subseteq lines
           /\ deletedMaxLsn' \in Nat
           /\ deletedMaxLsn <= deletedMaxLsn'
           /\ deletedMaxLsn' <= metaState.lastBackupLsn
           /\ \A e \in lines \ lines' :
                  e.lsn <= deletedMaxLsn' /\ e.lsn <= metaState.lastBackupLsn
<1> DEFINE gone == Retired(metaState.generation - 1, metaState.lastBackupLsn)
           dead == {e.lsn : e \in {d \in lines : d.file \in gone}}
<1>1. /\ \A e \in lines : e.lsn \in Nat
      /\ metaState.lastBackupLsn \in Nat /\ deletedMaxLsn \in Nat
  BY DEF TypeOK, Events, MetaStates
<1>2. \A n \in dead : n \in Nat /\ n <= metaState.lastBackupLsn
  BY <1>1 DEF Retired
<1>3. /\ lines' = {e \in lines : e.file \notin gone}
      /\ deletedMaxLsn' = MaxOf(dead, deletedMaxLsn)
  BY DEF HookRetention
<1>4. \A e \in lines \ lines' : e.lsn \in dead
  BY <1>3
<1>5. lines' \subseteq lines
  BY <1>3
<1>6. /\ deletedMaxLsn' \in dead \cup {deletedMaxLsn}
      /\ \A n \in dead \cup {deletedMaxLsn} : n <= deletedMaxLsn'
  <2> HIDE DEF dead
  <2> QED
    BY <1>1, <1>2, <1>3, MaxOfIsGreatest
<1> HIDE DEF dead
<1> QED
  BY <1>1, <1>2, <1>4, <1>5, <1>6 DEF Numbering

\* An event that is appended.
LEMMA EventType ==
    ASSUME TypeOK, NEW k \in Kinds, NEW i \in Items \cup {None}
    PROVE  Event(nextLsn, k, i) \in Events
BY DEF TypeOK, Event, Events

\* What a failed append leaves of the tear.
LEMMA TearFacts ==
    ASSUME NEW was \in BOOLEAN, MayTear(was)
    PROVE  torn' \in BOOLEAN /\ ("torn" \notin Faults => torn' = was)
BY DEF MayTear

\* What Line leaves in the log and of the tear.
LEMMA LineType ==
    ASSUME TypeOK, NEW e \in Events, Line(e)
    PROVE  lines' \subseteq Events /\ torn' \in BOOLEAN
BY DEF TypeOK, Line

\* The replay applies tokens.
LEMMA TailType ==
    ASSUME Numbering
    PROVE  Tail \subseteq Items
BY DEF Numbering, Tail, ReadSince, Effective

\* What the replay of the log does not apply, the limit has cut off.
LEMMA TailComplete ==
    ASSUME NEW i, LoggedAfter(i, metaFile.lastBackupLsn)
    PROVE  i \in Tail \cup Skipped
BY DEF LoggedAfter, Tail, Skipped, Effective

-----------------------------------------------------------------------------
(* The steps.                                                              *)

\* A step keeps the types.
LEMMA TypeStep ==
    ASSUME TypeOK, Numbering, [Next]_vars
    PROVE  TypeOK'
<1>1. ASSUME NEW i \in Items, Add(i) PROVE TypeOK'
  <2>1. Event(nextLsn, "E", i) \in Events
    BY EventType DEF Kinds
  <2>2. lines' \subseteq Events /\ torn' \in BOOLEAN
    BY <1>1, <2>1, LineType DEF Add
  <2>3. {current, previous, blobCur, blobPrev, coreWal}' \subseteq SUBSET Items
    BY <1>1 DEF Add, CoreAdd, TypeOK
  <2>4. age' \in [Items -> 0..2] /\ exempt' \subseteq Items
    BY <1>1 DEF Add, TypeOK
  <2> QED
    BY <1>1, <2>1, <2>2, <2>3, <2>4 DEF Add, TypeOK, meta
<1>2. ASSUME NEW i \in Items, AddTombstoned(i) PROVE TypeOK'
  <2>1. Event(nextLsn, "E", i) \in Events /\ Event(nextLsn, "T", i) \in Events
    BY EventType DEF Kinds
  <2>2. lines' \subseteq Events /\ issued' \subseteq Events
    BY <1>2, <2>1 DEF AddTombstoned, TypeOK
  <2>3. torn' \in BOOLEAN
    BY <1>2 DEF AddTombstoned
  <2>4. nextLsn' = nextLsn + 1 /\ nextLsn' \in Nat \ {0}
    BY <1>2 DEF AddTombstoned, TypeOK
  <2>5. UNCHANGED <<status, core, rotating, canonGen, deletedMaxLsn, meta, age, exempt>>
    BY <1>2 DEF AddTombstoned
  <2> QED
    BY <2>2, <2>3, <2>4, <2>5 DEF TypeOK, core, meta
<1>3. ASSUME NEW i \in Items, AddUntombstoned(i) PROVE TypeOK'
  <2>1. Event(nextLsn, "E", i) \in Events
    BY EventType DEF Kinds
  <2>2. lines' \subseteq Events /\ torn' \in BOOLEAN
    BY <1>3, <2>1, TearFacts DEF AddUntombstoned, TypeOK
  <2> QED
    BY <1>3, <2>1, <2>2 DEF AddUntombstoned, MayTear, TypeOK, core, meta
<1>4. ASSUME AddFails PROVE TypeOK'
  <2>1. torn' \in BOOLEAN
    BY <1>4, TearFacts DEF AddFails, TypeOK
  <2> QED
    BY <1>4, <2>1 DEF AddFails, AddGuard, TypeOK, Events, Kinds, MetaStates, core, meta, ghosts
<1>5. ASSUME Backup PROVE TypeOK'
  BY <1>5 DEF Backup, TypeOK, Events, Kinds, MetaStates, canon, meta, ghosts
<1>6. ASSUME RotateBegin PROVE TypeOK'
  BY <1>6 DEF RotateBegin, TypeOK, Events, Kinds, MetaStates, canon, meta, ghosts
<1>7. ASSUME RotateEnd PROVE TypeOK'
  BY <1>7
     DEF RotateEnd, Swap, Aged, TypeOK, Events, Kinds, MetaStates, core, canon, meta
<1>8. ASSUME RotateUnsaved PROVE TypeOK'
  BY <1>8 DEF RotateUnsaved, Swap, Aged, TypeOK, Events, Kinds, MetaStates, canon, meta
<1>9. ASSUME HookMarker PROVE TypeOK'
  <2>1. Event(nextLsn, "R", None) \in Events
    BY EventType DEF Kinds
  <2>2. lines' \subseteq Events /\ torn' \in BOOLEAN
    BY <1>9, <2>1, LineType DEF HookMarker
  <2>3. canonGen' \in Nat
    BY <1>9 DEF HookMarker, TypeOK, MetaStates
  <2> QED
    BY <1>9, <2>1, <2>2, <2>3 DEF HookMarker, TypeOK, core, meta
<1>10. ASSUME HookMarkerFails PROVE TypeOK'
  <2>1. torn' \in BOOLEAN
    BY <1>10, TearFacts DEF HookMarkerFails, TypeOK
  <2> QED
    BY <1>10, <2>1 DEF HookMarkerFails, TypeOK, Events, Kinds, MetaStates, core, meta, ghosts
<1>11. ASSUME HookMeta PROVE TypeOK'
  BY <1>11
     DEF HookMeta, Checkpoint, TypeOK, Events, Kinds, MetaStates, core, canon, meta,
         ghosts
<1>12. ASSUME HookMetaFails PROVE TypeOK'
  BY <1>12
     DEF HookMetaFails, Checkpoint, TypeOK, Events, Kinds, MetaStates, core, canon,
         meta, ghosts
<1>13. ASSUME HookRetention PROVE TypeOK'
  BY <1>13, RetentionFacts
     DEF HookRetention, TypeOK, Events, Kinds, MetaStates, core, meta, ghosts
<1>14. ASSUME Shutdown PROVE TypeOK'
  BY <1>14 DEF Shutdown, TypeOK, Events, Kinds, MetaStates, core, canon, meta, ghosts
<1>15. ASSUME Stop PROVE TypeOK'
  BY <1>15 DEF Stop, TypeOK, Events, Kinds, MetaStates, meta, ghosts
<1>16. ASSUME Start PROVE TypeOK'
  <2>1. ResumeLsn \in Nat /\ ResumeGeneration \in Nat /\ Tail \subseteq Items
    BY ResumeFacts, TailType
  <2>2. metaFile' \in MetaStates /\ metaState' \in MetaStates
    BY <1>16, <2>1 DEF Start, TypeOK, MetaStates
  <2>3. age' \in [Items -> 0..2]
    BY <1>16 DEF Start, TypeOK
  <2>4. {current, previous, blobCur, blobPrev, coreWal}' \subseteq SUBSET Items
    BY <1>16, <2>1 DEF Start, TypeOK
  <2>5. nextLsn' \in Nat \ {0} /\ canonGen' \in Nat /\ deletedMaxLsn' \in Nat
    BY <1>16, <2>1 DEF Start, TypeOK, MetaStates
  <2> QED
    BY <1>16, <2>2, <2>3, <2>4, <2>5 DEF Start, TypeOK
<1>17. ASSUME StartFails PROVE TypeOK'
  BY <1>17, TailType
     DEF StartFails, TypeOK, Events, Kinds, MetaStates, canon, meta, ghosts
<1>18. CASE UNCHANGED vars
  BY <1>18 DEF TypeOK, Events, Kinds, MetaStates, vars, core, canon, meta, ghosts
<1> QED
  BY <1>1, <1>2, <1>3, <1>4, <1>5, <1>6, <1>7, <1>8, <1>9, <1>10, <1>11, <1>12, <1>13,
     <1>14, <1>15, <1>16, <1>17, <1>18
     DEF Next

\* A step keeps the counters ahead of what they count.
LEMMA NumberingStep ==
    ASSUME TypeOK, Numbering, Hooked, [Next]_vars
    PROVE  Numbering'
<1>1. ASSUME NEW i \in Items, Add(i) PROVE Numbering'
  BY <1>1 DEF Add, Line, Event, Numbering, TypeOK, Events, MetaStates, meta
<1>2. ASSUME NEW i \in Items, AddTombstoned(i) PROVE Numbering'
  BY <1>2 DEF AddTombstoned, Event, Numbering, TypeOK, Events, MetaStates, meta
<1>3. ASSUME NEW i \in Items, AddUntombstoned(i) PROVE Numbering'
  BY <1>3 DEF AddUntombstoned, MayTear, Line, Event, Numbering, TypeOK, Events, MetaStates, meta
<1>4. ASSUME AddFails PROVE Numbering'
  BY <1>4 DEF AddFails, MayTear, Numbering, TypeOK, Events, MetaStates, meta, ghosts
<1>5. ASSUME Backup PROVE Numbering'
  BY <1>5 DEF Backup, Numbering, canon, meta, ghosts
<1>6. ASSUME RotateBegin PROVE Numbering'
  BY <1>6 DEF RotateBegin, Numbering, canon, meta, ghosts
<1>7. ASSUME RotateEnd PROVE Numbering'
  BY <1>7 DEF RotateEnd, Swap, Numbering, canon, meta
<1>8. ASSUME RotateUnsaved PROVE Numbering'
  BY <1>8 DEF RotateUnsaved, Swap, Numbering, canon, meta
<1>9. ASSUME HookMarker PROVE Numbering'
  BY <1>9
     DEF HookMarker, Line, Event, Numbering, Hooked, TypeOK, Events, MetaStates, meta
<1>10. ASSUME HookMarkerFails PROVE Numbering'
  BY <1>10 DEF HookMarkerFails, MayTear, Numbering, TypeOK, Events, MetaStates, meta, ghosts
<1>11. ASSUME HookMeta PROVE Numbering'
  BY <1>11 DEF HookMeta, Checkpoint, Numbering, TypeOK, MetaStates, canon, ghosts
<1>12. ASSUME HookMetaFails PROVE Numbering'
  BY <1>12
     DEF HookMetaFails, Checkpoint, Numbering, Hooked, TypeOK, MetaStates, canon, ghosts
<1>13. ASSUME HookRetention PROVE Numbering'
  BY <1>13, RetentionFacts DEF HookRetention, Numbering, meta, ghosts
<1>14. ASSUME Shutdown PROVE Numbering'
  BY <1>14 DEF Shutdown, Numbering, TypeOK, MetaStates, canon, ghosts
<1>15. ASSUME Stop PROVE Numbering'
  BY <1>15 DEF Stop, Numbering, meta, ghosts
<1>16. ASSUME Start PROVE Numbering'
  BY <1>16, ResumeFacts DEF Start, Numbering, TypeOK, Events, MetaStates
<1>17. ASSUME StartFails PROVE Numbering'
  BY <1>17 DEF StartFails, Numbering, canon, meta, ghosts
<1>18. CASE UNCHANGED vars
  BY <1>18 DEF Numbering, vars, canon, meta, ghosts
<1> QED
  BY <1>1, <1>2, <1>3, <1>4, <1>5, <1>6, <1>7, <1>8, <1>9, <1>10, <1>11, <1>12, <1>13,
     <1>14, <1>15, <1>16, <1>17, <1>18
     DEF Next

\* A step goes through the hook in its order.
LEMMA HookedStep ==
    ASSUME TypeOK, Numbering, Hooked, [Next]_vars
    PROVE  Hooked'
<1>1. ASSUME NEW i \in Items, Add(i) PROVE Hooked'
  BY <1>1 DEF Add, AddGuard, Hooked, Quiet, meta
<1>2. ASSUME NEW i \in Items, AddTombstoned(i) PROVE Hooked'
  BY <1>2 DEF AddTombstoned, Hooked, Quiet, meta
<1>3. ASSUME NEW i \in Items, AddUntombstoned(i) PROVE Hooked'
  BY <1>3 DEF AddUntombstoned, MayTear, Hooked, Quiet, meta
<1>4. ASSUME AddFails PROVE Hooked'
  BY <1>4 DEF AddFails, MayTear, Hooked, Quiet, meta, ghosts
<1>5. ASSUME Backup PROVE Hooked'
  BY <1>5 DEF Backup, Hooked, Quiet, canon, meta, ghosts
<1>6. ASSUME RotateBegin PROVE Hooked'
  BY <1>6 DEF RotateBegin, Hooked, Quiet, canon, meta, ghosts
<1>7. ASSUME RotateEnd PROVE Hooked'
  BY <1>7 DEF RotateEnd, Swap, Aged, Hooked, Quiet, TypeOK, canon, meta
<1>8. ASSUME RotateUnsaved PROVE Hooked'
  BY <1>8 DEF RotateUnsaved, Swap, Aged, Hooked, Quiet, TypeOK, canon, meta
<1>9. ASSUME HookMarker PROVE Hooked'
  BY <1>9 DEF HookMarker, Hooked, Quiet, TypeOK, MetaStates, meta
<1>10. ASSUME HookMarkerFails PROVE Hooked'
  BY <1>10 DEF HookMarkerFails, MayTear, Hooked, Quiet, meta, ghosts
<1>11. ASSUME HookMeta PROVE Hooked'
  BY <1>11 DEF HookMeta, Checkpoint, Hooked, Quiet, TypeOK, canon, ghosts
<1>12. ASSUME HookMetaFails PROVE Hooked'
  BY <1>12 DEF HookMetaFails, Checkpoint, Hooked, Quiet, TypeOK, canon, ghosts
<1>13. ASSUME HookRetention PROVE Hooked'
  BY <1>13 DEF HookRetention, Hooked, Quiet, meta, ghosts
<1>14. ASSUME Shutdown PROVE Hooked'
  BY <1>14 DEF Shutdown, Hooked, Quiet, canon, ghosts
<1>15. ASSUME Stop PROVE Hooked'
  BY <1>15 DEF Stop, Hooked, Quiet, meta, ghosts
<1>16. ASSUME Start PROVE Hooked'
  BY <1>16, ResumeFacts DEF Start, Hooked, Quiet
<1>17. ASSUME StartFails PROVE Hooked'
  BY <1>17 DEF StartFails, Hooked, Quiet, canon, meta, ghosts
<1>18. CASE UNCHANGED vars
  BY <1>18 DEF Hooked, Quiet, vars, canon, meta, ghosts
<1> QED
  BY <1>1, <1>2, <1>3, <1>4, <1>5, <1>6, <1>7, <1>8, <1>9, <1>10, <1>11, <1>12, <1>13,
     <1>14, <1>15, <1>16, <1>17, <1>18
     DEF Next

\* A step keeps what was accepted where a restart and a snapshot look for it.
LEMMA AcceptedStep ==
    ASSUME TypeOK, Numbering, Hooked, Accepted, Held, [Next]_vars
    PROVE  Accepted'
<1>1. ASSUME NEW i \in Items, Add(i) PROVE Accepted'
  <2> DEFINE e == Event(nextLsn, "E", i)
  <2>1. i \notin exempt' => LoggedAfter(i, metaState.lastBackupLsn)'
    <3>1. SUFFICES ASSUME i \notin exempt'
                   PROVE  LoggedAfter(i, metaState.lastBackupLsn)'
      OBVIOUS
    <3>2. lines' = lines \cup {e}
      BY <1>1, <3>1 DEF Add, Line
    <3>3. e.kind = "E" /\ e.item = i /\ e.lsn = nextLsn
      BY DEF Event
    <3>4. nextLsn > metaState'.lastBackupLsn /\ \A d \in lines : d.lsn # nextLsn
      BY <1>1 DEF Add, Numbering, TypeOK, MetaStates, meta
    <3> HIDE DEF e
    <3> QED
      BY <3>2, <3>3, <3>4 DEF LoggedAfter
  <2>2. i \notin exempt' /\ rotating' = "saved" => i \in blobCur'
    BY <1>1 DEF Add, CoreAdd
  <2>3. /\ age'[i] = 0
        /\ \A j \in Items \ {i} : age'[j] = age[j] /\ (j \in exempt' <=> j \in exempt)
    BY <1>1 DEF Add, TypeOK
  <2>4. ASSUME NEW j \in Items, LoggedAfter(j, metaState.lastBackupLsn)
        PROVE  LoggedAfter(j, metaState.lastBackupLsn)'
    <3>1. lines \subseteq lines' /\ lines' \subseteq lines \cup {e} /\ e.kind = "E"
      BY <1>1 DEF Add, Line, Event
    <3> HIDE DEF e
    <3> QED
      BY <1>1, <2>4, <3>1 DEF LoggedAfter, Add, meta
  <2>5. UNCHANGED <<rotating, blobCur, blobPrev>>
    BY <1>1 DEF Add, CoreAdd
  <2> QED
    BY <2>1, <2>2, <2>3, <2>4, <2>5 DEF Accepted
<1>2. ASSUME NEW i \in Items, AddTombstoned(i) PROVE Accepted'
  BY <1>2 DEF AddTombstoned, Event, Accepted, LoggedAfter, Numbering, TypeOK, core, meta
<1>3. ASSUME NEW i \in Items, AddUntombstoned(i) PROVE Accepted'
  BY <1>3 DEF AddUntombstoned, MayTear, Line, Event, Accepted, LoggedAfter, core, meta
<1>4. ASSUME AddFails PROVE Accepted'
  BY <1>4 DEF AddFails, MayTear, Accepted, LoggedAfter, core, meta, ghosts
<1>5. ASSUME Backup PROVE Accepted'
  BY <1>5 DEF Backup, Accepted, LoggedAfter, canon, meta, ghosts
<1>6. ASSUME RotateBegin PROVE Accepted'
  BY <1>6 DEF RotateBegin, Accepted, LoggedAfter, Held, canon, meta, ghosts
<1>7. ASSUME RotateEnd PROVE Accepted'
  BY <1>7 DEF RotateEnd, Swap, Aged, Accepted, TypeOK
<1>8. ASSUME RotateUnsaved PROVE Accepted'
  BY <1>8 DEF RotateUnsaved, Swap, Aged, Accepted, TypeOK
<1>9. ASSUME HookMarker PROVE Accepted'
  BY <1>9 DEF HookMarker, Line, Event, Accepted, LoggedAfter, core, meta
<1>10. ASSUME HookMarkerFails PROVE Accepted'
  BY <1>10 DEF HookMarkerFails, MayTear, Accepted, LoggedAfter, core, meta, ghosts
<1>11. ASSUME HookMeta PROVE Accepted'
  BY <1>11 DEF HookMeta, Accepted, Hooked, Quiet, core, ghosts
<1>12. ASSUME HookMetaFails PROVE Accepted'
  BY <1>12 DEF HookMetaFails, Accepted, Hooked, Quiet, core, ghosts
<1>13. ASSUME HookRetention PROVE Accepted'
  BY <1>13, RetentionFacts DEF HookRetention, Accepted, Hooked, Quiet, core, ghosts
<1>14. ASSUME Shutdown PROVE Accepted'
  BY <1>14 DEF Shutdown, Accepted, LoggedAfter, core, canon, ghosts
<1>15. ASSUME Stop PROVE Accepted'
  BY <1>15 DEF Stop, Accepted, LoggedAfter, meta, ghosts
<1>16. ASSUME Start PROVE Accepted'
  BY <1>16 DEF Start, Accepted, LoggedAfter, Numbering, TypeOK, Events, MetaStates
<1>17. ASSUME StartFails PROVE Accepted'
  BY <1>17 DEF StartFails, Accepted, LoggedAfter, canon, meta, ghosts
<1>18. CASE UNCHANGED vars
  BY <1>18 DEF Accepted, LoggedAfter, vars, core, canon, meta, ghosts
<1> QED
  BY <1>1, <1>2, <1>3, <1>4, <1>5, <1>6, <1>7, <1>8, <1>9, <1>10, <1>11, <1>12, <1>13,
     <1>14, <1>15, <1>16, <1>17, <1>18
     DEF Next

\* A step keeps it in memory.
LEMMA HeldStep ==
    ASSUME TypeOK, Numbering, Hooked, Accepted, Held, [Next]_vars
    PROVE  Held'
<1>1. ASSUME NEW i \in Items, Add(i) PROVE Held'
  BY <1>1 DEF Add, CoreAdd, Held
<1>2. ASSUME NEW i \in Items, AddTombstoned(i) PROVE Held'
  BY <1>2 DEF AddTombstoned, Held, core
<1>3. ASSUME NEW i \in Items, AddUntombstoned(i) PROVE Held'
  BY <1>3 DEF AddUntombstoned, MayTear, Held, core
<1>4. ASSUME AddFails PROVE Held'
  BY <1>4 DEF AddFails, MayTear, Held, core, ghosts
<1>5. ASSUME Backup PROVE Held'
  BY <1>5 DEF Backup, Held, ghosts
<1>6. ASSUME RotateBegin PROVE Held'
  BY <1>6 DEF RotateBegin, Held, ghosts
<1>7. ASSUME RotateEnd PROVE Held'
  BY <1>7 DEF RotateEnd, Swap, Aged, Held, TypeOK
<1>8. ASSUME RotateUnsaved PROVE Held'
  BY <1>8 DEF RotateUnsaved, Swap, Aged, Held, TypeOK
<1>9. ASSUME HookMarker PROVE Held'
  BY <1>9 DEF HookMarker, Held, core
<1>10. ASSUME HookMarkerFails PROVE Held'
  BY <1>10 DEF HookMarkerFails, MayTear, Held, core, ghosts
<1>11. ASSUME HookMeta PROVE Held'
  BY <1>11 DEF HookMeta, Held, core, ghosts
<1>12. ASSUME HookMetaFails PROVE Held'
  BY <1>12 DEF HookMetaFails, Held, core, ghosts
<1>13. ASSUME HookRetention PROVE Held'
  BY <1>13 DEF HookRetention, Held, core, ghosts
<1>14. ASSUME Shutdown PROVE Held'
  BY <1>14 DEF Shutdown, Held, core, ghosts
<1>15. ASSUME Stop PROVE Held'
  BY <1>15 DEF Stop, Held, ghosts
<1>16. ASSUME Start PROVE Held'
  <2>1. \A i \in Items : i \notin exempt /\ age[i] = 0 => i \in Tail \cup Skipped
    <3>1. ASSUME NEW i, LoggedAfter(i, metaState.lastBackupLsn)
          PROVE  LoggedAfter(i, metaFile.lastBackupLsn)
      BY <3>1 DEF LoggedAfter, Numbering, TypeOK, Events, MetaStates
    <3> QED
      BY <3>1, TailComplete DEF Accepted
  <2>2. \A i \in Items : i \notin exempt /\ age[i] = 1 => i \in previous'
    BY <1>16 DEF Start, Accepted
  <2>3. \A i \in Items :
            age'[i] = IF i \in (exempt \cup Skipped) \ current' THEN 2 ELSE age[i]
    BY <1>16 DEF Start
  <2>4. Tail \subseteq current'
    BY <1>16 DEF Start
  <2> QED
    BY <2>1, <2>2, <2>3, <2>4 DEF Held
<1>17. ASSUME StartFails PROVE Held'
  BY <1>17 DEF StartFails, Held, ghosts
<1>18. CASE UNCHANGED vars
  BY <1>18 DEF Held, vars, core, ghosts
<1> QED
  BY <1>1, <1>2, <1>3, <1>4, <1>5, <1>6, <1>7, <1>8, <1>9, <1>10, <1>11, <1>12, <1>13,
     <1>14, <1>15, <1>16, <1>17, <1>18
     DEF Next

\* A step numbers no two events alike, and deletes none that is above the floor.
LEMMA SentStep ==
    ASSUME TypeOK, Numbering, Hooked, Sent, [Next]_vars
    PROVE  Sent'
<1>1. ASSUME NEW i \in Items, Add(i) PROVE Sent'
  BY <1>1 DEF Add, Line, Event, Sent, LsnUnique, TypeOK, Events, meta
<1>2. ASSUME NEW i \in Items, AddTombstoned(i) PROVE Sent'
  BY <1>2 DEF AddTombstoned, Event, Sent, LsnUnique, TypeOK, Events, meta
<1>3. ASSUME NEW i \in Items, AddUntombstoned(i) PROVE Sent'
  BY <1>3 DEF AddUntombstoned, MayTear, Line, Event, Sent, LsnUnique, TypeOK, Events, meta
<1>4. ASSUME AddFails PROVE Sent'
  BY <1>4 DEF AddFails, MayTear, Sent, LsnUnique, TypeOK, Events, meta, ghosts
<1>5. ASSUME Backup PROVE Sent'
  BY <1>5 DEF Backup, Sent, LsnUnique, canon, meta, ghosts
<1>6. ASSUME RotateBegin PROVE Sent'
  BY <1>6 DEF RotateBegin, Sent, LsnUnique, canon, meta, ghosts
<1>7. ASSUME RotateEnd PROVE Sent'
  BY <1>7 DEF RotateEnd, Swap, Sent, LsnUnique, canon, meta
<1>8. ASSUME RotateUnsaved PROVE Sent'
  BY <1>8 DEF RotateUnsaved, Swap, Sent, LsnUnique, canon, meta
<1>9. ASSUME HookMarker PROVE Sent'
  BY <1>9 DEF HookMarker, Line, Event, Sent, LsnUnique, TypeOK, Events, meta
<1>10. ASSUME HookMarkerFails PROVE Sent'
  BY <1>10 DEF HookMarkerFails, MayTear, Sent, LsnUnique, TypeOK, Events, meta, ghosts
<1>11. ASSUME HookMeta PROVE Sent'
  BY <1>11 DEF HookMeta, Checkpoint, Sent, LsnUnique, TypeOK, Events, canon, ghosts
<1>12. ASSUME HookMetaFails PROVE Sent'
  BY <1>12 DEF HookMetaFails, Sent, LsnUnique, canon, ghosts
<1>13. ASSUME HookRetention PROVE Sent'
  <2>1. /\ deletedMaxLsn' \in Nat /\ deletedMaxLsn <= deletedMaxLsn'
        /\ \A e \in lines \ lines' :
               e.lsn <= deletedMaxLsn' /\ e.lsn <= metaFile.lastBackupLsn
    BY <1>13, RetentionFacts DEF HookRetention, Hooked
  <2>2. UNCHANGED <<torn, nextLsn, metaFile, issued>>
    BY <1>13 DEF HookRetention, meta, ghosts
  <2>3. deletedMaxLsn \in Nat /\ \A e \in issued : e.lsn \in Nat
    BY DEF TypeOK, Events
  <2> QED
    BY <2>1, <2>2, <2>3 DEF Sent, LsnUnique
<1>14. ASSUME Shutdown PROVE Sent'
  BY <1>14
     DEF Shutdown, Sent, LsnUnique, Numbering, TypeOK, Events, MetaStates, canon, ghosts
<1>15. ASSUME Stop PROVE Sent'
  BY <1>15 DEF Stop, Sent, LsnUnique, meta, ghosts
<1>16. ASSUME Start PROVE Sent'
  BY <1>16, ResumeFacts
     DEF Start, Sent, LsnUnique, Numbering, TypeOK, Events, MetaStates
<1>17. ASSUME StartFails PROVE Sent'
  BY <1>17 DEF StartFails, Sent, LsnUnique, canon, meta, ghosts
<1>18. CASE UNCHANGED vars
  BY <1>18 DEF Sent, LsnUnique, vars, canon, meta, ghosts
<1> QED
  BY <1>1, <1>2, <1>3, <1>4, <1>5, <1>6, <1>7, <1>8, <1>9, <1>10, <1>11, <1>12, <1>13,
     <1>14, <1>15, <1>16, <1>17, <1>18
     DEF Next

\* The initial state satisfies the invariant.
LEMMA IInvInit == Init => IInv
<1> SUFFICES ASSUME Init PROVE IInv
  OBVIOUS
<1>1. TypeOK
  <2>1. metaState \in MetaStates /\ metaFile \in MetaStates
    BY DEF Init, MetaStates
  <2>2. age \in [Items -> 0..2]
    BY DEF Init
  <2>3. {current, previous, blobCur, blobPrev, coreWal} \subseteq SUBSET Items
    BY DEF Init
  <2>4. torn \in BOOLEAN
    BY DEF Init
  <2> QED
    BY <2>1, <2>2, <2>3, <2>4 DEF Init, TypeOK
<1>2. Numbering /\ Hooked
  BY DEF Init, Numbering, Hooked, Quiet
<1>3. Accepted /\ Held
  BY DEF Init, Accepted, Held
<1>4. Sent
  BY DEF Init, Sent, LsnUnique
<1> QED
  BY <1>1, <1>2, <1>3, <1>4 DEF IInv

-----------------------------------------------------------------------------
(* The theorems.                                                           *)

\* The invariant is inductive.
THEOREM Inductive == Spec => []IInv
<1>1. IInv /\ [Next]_vars => IInv'
  BY TypeStep, NumberingStep, HookedStep, AcceptedStep, HeldStep, SentStep DEF IInv
<1> QED
  BY <1>1, IInvInit, PTL DEF Spec

\* Every variable keeps its type; a restart finds the greatest LSN and generation.
THEOREM TypeCorrect == Spec => []TypeOK
<1>1. IInv => TypeOK
  BY DEF IInv
<1> QED
  BY <1>1, Inductive, PTL

\* As long as no line is torn, no two events that were sent have an LSN in common,
\* across failed appends, retention, crashes and restarts.
THEOREM LsnUniqueHolds == "torn" \notin Faults => (Spec => []LsnUnique)
<1> SUFFICES ASSUME "torn" \notin Faults PROVE Spec => []LsnUnique
  OBVIOUS
<1>1. IInv => LsnUnique
  BY DEF IInv, Sent
<1> QED
  BY <1>1, Inductive, PTL

\* As long as no line is torn, the log has every event that was sent above the
\* point that canServeFrom allows.
THEOREM RetainedCompleteHolds == "torn" \notin Faults => (Spec => []RetainedComplete)
<1> SUFFICES ASSUME "torn" \notin Faults PROVE Spec => []RetainedComplete
  OBVIOUS
<1>1. IInv => RetainedComplete
  BY DEF IInv, Sent, RetainedComplete, TypeOK, Events
<1> QED
  BY <1>1, Inductive, PTL

\* The consistency point of a snapshot is never below what canServeFrom allows.
THEOREM SnapshotServableHolds == Spec => []SnapshotServable
<1>1. IInv => SnapshotServable
  BY DEF IInv, Numbering, TypeOK, MetaStates, SnapshotServable, CanServeFrom
<1> QED
  BY <1>1, Inductive, PTL

\* A node that installs a snapshot and reads the tail has every token of the last
\* two windows, but for those that a rotation may have missed.
THEOREM SnapshotCompleteHolds == Spec => []SnapshotComplete
<1>1. IInv => SnapshotComplete
  <2> SUFFICES ASSUME IInv, NEW i \in Items \ exempt, age[i] < 2
               PROVE  i \in Bootstrapped
    BY DEF SnapshotComplete
  <2>1. age[i] = 0 \/ age[i] = 1
    BY DEF IInv, TypeOK
  <2>2. CASE age[i] = 0
    <3>1. LoggedAfter(i, metaState.lastBackupLsn)
      BY <2>2 DEF IInv, Accepted
    <3> QED
      BY <3>1 DEF LoggedAfter, Effective, Bootstrapped
  <2>3. CASE age[i] = 1
    BY <2>3 DEF IInv, Accepted, Bootstrapped
  <2> QED
    BY <2>1, <2>2, <2>3
<1> QED
  BY <1>1, Inductive, PTL

\* The coordinator's own filter has every accepted token of the last two windows,
\* after any crashes and losses of the core revoker's log, as far as the replay
\* limit reaches.
THEOREM CoordinatorCoverageHolds == Spec => []CoordinatorCoverage
<1>1. IInv => CoordinatorCoverage
  BY DEF IInv, Held, CoordinatorCoverage
<1> QED
  BY <1>1, Inductive, PTL

\* No step, a restart least of all, rewinds the checkpoint on disk.
THEOREM CheckpointMonotoneHolds == Spec => CheckpointMonotone
<1>1. ASSUME IInv, [Next]_vars
      PROVE  [/\ metaFile'.generation >= metaFile.generation
              /\ metaFile'.lastLsn >= metaFile.lastLsn
              /\ metaFile'.lastBackupLsn >= metaFile.lastBackupLsn]_vars
  <2>1. TypeOK /\ Numbering /\ Hooked
    BY <1>1 DEF IInv
  <2>2. CASE UNCHANGED vars
    BY <2>2
  <2>3. CASE HookMeta
    BY <2>1, <2>3 DEF HookMeta, Checkpoint, TypeOK, Numbering, Hooked, Quiet, MetaStates
  <2>4. CASE Shutdown
    BY <2>1, <2>4 DEF Shutdown, TypeOK, Numbering, MetaStates
  <2>5. CASE Start
    BY <2>1, <2>5, ResumeFacts DEF Start, TypeOK, MetaStates
  <2>6. CASE UNCHANGED metaFile
    BY <2>1, <2>6 DEF TypeOK, MetaStates
  <2> QED
    BY <1>1, <2>2, <2>3, <2>4, <2>5, <2>6
       DEF Next, Add, AddTombstoned, AddUntombstoned, AddFails, Backup, RotateBegin,
           RotateEnd, RotateUnsaved, Swap, HookMarker, HookMarkerFails, HookMetaFails,
           HookRetention, Stop,
           StartFails, meta, canon
<1> QED
  BY <1>1, Inductive, PTL DEF Spec, CheckpointMonotone

=============================================================================
