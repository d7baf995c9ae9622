-------------------------- MODULE WriteBufferProofs --------------------------
(***************************************************************************)
(* The write buffer, for every number of tokens, of overlapping flushes, of*)
(* failures and of crashes.  What makes the buffer safe to empty is that a *)
(* flush holds all of it but the tokens that overtook the flush; what makes*)
(* the log safe to empty is that the blob holds all that was promised when *)
(* the backup began.                                                       *)
(***************************************************************************)
EXTENDS WriteBuffer, TLAPS

\* Nothing is buffered or written but what was accepted.
Accepted ==
    /\ Elements(buffer) \subseteq acked
    /\ \A f \in AllFlushes : Elements(data[f]) \subseteq acked

\* A flush under way holds every buffered token that did not overtake it.
FlushesHoldBuffer ==
    \A f \in AllFlushes :
        pc[f] # "idle" => Elements(buffer) \ (exempt \cup blob) \subseteq Elements(data[f])

\* What was appended stays on disk, in the log or in the filter of a backup.
WrittenSaved ==
    \A f \in AllFlushes : pc[f] = "written" => Elements(data[f]) \ exempt \subseteq Saved

\* The filter of a live process has what is promised and what is in the blob; between
\* two processes the files have it.
FilterHolds ==
    /\ status # "down" => (acked \ exempt) \cup blob \subseteq filter
    /\ status = "down" => acked \ exempt \subseteq Saved

\* Nothing is under way between two processes.
Ended == status = "down" => backup = "idle" /\ \A f \in AllFlushes : pc[f] = "idle"

\* A backup under way has captured all that is promised, and all that the blob it
\* replaces holds.
BackupHolds ==
    /\ backup = "writing" => (acked \ exempt) \cup blob \subseteq copy /\ copy \subseteq filter
    /\ backup = "renamed" => acked \ exempt \subseteq blob

\* A promised token is in the array, also in that of a destroyed instance, or saved.
Kept == acked \ exempt \subseteq Elements(buffer) \cup Saved

\* The inductive invariant.
IInv ==
    /\ TypeOK /\ Accepted /\ FlushesHoldBuffer /\ WrittenSaved /\ Ended
    /\ FilterHolds /\ BackupHolds /\ Kept /\ ShutdownSaves
-----------------------------------------------------------------------------
\* Elements under the operations the model uses.
LEMMA ElementsEmpty == Elements(<<>>) = {}
BY DEF Elements

LEMMA ElementsAppend ==
    ASSUME NEW s \in Seq(Items), NEW i \in Items
    PROVE  Elements(Append(s, i)) = Elements(s) \cup {i}
<1>1. Elements(Append(s, i)) \subseteq Elements(s) \cup {i}
  BY DEF Elements
<1>2. Elements(s) \subseteq Elements(Append(s, i))
  BY DEF Elements
<1>3. i \in Elements(Append(s, i))
  BY DEF Elements
<1> QED
  BY <1>1, <1>2, <1>3

LEMMA ElementsTyped ==
    ASSUME NEW s \in Seq(Items)
    PROVE  Elements(s) \subseteq Items
BY DEF Elements

LEMMA ElementsPrefix ==
    ASSUME NEW s \in Seq(Items), NEW n \in 0..Len(s)
    PROVE  SubSeq(s, 1, n) \in Seq(Items) /\ Elements(SubSeq(s, 1, n)) \subseteq Elements(s)
BY DEF Elements

LEMMA ElementsHeadTail ==
    ASSUME NEW s \in Seq(Items), s # <<>>
    PROVE  /\ Head(s) \in Items
           /\ Elements(s) = {Head(s)} \cup Elements(Tail(s))
<1>1. Len(s) \in Nat /\ Len(s) # 0 /\ DOMAIN s = 1..Len(s)
  OBVIOUS
<1>2. /\ Head(s) \in Items /\ Head(s) = s[1]
      /\ Len(Tail(s)) = Len(s) - 1 /\ DOMAIN Tail(s) = 1..Len(Tail(s))
  BY <1>1
<1>3. ASSUME NEW n \in 1..Len(s) PROVE s[n] \in {Head(s)} \cup Elements(Tail(s))
  <2>1. CASE n = 1
    BY <2>1, <1>2
  <2>2. CASE n # 1
    <3>1. n - 1 \in 1..Len(Tail(s)) /\ Tail(s)[n - 1] = s[n]
      BY <2>2, <1>1, <1>2
    <3> QED
      BY <3>1, <1>2 DEF Elements
  <2> QED
    BY <2>1, <2>2
<1>4. ASSUME NEW n \in 1..Len(Tail(s)) PROVE Tail(s)[n] \in Elements(s)
  <2>1. n + 1 \in 1..Len(s) /\ Tail(s)[n] = s[n + 1]
    BY <1>1, <1>2
  <2> QED
    BY <2>1, <1>1 DEF Elements
<1>5. Head(s) \in Elements(s)
  BY <1>1, <1>2 DEF Elements
<1>6. Elements(s) \subseteq {Head(s)} \cup Elements(Tail(s))
  BY <1>1, <1>3 DEF Elements
<1>7. Elements(Tail(s)) \subseteq Elements(s)
  <2> SUFFICES ASSUME NEW x \in Elements(Tail(s)) PROVE x \in Elements(s)
    OBVIOUS
  <2>1. PICK n \in 1..Len(Tail(s)) : x = Tail(s)[n]
    BY <1>2 DEF Elements
  <2> QED
    BY <2>1, <1>4
<1> QED
  BY <1>2, <1>5, <1>6, <1>7

\* Lines that are written are saved, or the first is named; nothing leaves the log.
LEMMA WriteSaves ==
    ASSUME TypeOK, NEW lines \in Seq(Items), Write(lines)
    PROVE  /\ wal \subseteq wal' /\ wal' \subseteq Items
           /\ exempt \subseteq exempt' /\ exempt' \subseteq Items
           /\ Elements(lines) \subseteq wal' \cup exempt' \cup blob
<1>1. Elements(lines) \subseteq Items
  BY ElementsTyped
<1>2. CASE torn /\ lines # <<>>
  <2>1. Head(lines) \in Items /\ Elements(lines) = {Head(lines)} \cup Elements(Tail(lines))
    BY <1>2, ElementsHeadTail
  <2>2. wal' = wal \cup Elements(Tail(lines)) /\ exempt' = exempt \cup ({Head(lines)} \ blob)
    BY <1>2 DEF Write
  <2> QED
    BY <2>1, <2>2, <1>1 DEF TypeOK
<1>3. CASE ~(torn /\ lines # <<>>)
  <2>1. wal' = wal \cup Elements(lines) /\ exempt' = exempt
    BY <1>3 DEF Write
  <2> QED
    BY <2>1, <1>1 DEF TypeOK
<1> QED
  BY <1>2, <1>3

-----------------------------------------------------------------------------
(* The steps.                                                              *)

\* The empty sequence is a buffer.
LEMMA EmptyBuffer == <<>> \in Seq(Items) /\ Len(<<>>) = 0 /\ 0 <= MaxBufferSize
BY BoundsAssumption

LEMMA IInvInit == Init => IInv
<1> SUFFICES ASSUME Init PROVE IInv
  OBVIOUS
<1>1. TypeOK
  BY EmptyBuffer DEF Init, TypeOK
<1>2. Accepted /\ FlushesHoldBuffer /\ WrittenSaved /\ Ended
  BY ElementsEmpty DEF Init, Accepted, FlushesHoldBuffer, WrittenSaved, Ended
<1>3. FilterHolds /\ BackupHolds /\ Kept /\ ShutdownSaves
  BY DEF Init, FilterHolds, BackupHolds, Kept, ShutdownSaves
<1> QED
  BY <1>1, <1>2, <1>3 DEF IInv

\* One step at a time: what each action leaves of the invariant.
LEMMA IInvStep == IInv /\ [Next]_vars => IInv'
<1> SUFFICES ASSUME IInv, [Next]_vars PROVE IInv'
  OBVIOUS
<1> USE DEF IInv

<1>1. ASSUME NEW i \in Items, Add(i) PROVE IInv'
  <2>1. /\ Elements(buffer') = Elements(buffer) \cup {i}
       /\ buffer' \in Seq(Items) /\ Len(buffer') <= MaxBufferSize
    BY <1>1, ElementsAppend, BoundsAssumption DEF Add, Push, TypeOK
  <2>2. /\ exempt' \subseteq Items
       /\ exempt \subseteq exempt' \cup {i} /\ exempt' \subseteq exempt \cup {i}
    BY <1>1 DEF Add, Push, TypeOK
  <2>3. TypeOK'
    BY <1>1, <2>1, <2>2 DEF TypeOK, Add, Push, flushing, saving, disk
  <2>4. Accepted'
    BY <1>1, <2>1 DEF Accepted, Add, Push, flushing, saving, disk
  <2>5. FlushesHoldBuffer'
    BY <1>1, <2>1, <2>2 DEF FlushesHoldBuffer, Add, Push, flushing, saving, disk, InFlight
  <2>6. WrittenSaved'
    BY <1>1 DEF WrittenSaved, Saved, Add, Push, flushing, saving, disk, InFlight
  <2>7. Ended'
    BY <1>1 DEF Ended, Add, Push, flushing, saving, disk
  <2>8. FilterHolds'
    BY <1>1, <2>2 DEF FilterHolds, Saved, Add, Push, flushing, saving, disk
  <2>9. BackupHolds'
    BY <1>1, <2>2 DEF BackupHolds, Add, Push, flushing, saving, disk, BackingUp
  <2>10. Kept'
    BY <1>1, <2>1, <2>2 DEF Kept, Saved, Add, Push, flushing, saving, disk
  <2>11. ShutdownSaves'
    BY <1>1 DEF ShutdownSaves, Saved, Add, Push, flushing, saving, disk
  <2> QED
    BY <2>3, <2>4, <2>5, <2>6, <2>7, <2>8, <2>9, <2>10, <2>11
<1>2. ASSUME NEW f \in Flushes, FlushTick(f) PROVE IInv'
  <2>1. TypeOK'
    BY <1>2 DEF TypeOK, FlushTick, saving, disk, promises, StartFlush
  <2>2. Accepted'
    BY <1>2 DEF Accepted, FlushTick, saving, disk, promises, StartFlush
  <2>3. FlushesHoldBuffer'
    BY <1>2 DEF FlushesHoldBuffer, FlushTick, saving, disk, promises, StartFlush, TypeOK
  <2>4. WrittenSaved'
    BY <1>2 DEF WrittenSaved, Saved, FlushTick, saving, disk, promises, StartFlush, TypeOK
  <2>5. Ended'
    BY <1>2 DEF Ended, FlushTick, saving, disk, promises, StartFlush
  <2>6. FilterHolds'
    BY <1>2 DEF FilterHolds, Saved, FlushTick, saving, disk, promises
  <2>7. BackupHolds'
    BY <1>2 DEF BackupHolds, FlushTick, saving, disk, promises
  <2>8. Kept'
    BY <1>2 DEF Kept, Saved, FlushTick, saving, disk, promises
  <2>9. ShutdownSaves'
    BY <1>2 DEF ShutdownSaves, Saved, FlushTick, saving, disk, promises
  <2> QED
    BY <2>1, <2>2, <2>3, <2>4, <2>5, <2>6, <2>7, <2>8, <2>9
<1>3. ASSUME NEW f \in AllFlushes, AppendDone(f) PROVE IInv'
  <2>1. Elements(data[f]) \subseteq acked /\ data[f] \in Seq(Items)
    BY DEF Accepted, TypeOK
  <2>2. /\ wal \subseteq wal' /\ wal' \subseteq Items
       /\ exempt \subseteq exempt' /\ exempt' \subseteq Items
       /\ Elements(data[f]) \subseteq wal' \cup exempt' \cup blob
    BY <1>3, <2>1, WriteSaves DEF AppendDone
  <2>3. TypeOK'
    BY <1>3, <2>2 DEF TypeOK, AppendDone, saving
  <2>4. Accepted'
    BY <1>3, <2>2 DEF Accepted, AppendDone, saving
  <2>5. FlushesHoldBuffer'
    BY <1>3, <2>2 DEF FlushesHoldBuffer, AppendDone, saving, TypeOK
  <2>6. WrittenSaved'
    BY <1>3, <2>2 DEF WrittenSaved, Saved, AppendDone, saving, TypeOK
  <2>7. Ended'
    BY <1>3 DEF Ended, AppendDone, saving
  <2>8. FilterHolds'
    BY <1>3, <2>2 DEF FilterHolds, Saved, AppendDone, saving
  <2>9. BackupHolds'
    BY <1>3, <2>2 DEF BackupHolds, AppendDone, saving
  <2>10. Kept'
    BY <1>3, <2>2 DEF Kept, Saved, AppendDone, saving
  <2>11. ShutdownSaves'
    BY <1>3, <2>2 DEF ShutdownSaves, Saved, AppendDone, saving
  <2> QED
    BY <2>3, <2>4, <2>5, <2>6, <2>7, <2>8, <2>9, <2>10, <2>11
<1>4. ASSUME NEW f \in AllFlushes, FlushDone(f) PROVE IInv'
  <2>1. Elements(buffer') = {} /\ Elements(<<>>) = {}
    BY <1>4, ElementsEmpty DEF FlushDone
  <2>2. status' \in {status, "destroyed"} /\ status # "down" 
    BY <1>4 DEF FlushDone, AfterFlush, Destroyed, Ended
  <2>3. acked \ exempt \subseteq Saved
    BY <1>4 DEF FlushDone, WrittenSaved, FlushesHoldBuffer, Kept, Saved
  <2>4. TypeOK'
    BY <1>4, <2>2, EmptyBuffer DEF TypeOK, FlushDone, saving, disk, promises, EndFlush
  <2>5. Accepted'
    BY <1>4, <2>1 DEF Accepted, FlushDone, saving, disk, promises, EndFlush
  <2>6. FlushesHoldBuffer'
    BY <1>4, <2>1 DEF FlushesHoldBuffer, FlushDone, saving, disk, promises
  <2>7. WrittenSaved'
    BY <1>4, <2>1 DEF WrittenSaved, Saved, FlushDone, saving, disk, promises, EndFlush, TypeOK
  <2>8. Ended'
    BY <1>4, <2>2 DEF Ended, FlushDone, saving, disk, promises
  <2>9. FilterHolds'
    BY <1>4, <2>2, <2>3 DEF FilterHolds, Saved, FlushDone, saving, disk, promises
  <2>10. BackupHolds'
    BY <1>4, <2>2 DEF BackupHolds, FlushDone, saving, disk, promises
  <2>11. Kept'
    BY <1>4, <2>3 DEF Kept, Saved, FlushDone, saving, disk, promises
  <2>12. ShutdownSaves'
    BY <1>4, <2>3 DEF ShutdownSaves, Saved, FlushDone, saving, disk, promises
  <2> QED
    BY <2>4, <2>5, <2>6, <2>7, <2>8, <2>9, <2>10, <2>11, <2>12
<1>5. ASSUME NEW f \in AllFlushes, FlushFails(f) PROVE IInv'
  <2>1. PICK n \in 0..Len(data[f]) : Write(SubSeq(data[f], 1, n))
    BY <1>5 DEF FlushFails
  <2>2. SubSeq(data[f], 1, n) \in Seq(Items)
    BY ElementsPrefix DEF TypeOK
  <2>3. /\ wal \subseteq wal' /\ wal' \subseteq Items
       /\ exempt \subseteq exempt' /\ exempt' \subseteq Items
    BY <2>1, <2>2, WriteSaves
  <2>4. torn' \in BOOLEAN
    BY <1>5 DEF FlushFails, TypeOK
  <2>5. status' \in {status, "destroyed"} /\ status # "down" 
    BY <1>5 DEF FlushFails, AfterFlush, Destroyed, Ended
  <2>6. status' = "destroyed" /\ ~unsaved' => status = "destroyed" /\ ~unsaved
    BY <1>5 DEF FlushFails, AfterFlush
  <2>7. unsaved' \in BOOLEAN
    BY <1>5 DEF FlushFails, TypeOK
  <2>8. Elements(<<>>) = {}
    BY ElementsEmpty
  <2>9. TypeOK'
    BY <1>5, <2>3, <2>4, <2>5, <2>7 DEF TypeOK, FlushFails, saving, EndFlush
  <2>10. Accepted'
    BY <1>5, <2>8 DEF Accepted, FlushFails, saving, EndFlush
  <2>11. FlushesHoldBuffer'
    BY <1>5, <2>3 DEF FlushesHoldBuffer, FlushFails, saving, EndFlush, TypeOK
  <2>12. WrittenSaved'
    BY <1>5, <2>3 DEF WrittenSaved, Saved, FlushFails, saving, EndFlush, TypeOK
  <2>13. Ended'
    BY <1>5, <2>5 DEF Ended, FlushFails, saving
  <2>14. FilterHolds'
    BY <1>5, <2>3, <2>5 DEF FilterHolds, Saved, FlushFails, saving
  <2>15. BackupHolds'
    BY <1>5, <2>3, <2>5 DEF BackupHolds, FlushFails, saving
  <2>16. Kept'
    BY <1>5, <2>3 DEF Kept, Saved, FlushFails, saving
  <2>17. ShutdownSaves'
    BY <1>5, <2>3, <2>6 DEF ShutdownSaves, Saved, FlushFails, saving
  <2> QED
    BY <2>9, <2>10, <2>11, <2>12, <2>13, <2>14, <2>15, <2>16, <2>17
<1>6. CASE BackupStart
  <2>1. status # "down" 
    BY <1>6 DEF BackupStart, Ended
  <2>2. TypeOK'
    BY <1>6 DEF TypeOK, BackupStart, flushing, disk, promises
  <2>3. Accepted'
    BY <1>6 DEF Accepted, BackupStart, flushing, disk, promises
  <2>4. FlushesHoldBuffer'
    BY <1>6 DEF FlushesHoldBuffer, BackupStart, flushing, disk, promises
  <2>5. WrittenSaved'
    BY <1>6 DEF WrittenSaved, Saved, BackupStart, flushing, disk, promises
  <2>6. Ended'
    BY <1>6, <2>1 DEF Ended, BackupStart, flushing, disk, promises
  <2>7. FilterHolds'
    BY <1>6 DEF FilterHolds, Saved, BackupStart, flushing, disk, promises
  <2>8. BackupHolds'
    BY <1>6, <2>1 DEF BackupHolds, BackupStart, flushing, disk, promises, FilterHolds
  <2>9. Kept'
    BY <1>6 DEF Kept, Saved, BackupStart, flushing, disk, promises
  <2>10. ShutdownSaves'
    BY <1>6 DEF ShutdownSaves, Saved, BackupStart, flushing, disk, promises
  <2> QED
    BY <2>2, <2>3, <2>4, <2>5, <2>6, <2>7, <2>8, <2>9, <2>10
<1>7. CASE BackupRename
  <2>1. backup = "writing" /\ status # "down" 
    BY <1>7 DEF BackupRename, Ended
  <2>2. copy \subseteq blob' /\ blob' \subseteq filter /\ blob \subseteq blob'
    BY <1>7, <2>1 DEF BackupRename, BackupHolds, FilterHolds
  <2>3. exempt' = exempt \ blob'
    BY <1>7 DEF BackupRename
  <2>4. TypeOK'
    BY <1>7, <2>1, <2>2, <2>3 DEF TypeOK, BackupRename, flushing
  <2>5. Accepted'
    BY <1>7, <2>1, <2>2, <2>3 DEF Accepted, BackupRename, flushing
  <2>6. FlushesHoldBuffer'
    BY <1>7, <2>1, <2>2, <2>3 DEF FlushesHoldBuffer, BackupRename, flushing
  <2>7. WrittenSaved'
    BY <1>7, <2>1, <2>2, <2>3 DEF WrittenSaved, Saved, BackupRename, flushing
  <2>8. Ended'
    BY <1>7, <2>1, <2>2, <2>3 DEF Ended, BackupRename, flushing
  <2>9. FilterHolds'
    BY <1>7, <2>1, <2>2, <2>3 DEF FilterHolds, Saved, BackupRename, flushing
  <2>10. BackupHolds'
    BY <1>7, <2>1, <2>2, <2>3 DEF BackupHolds, BackupRename, flushing
  <2>11. Kept'
    BY <1>7, <2>1, <2>2, <2>3 DEF Kept, Saved, BackupRename, flushing, BackupHolds
  <2>12. ShutdownSaves'
    BY <1>7, <2>1, <2>2, <2>3 DEF ShutdownSaves, Saved, BackupRename, flushing, BackupHolds
  <2> QED
    BY <2>4, <2>5, <2>6, <2>7, <2>8, <2>9, <2>10, <2>11, <2>12
<1>8. CASE BackupTruncate
  <2>1. acked \ exempt \subseteq blob /\ status # "down" 
    BY <1>8 DEF BackupTruncate, BackupHolds, Ended
  <2>2. TypeOK'
    BY <1>8 DEF TypeOK, BackupTruncate, flushing, promises
  <2>3. Accepted'
    BY <1>8 DEF Accepted, BackupTruncate, flushing, promises
  <2>4. FlushesHoldBuffer'
    BY <1>8 DEF FlushesHoldBuffer, BackupTruncate, flushing, promises
  <2>5. WrittenSaved'
    BY <1>8, <2>1 DEF WrittenSaved, Saved, BackupTruncate, flushing, promises, Accepted
  <2>6. Ended'
    BY <1>8 DEF Ended, BackupTruncate, flushing, promises
  <2>7. FilterHolds'
    BY <1>8, <2>1 DEF FilterHolds, Saved, BackupTruncate, flushing, promises
  <2>8. BackupHolds'
    BY <1>8 DEF BackupHolds, BackupTruncate, flushing, promises
  <2>9. Kept'
    BY <1>8, <2>1 DEF Kept, Saved, BackupTruncate, flushing, promises
  <2>10. ShutdownSaves'
    BY <1>8, <2>1 DEF ShutdownSaves, Saved, BackupTruncate, flushing, promises
  <2> QED
    BY <2>2, <2>3, <2>4, <2>5, <2>6, <2>7, <2>8, <2>9, <2>10
<1>9. CASE BackupFails
  <2>1. TypeOK'
    BY <1>9 DEF TypeOK, BackupFails, BackingUp, flushing, disk, promises
  <2>2. Accepted'
    BY <1>9 DEF Accepted, BackupFails, BackingUp, flushing, disk, promises
  <2>3. FlushesHoldBuffer'
    BY <1>9 DEF FlushesHoldBuffer, BackupFails, BackingUp, flushing, disk, promises
  <2>4. WrittenSaved'
    BY <1>9 DEF WrittenSaved, Saved, BackupFails, BackingUp, flushing, disk, promises
  <2>5. Ended'
    BY <1>9 DEF Ended, BackupFails, BackingUp, flushing, disk, promises
  <2>6. FilterHolds'
    BY <1>9 DEF FilterHolds, Saved, BackupFails, BackingUp, flushing, disk, promises
  <2>7. BackupHolds'
    BY <1>9 DEF BackupHolds, BackupFails, BackingUp, flushing, disk, promises
  <2>8. Kept'
    BY <1>9 DEF Kept, Saved, BackupFails, BackingUp, flushing, disk, promises
  <2>9. ShutdownSaves'
    BY <1>9 DEF ShutdownSaves, Saved, BackupFails, BackingUp, flushing, disk, promises
  <2> QED
    BY <2>1, <2>2, <2>3, <2>4, <2>5, <2>6, <2>7, <2>8, <2>9
<1>10. CASE Shutdown
  <2>1. Elements(<<>>) = {}
    BY ElementsEmpty
  <2>2. TypeOK'
    BY <1>10 DEF TypeOK, Shutdown, Destroyed, saving, disk, promises, StartFlush, flushing
  <2>3. Accepted'
    BY <1>10 DEF Accepted, Shutdown, Destroyed, saving, disk, promises, StartFlush, TypeOK,
        flushing
  <2>4. FlushesHoldBuffer'
    BY <1>10, <2>1 DEF FlushesHoldBuffer, Shutdown, Destroyed, saving, disk, promises,
        StartFlush, TypeOK, flushing
  <2>5. WrittenSaved'
    BY <1>10 DEF WrittenSaved, Saved, Shutdown, Destroyed, saving, disk, promises,
        StartFlush, TypeOK, flushing
  <2>6. Ended'
    BY <1>10 DEF Ended, Shutdown, Destroyed, saving, disk, promises, flushing
  <2>7. FilterHolds'
    BY <1>10 DEF FilterHolds, Saved, Shutdown, Destroyed, saving, disk, promises
  <2>8. BackupHolds'
    BY <1>10 DEF BackupHolds, Shutdown, Destroyed, saving, disk, promises
  <2>9. Kept'
    BY <1>10 DEF Kept, Saved, Shutdown, Destroyed, saving, disk, promises
  <2>10. ShutdownSaves'
    BY <1>10, <2>1 DEF ShutdownSaves, Saved, Shutdown, Destroyed, saving, disk, promises, Kept
  <2> QED
    BY <2>2, <2>3, <2>4, <2>5, <2>6, <2>7, <2>8, <2>9, <2>10
<1>11. CASE Destroy
  <2>1. TypeOK'
    BY <1>11 DEF TypeOK, Destroy, Destroyed, flushing, saving, disk
  <2>2. Accepted'
    BY <1>11 DEF Accepted, Destroy, Destroyed, flushing, saving, disk
  <2>3. FlushesHoldBuffer'
    BY <1>11 DEF FlushesHoldBuffer, Destroy, Destroyed, flushing, saving, disk
  <2>4. WrittenSaved'
    BY <1>11 DEF WrittenSaved, Saved, Destroy, Destroyed, flushing, saving, disk
  <2>5. Ended'
    BY <1>11 DEF Ended, Destroy, Destroyed, flushing, saving, disk
  <2>6. FilterHolds'
    BY <1>11 DEF FilterHolds, Saved, Destroy, Destroyed, flushing, saving, disk
  <2>7. BackupHolds'
    BY <1>11 DEF BackupHolds, Destroy, Destroyed, flushing, saving, disk
  <2>8. Kept'
    BY <1>11 DEF Kept, Saved, Destroy, Destroyed, flushing, saving, disk
  <2>9. ShutdownSaves'
    BY <1>11 DEF ShutdownSaves, Saved, Destroy, Destroyed, flushing, saving, disk
  <2> QED
    BY <2>1, <2>2, <2>3, <2>4, <2>5, <2>6, <2>7, <2>8, <2>9
<1>12. CASE Crash
  <2>1. Elements(<<>>) = {}
    BY ElementsEmpty
  <2>2. acked' \ exempt' \subseteq Saved
    BY <1>12 DEF Crash, Kept
  <2>3. TypeOK'
    BY <1>12, EmptyBuffer DEF TypeOK, Crash, disk
  <2>4. Accepted'
    BY <1>12, <2>1 DEF Accepted, Crash, disk
  <2>5. FlushesHoldBuffer'
    BY <1>12 DEF FlushesHoldBuffer, Crash, disk
  <2>6. WrittenSaved'
    BY <1>12 DEF WrittenSaved, Saved, Crash, disk
  <2>7. Ended'
    BY <1>12 DEF Ended, Crash, disk
  <2>8. FilterHolds'
    BY <1>12, <2>2 DEF FilterHolds, Saved, Crash, disk
  <2>9. BackupHolds'
    BY <1>12 DEF BackupHolds, Crash, disk
  <2>10. Kept'
    BY <1>12, <2>2 DEF Kept, Saved, Crash, disk
  <2>11. ShutdownSaves'
    BY <1>12 DEF ShutdownSaves, Saved, Crash, disk
  <2> QED
    BY <2>3, <2>4, <2>5, <2>6, <2>7, <2>8, <2>9, <2>10, <2>11
<1>13. CASE Start
  <2>0. acked \ exempt \subseteq Saved
    BY <1>13 DEF Start, FilterHolds
  <2>1. TypeOK'
    BY <1>13 DEF TypeOK, Start, flushing, saving, disk, promises, Saved
  <2>2. Accepted'
    BY <1>13 DEF Accepted, Start, flushing, saving, disk, promises
  <2>3. FlushesHoldBuffer'
    BY <1>13 DEF FlushesHoldBuffer, Start, flushing, saving, disk, promises
  <2>4. WrittenSaved'
    BY <1>13 DEF WrittenSaved, Saved, Start, flushing, saving, disk, promises
  <2>5. Ended'
    BY <1>13 DEF Ended, Start, flushing, saving, disk, promises
  <2>6. FilterHolds'
    BY <1>13, <2>0 DEF FilterHolds, Saved, Start, flushing, saving, disk, promises
  <2>7. BackupHolds'
    BY <1>13 DEF BackupHolds, Start, flushing, saving, disk, promises, Ended
  <2>8. Kept'
    BY <1>13 DEF Kept, Saved, Start, flushing, saving, disk, promises
  <2>9. ShutdownSaves'
    BY <1>13 DEF ShutdownSaves, Saved, Start, flushing, saving, disk, promises
  <2> QED
    BY <2>1, <2>2, <2>3, <2>4, <2>5, <2>6, <2>7, <2>8, <2>9
<1>14. CASE UNCHANGED vars
  <2>1. TypeOK'
    BY <1>14 DEF TypeOK, vars, flushing, saving, disk, promises
  <2>2. Accepted'
    BY <1>14 DEF Accepted, vars, flushing, saving, disk, promises
  <2>3. FlushesHoldBuffer'
    BY <1>14 DEF FlushesHoldBuffer, vars, flushing, saving, disk, promises
  <2>4. WrittenSaved'
    BY <1>14 DEF WrittenSaved, Saved, vars, flushing, saving, disk, promises, TypeOK
  <2>5. Ended'
    BY <1>14 DEF Ended, vars, flushing, saving, disk, promises
  <2>6. FilterHolds'
    BY <1>14 DEF FilterHolds, Saved, vars, flushing, saving, disk, promises
  <2>7. BackupHolds'
    BY <1>14 DEF BackupHolds, vars, flushing, saving, disk, promises
  <2>8. Kept'
    BY <1>14 DEF Kept, Saved, vars, flushing, saving, disk, promises
  <2>9. ShutdownSaves'
    BY <1>14 DEF ShutdownSaves, Saved, vars, flushing, saving, disk, promises
  <2> QED
    BY <2>1, <2>2, <2>3, <2>4, <2>5, <2>6, <2>7, <2>8, <2>9
<1> QED
  BY <1>1, <1>2, <1>3, <1>4, <1>5, <1>6, <1>7, <1>8, <1>9, <1>10, <1>11, <1>12, <1>13, <1>14
     DEF Next, FlushStep, BackupStep

\* Every variable keeps its type; the buffer is never longer than its limit.
THEOREM TypeCorrect == Spec => []TypeOK
<1>1. IInv => TypeOK
  BY DEF IInv
<1> QED
  BY <1>1, IInvInit, IInvStep, PTL DEF Spec

\* Comment of #flushWriteBuffer, for any number of overlapping and failing flushes,
\* of backups that save, rename and truncate in between, and of crashes: no failure
\* loses an accepted token, but those that exempt names.
THEOREM NothingLost == Spec => []BufferedOrSaved
<1>1. IInv => BufferedOrSaved
  BY DEF IInv, Kept, BufferedOrSaved
<1> QED
  BY <1>1, IInvInit, IInvStep, PTL DEF Spec

\* README, shutdown(): the flush of shutdown() has saved what the buffer held,
\* whatever flushes and whatever backup are under way, but for the same tokens.
THEOREM ShutdownFlushes == Spec => []ShutdownSaves
<1>1. IInv => ShutdownSaves
  BY DEF IInv
<1> QED
  BY <1>1, IInvInit, IInvStep, PTL DEF Spec
=============================================================================
