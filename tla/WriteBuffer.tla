---------------------------- MODULE WriteBuffer ----------------------------
(***************************************************************************)
(* An instance with bufferEnabled: backupItem pushes a token to an array in*)
(* memory, an interval appends the whole array to the log, and empties the *)
(* array when the append has succeeded.  The append is asynchronous: tokens*)
(* are pushed, other flushes start, and periodic backups save the filter   *)
(* and empty the log while it is under way.                                *)
(*                                                                         *)
(* One window is modelled, without rotations.  A filter and a file are the *)
(* sets of the tokens a restore finds in them.                             *)
(***************************************************************************)
EXTENDS Naturals, Sequences, FiniteSets

CONSTANTS
    Items,          \* the tokens
    Flushes,        \* flushes of the interval that may overlap
    Closer,         \* the flush of shutdown()
    MaxBufferSize,  \* bufferMaxSize
    MaxFailures,    \* bound on the appends and backups that fail
    MaxCrashes      \* bound on the crashes

ASSUME CloserAssumption == Closer \notin Flushes
ASSUME BoundsAssumption ==
    MaxBufferSize \in Nat \ {0} /\ MaxFailures \in Nat /\ MaxCrashes \in Nat

AllFlushes == Flushes \cup {Closer}

VARIABLES
    status,   \* "running", "closing", "destroyed", "down"
    filter,   \* the Bloom filter; destroy() drops it, a backup under way does not
    buffer,   \* writeBuffer
    pc,       \* pc[f]: "idle", "writing", or "written" before its callback runs
    data,     \* data[f]: what flush f appends
    backup,   \* "idle", "writing" the temporary blob, "renamed", "sleeping"
    copy,     \* what the filter held when the backup began to write it
    wal,      \* the whole lines of the log
    torn,     \* TRUE iff the log ends in a part of a line
    blob,     \* the saved filter
    \* Observations and bounds.
    acked,    \* tokens whose add succeeded; not those a crash found in the buffer only
    exempt,   \* tokens pushed while an append or a backup was under way, or written
              \* behind a torn line, and in no blob since
    unsaved,  \* TRUE iff the flush of shutdown() failed or was left out
    failures, crashes

disk == <<wal, torn, blob>>
flushing == <<pc, data>>
saving == <<backup, copy>>
promises == <<acked, exempt, unsaved>>
bounds == <<failures, crashes>>
vars == <<status, filter, buffer, flushing, saving, disk, promises, bounds>>

Elements(s) == {s[n] : n \in DOMAIN s}
Saved == wal \cup blob
InFlight == \E f \in AllFlushes : pc[f] # "idle"
BackingUp == backup \in {"writing", "renamed"}

-----------------------------------------------------------------------------
(* add().                                                                  *)

Push(i) ==
    /\ status = "running"
    /\ buffer' = Append(buffer, i)
    /\ filter' = filter \cup {i}
    /\ acked' = acked \cup {i}
    /\ exempt' = IF InFlight \/ BackingUp THEN exempt \cup {i} ELSE exempt \ {i}
    /\ UNCHANGED <<status, flushing, saving, disk, unsaved, bounds>>

\* Mutant: the bound is off by one.
AddOverfull(i) == Len(buffer) <= MaxBufferSize /\ Push(i)

\* The buffer refuses when it is full, and the filter is left alone.
Add(i) == Len(buffer) < MaxBufferSize /\ Push(i)

-----------------------------------------------------------------------------
(* #flushWriteBuffer.                                                      *)

StartFlush(f) ==
    /\ buffer # <<>>
    /\ pc[f] = "idle"
    /\ pc' = [pc EXCEPT ![f] = "writing"]
    /\ data' = [data EXCEPT ![f] = buffer]

\* The interval fires, whether or not the last flush is over.
FlushTick(f) ==
    /\ status \in {"running", "closing"}
    /\ StartFlush(f)
    /\ UNCHANGED <<status, filter, buffer, saving, disk, promises, bounds>>

\* Whole lines reach the file; the first of them ends a torn line, if there is one,
\* and the restore finds its token in neither.
Write(lines) ==
    IF torn /\ lines # <<>>
    THEN /\ wal' = wal \cup Elements(Tail(lines))
         /\ exempt' = exempt \cup ({Head(lines)} \ blob)
    ELSE /\ wal' = wal \cup Elements(lines)
         /\ UNCHANGED exempt

\* The append reaches the file ...
AppendDone(f) ==
    /\ pc[f] = "writing"
    /\ pc' = [pc EXCEPT ![f] = "written"]
    /\ Write(data[f])
    /\ torn' = FALSE
    /\ UNCHANGED <<status, filter, buffer, data, saving, blob, acked, unsaved, bounds>>

\* What destroy() does, at the end of shutdown() or by itself.
Destroyed == status' = "destroyed"

AfterFlush(f) == IF f = Closer THEN Destroyed ELSE UNCHANGED status

EndFlush(f) ==
    /\ pc' = [pc EXCEPT ![f] = "idle"]
    /\ data' = [data EXCEPT ![f] = <<>>]

\* ... and its continuation drops the array, whatever it holds by then.
FlushDone(f) ==
    /\ pc[f] = "written"
    /\ buffer' = <<>>
    /\ EndFlush(f)
    /\ AfterFlush(f)
    /\ UNCHANGED <<filter, saving, disk, promises, bounds>>

Failure ==
    /\ failures < MaxFailures
    /\ failures' = failures + 1
    /\ UNCHANGED crashes

\* Mutant: the array is emptied in a finally block.
FlushFailsClearing(f) ==
    /\ pc[f] = "writing"
    /\ Failure
    /\ buffer' = <<>>
    /\ EndFlush(f)
    /\ AfterFlush(f)
    /\ unsaved' = (unsaved \/ f = Closer)
    /\ UNCHANGED <<filter, saving, disk, acked, exempt>>

\* The append fails after some whole lines, and perhaps a part of the next; the
\* array is kept.
FlushFails(f) ==
    /\ pc[f] = "writing"
    /\ Failure
    /\ \E n \in 0..Len(data[f]) :
        /\ Write(SubSeq(data[f], 1, n))
        /\ \/ torn' = (torn /\ n = 0)
           \/ n < Len(data[f]) /\ torn' = TRUE
    /\ EndFlush(f)
    /\ AfterFlush(f)
    /\ unsaved' = (unsaved \/ f = Closer)
    /\ UNCHANGED <<filter, buffer, saving, blob, acked>>

-----------------------------------------------------------------------------
(* The periodic backup: backupLocal, with its retries.                     *)

\* The interval fires, or a retry delay ends, which destroy() does not stop.
BackupStart ==
    /\ \/ backup = "idle" /\ status \in {"running", "closing"}
       \/ backup = "sleeping"
    /\ backup' = "writing"
    /\ copy' = filter
    /\ UNCHANGED <<status, filter, buffer, flushing, disk, promises, bounds>>

\* Buffer.from shares the memory of the filter: a token added while the file is
\* written may or may not be in it.
BackupRename ==
    /\ backup = "writing"
    /\ backup' = "renamed"
    /\ \E S \in SUBSET filter : blob' = copy \cup S
    /\ exempt' = exempt \ blob'
    /\ UNCHANGED <<status, filter, buffer, flushing, copy, wal, torn, acked, unsaved, bounds>>

\* The log is emptied of whatever was appended to it meanwhile.
BackupTruncate ==
    /\ backup = "renamed"
    /\ backup' = "idle"
    /\ copy' = {}
    /\ wal' = {}
    /\ torn' = FALSE
    /\ UNCHANGED <<status, filter, buffer, flushing, blob, promises, bounds>>

\* Any of its steps fails: another attempt follows, or none.
BackupFails ==
    /\ BackingUp
    /\ Failure
    /\ backup' \in {"sleeping", "idle"}
    /\ copy' = {}
    /\ UNCHANGED <<status, filter, buffer, flushing, disk, promises>>

-----------------------------------------------------------------------------
(* shutdown(), destroy(), crash and restart.                               *)

\* Mutant: the last flush is skipped.
ShutdownUnflushed ==
    /\ status = "running"
    /\ Destroyed
    /\ UNCHANGED <<filter, buffer, flushing, saving, disk, promises, bounds>>

\* shutdown(): no more tokens, one last flush, destroy().
Shutdown ==
    /\ status = "running"
    /\ IF buffer = <<>>
       THEN Destroyed /\ UNCHANGED flushing
       ELSE status' = "closing" /\ StartFlush(Closer)
    /\ UNCHANGED <<filter, buffer, saving, disk, promises, bounds>>

\* destroy() by itself drains nothing.
Destroy ==
    /\ status \in {"running", "closing"}
    /\ Destroyed
    /\ unsaved' = TRUE
    /\ UNCHANGED <<filter, buffer, flushing, saving, disk, acked, exempt, bounds>>

\* The process ends.  What was only in the buffer is the documented loss.
Crash ==
    /\ status # "down"
    /\ crashes < MaxCrashes
    /\ crashes' = crashes + 1
    /\ status' = "down"
    /\ filter' = {} /\ buffer' = <<>>
    /\ pc' = [f \in AllFlushes |-> "idle"] /\ data' = [f \in AllFlushes |-> <<>>]
    /\ backup' = "idle" /\ copy' = {}
    /\ acked' = acked \ (Elements(buffer) \ Saved)
    /\ unsaved' = FALSE
    /\ UNCHANGED <<disk, exempt, failures>>

Start ==
    /\ status = "down"
    /\ status' = "running"
    /\ filter' = Saved
    /\ UNCHANGED <<buffer, flushing, saving, disk, promises, bounds>>

Init ==
    /\ status = "running" /\ filter = {} /\ buffer = <<>>
    /\ pc = [f \in AllFlushes |-> "idle"] /\ data = [f \in AllFlushes |-> <<>>]
    /\ backup = "idle" /\ copy = {}
    /\ wal = {} /\ torn = FALSE /\ blob = {}
    /\ acked = {} /\ exempt = {} /\ unsaved = FALSE
    /\ failures = 0 /\ crashes = 0

FlushStep(f) == AppendDone(f) \/ FlushDone(f) \/ FlushFails(f)
BackupStep == BackupStart \/ BackupRename \/ BackupTruncate \/ BackupFails

Next ==
    \/ \E i \in Items : Add(i)
    \/ \E f \in Flushes : FlushTick(f)
    \/ \E f \in AllFlushes : FlushStep(f)
    \/ BackupStep
    \/ Shutdown \/ Destroy \/ Crash \/ Start

\* The interval fires and the appends end; backups and callers are free.
Fairness ==
    /\ \A f \in Flushes : WF_vars(FlushTick(f))
    /\ \A f \in AllFlushes : WF_vars(FlushStep(f))

Spec == Init /\ [][Next]_vars /\ Fairness

-----------------------------------------------------------------------------
TypeOK ==
    /\ status \in {"running", "closing", "destroyed", "down"}
    /\ backup \in {"idle", "writing", "renamed", "sleeping"}
    /\ {filter, copy, wal, blob, acked, exempt} \subseteq SUBSET Items
    /\ buffer \in Seq(Items) /\ Len(buffer) <= MaxBufferSize
    /\ pc \in [AllFlushes -> {"idle", "writing", "written"}]
    /\ data \in [AllFlushes -> Seq(Items)]
    /\ torn \in BOOLEAN /\ unsaved \in BOOLEAN

\* Comment of #flushWriteBuffer: a failure does not lose data.  Whatever fails,
\* however flushes and backups overlap, and across crashes, an acknowledged token
\* is still to be flushed, or saved: unless it was pushed while an append or a
\* backup was under way, or joined a torn line.
BufferedOrSaved ==
    status # "destroyed" => acked \ exempt \subseteq Elements(buffer) \cup Saved

\* README, shutdown(): the write buffer is flushed.  When the last flush did not
\* fail, what was acknowledged is on disk and stays there, also while a backup that
\* shutdown() does not wait for goes on; but for the same tokens.
ShutdownSaves ==
    (status = "destroyed" /\ ~unsaved) => acked \ exempt \subseteq Saved

\* README "Failure modes": a failed flush is retried.  A token does not stay in
\* the buffer for ever while the instance runs.
EventuallyFlushed ==
    \A i \in Items : (i \in Elements(buffer) \ exempt /\ status = "running")
                        ~> (i \in Saved \cup exempt \/ status # "running")

\* Comment of #flushWriteBuffer: no flush loses a token.
NoTokenDropped ==
    status \in {"running", "closing"} => acked \subseteq Elements(buffer) \cup Saved
=============================================================================
