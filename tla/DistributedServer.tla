-------------------------- MODULE DistributedServer --------------------------
(***************************************************************************)
(* The coordinator's side of replication: the Subscribe stream with its    *)
(* write chain, PollDeltas, GetSnapshot, and the registry that admits one  *)
(* stream per node; and the network between the coordinator and one node.  *)
(*                                                                         *)
(* The coordinator is Coordinator.tla at a coarser grain.  An event is its *)
(* LSN; a rotation, its marker, its checkpoint and the retention are one   *)
(* step; a restart changes nothing but what may be served.                 *)
(***************************************************************************)
EXTENDS Integers, Sequences, FiniteSets

CONSTANTS
    DrainBatch, \* DRAIN_BATCH_SIZE
    Window,     \* messages a stream takes before write() asks to wait for "drain"
    MaxLsn,     \* bound on the LSNs assigned
    MaxFaults   \* bound on the failures, of any kind, in a behaviour

ASSUME ServerAssumption ==
    /\ {DrainBatch, Window} \subseteq Nat \ {0}
    /\ {MaxLsn, MaxFaults} \subseteq Nat

VARIABLES
    \* The coordinator.
    log,           \* by LSN: "entry", "rotate", or "hole" (a failed append)
    unsent,        \* appended, but not broadcast
    deletedMaxLsn, \* what canServeFrom allows
    up,
    \* The stream of the node.
    call,          \* "none" (the node has none), "open", "ended" (by the server)
    chain,         \* the write chain of its connection
    batch,         \* what the drain has read and not written
    lastWrittenLsn,
    zombie,        \* an earlier connection of the node is registered still
    wire,          \* the messages in transit
    silent,        \* the connection delivers nothing, and has not failed
    faults         \* the failures so far

coordinator == <<log, unsent, deletedMaxLsn, up>>
stream      == <<call, chain, batch, lastWrittenLsn, zombie, wire, silent>>

Fault ==
    /\ faults < MaxFaults
    /\ faults' = faults + 1

Bigger(m, n) == IF m >= n THEN m ELSE n

-----------------------------------------------------------------------------
(* The coordinator.                                                        *)

RotationsIn(first, last) == {n \in first..last : n \in DOMAIN log /\ log[n] = "rotate"}
EntriesIn(first, last) == {n \in first..last : n \in DOMAIN log /\ log[n] = "entry"}

\* The LSN of the last rotation up to lsn, and the generation that it began.
LastRotation(lsn) ==
    CHOOSE n \in {0} \cup RotationsIn(1, lsn) : \A m \in RotationsIn(1, lsn) : m <= n
Generation(lsn) == Cardinality(RotationsIn(1, lsn))

\* lastBackupLsn.
ConsistencyPoint == LastRotation(Len(log))

CanServeFrom(from) == from >= deletedMaxLsn

Retained(from) == {n \in (Bigger(from, deletedMaxLsn) + 1)..Len(log) : log[n] # "hole"}

\* readSince: the lowest `limit` of them; they are taken in the order of their LSNs.
ReadSince(from, limit) ==
    {n \in Retained(from) : Cardinality({m \in Retained(from) : m <= n}) <= limit}

First(lsns) == CHOOSE n \in lsns : \A m \in lsns : n <= m

Drain         == [task |-> "drain", lsn |-> 0]
Keepalive     == [task |-> "keepalive", lsn |-> 0]
Event(lsn)    == [task |-> "event", lsn |-> lsn]
Resnapshot    == [task |-> "resnapshot", lsn |-> 0]
Down          == [task |-> "down", lsn |-> 0]

NextLsn == Len(log) + 1

\* Mutant: a connection that still drains is left out, as the drain will read
\* the event.
BroadcastToDrained(lsn) ==
    chain' = IF call = "open" /\ chain = <<>> THEN Append(chain, Event(lsn)) ELSE chain

\* #broadcast: to the registered connection, behind what its chain holds.
Broadcast(lsn) == chain' = IF call = "open" THEN Append(chain, Event(lsn)) ELSE chain

UnchangedButChain == UNCHANGED <<call, batch, lastWrittenLsn, zombie, wire, silent>>

Publish(kind) ==
    /\ up
    /\ NextLsn <= MaxLsn
    /\ log' = Append(log, kind)
    /\ deletedMaxLsn' = IF kind = "rotate" THEN Bigger(deletedMaxLsn, ConsistencyPoint)
                                           ELSE deletedMaxLsn
    /\ Broadcast(NextLsn)
    /\ UNCHANGED <<unsent, up, faults>>
    /\ UnchangedButChain

\* add() throws before its broadcast: the append failed, or both the local apply
\* and the tombstone did.
PublishFails ==
    /\ up
    /\ NextLsn <= MaxLsn
    /\ Fault
    /\ \/ log' = Append(log, "hole") /\ UNCHANGED unsent
       \/ log' = Append(log, "entry") /\ unsent' = unsent \cup {NextLsn}
    /\ UNCHANGED <<deletedMaxLsn, up, stream>>

\* Mutant: the snapshot is labelled with the last LSN, not with that of the
\* backup it holds.
SnapshotOfNow ==
    {[lsn |-> Len(log), generation |-> Generation(Len(log)), current |-> c,
      previous |-> EntriesIn(LastRotation(ConsistencyPoint - 1) + 1, ConsistencyPoint)] :
        c \in {{}, EntriesIn(ConsistencyPoint + 1, Len(log))}}

\* getSnapshot: the blobs hold the window before the consistency point, and
\* what the last backup saw of the current one.
Snapshot ==
    LET point == ConsistencyPoint
    IN  {[lsn |-> point, generation |-> Generation(point), current |-> c,
          previous |-> EntriesIn(LastRotation(point - 1) + 1, point)] :
            c \in {{}, EntriesIn(point + 1, Len(log))}}

-----------------------------------------------------------------------------
(* The stream.                                                             *)

Registered == zombie \/ call = "open"

Idle ==
    /\ chain' = <<>>
    /\ batch' = {}
    /\ lastWrittenLsn' = 0

\* The node drops its stream: the server has not noticed yet.
Drop ==
    /\ call' = "none"
    /\ Idle
    /\ zombie' = Registered
    /\ wire' = <<>>
    /\ silent' = FALSE

Ended(messages) ==
    /\ call' = "ended"
    /\ Idle
    /\ wire' = messages
    /\ silent' = FALSE
    /\ UNCHANGED zombie

\* Mutant: the keepalive overtakes the backlog.
KeepaliveFirst == <<Keepalive, Drain>>

\* The keepalive that marks the end of the backlog waits behind it.
Backlog == <<Drain, Keepalive>>

\* Subscribe: below what is retained, the node is told to take a snapshot.  (A
\* node that has a stream registered gets ALREADY_EXISTS, and is where it was.)
Subscribe(lsn) ==
    /\ up
    /\ \/ /\ ~CanServeFrom(lsn)
          /\ Ended(<<Resnapshot, Down>>)
       \/ /\ CanServeFrom(lsn)
          /\ ~zombie
          /\ call' = "open"
          /\ chain' = Backlog
          /\ batch' = {}
          /\ lastWrittenLsn' = lsn
          /\ wire' = <<>>
          /\ silent' = FALSE
          /\ UNCHANGED zombie

\* write() has not asked to wait, or "drain" has come.
Writable == call = "open" /\ chain # <<>> /\ Len(wire) < Window

UnchangedByWrite ==
    UNCHANGED <<coordinator, call, zombie, silent, faults>>

\* The drain reads on where it has written, and ends with an empty read.
WriteBacklog ==
    /\ Writable
    /\ Head(chain) = Drain
    /\ LET next == IF batch = {} THEN ReadSince(lastWrittenLsn, DrainBatch) ELSE batch
       IN  IF next = {}
           THEN /\ chain' = Tail(chain)
                /\ UNCHANGED <<batch, lastWrittenLsn, wire>>
           ELSE /\ wire' = Append(wire, Event(First(next)))
                /\ lastWrittenLsn' = First(next)
                /\ batch' = next \ {First(next)}
                /\ UNCHANGED chain
    /\ UnchangedByWrite

\* Mutant: a live event is written though the drain has written it.
NeverWritten(lsn) == FALSE

AlreadyWritten(lsn) == lsn <= lastWrittenLsn

WriteEvent ==
    /\ Writable
    /\ Head(chain).task = "event"
    /\ chain' = Tail(chain)
    /\ LET lsn == Head(chain).lsn
       IN  IF AlreadyWritten(lsn)
           THEN UNCHANGED <<wire, lastWrittenLsn>>
           ELSE wire' = Append(wire, Event(lsn)) /\ lastWrittenLsn' = lsn
    /\ UNCHANGED batch
    /\ UnchangedByWrite

WriteKeepalive ==
    /\ Writable
    /\ Head(chain) = Keepalive
    /\ chain' = Tail(chain)
    /\ wire' = Append(wire, Keepalive)
    /\ UNCHANGED <<batch, lastWrittenLsn>>
    /\ UnchangedByWrite

WriteStep == WriteBacklog \/ WriteEvent \/ WriteKeepalive

\* call.on("cancelled"), call.on("close"): the connection leaves the registry.
ZombieCloses ==
    /\ zombie
    /\ zombie' = FALSE
    /\ UNCHANGED <<coordinator, call, chain, batch, lastWrittenLsn, wire, silent, faults>>

-----------------------------------------------------------------------------
(* Failures.                                                               *)

\* The stream fails: what was in transit arrives or does not, and the server
\* notices now or later.
Break ==
    /\ call = "open"
    /\ Fault
    /\ call' = "ended"
    /\ Idle
    /\ wire' \in {<<Down>>, Append(wire, Down)}
    /\ zombie' \in BOOLEAN
    /\ UNCHANGED <<coordinator, silent>>

Stall ==
    /\ call = "open"
    /\ ~silent
    /\ Fault
    /\ silent' = TRUE
    /\ UNCHANGED <<coordinator, call, chain, batch, lastWrittenLsn, zombie, wire>>

Heal ==
    /\ silent
    /\ silent' = FALSE
    /\ UNCHANGED <<coordinator, call, chain, batch, lastWrittenLsn, zombie, wire, faults>>

\* stop(), or a crash: every stream ends and the registry is gone.
CoordinatorStop ==
    /\ up
    /\ Fault
    /\ up' = FALSE
    /\ zombie' = FALSE
    /\ IF call = "open"
       THEN call' = "ended" /\ Idle /\ wire' \in {<<Down>>, Append(wire, Down)}
       ELSE UNCHANGED <<call, chain, batch, lastWrittenLsn, wire>>
    /\ UNCHANGED <<log, unsent, deletedMaxLsn, silent>>

\* The log does not know what an earlier process deleted: it serves what
\* follows the checkpoint.
CoordinatorStart ==
    /\ ~up
    /\ up' = TRUE
    /\ deletedMaxLsn' = ConsistencyPoint
    /\ UNCHANGED <<log, unsent, stream, faults>>

ServerInit ==
    /\ log = <<>> /\ unsent = {} /\ deletedMaxLsn = 0 /\ up = TRUE
    /\ call = "none" /\ chain = <<>> /\ batch = {} /\ lastWrittenLsn = 0
    /\ zombie = FALSE /\ wire = <<>> /\ silent = FALSE
    /\ faults = 0

ServerNext ==
    \/ \E kind \in {"entry", "rotate"} : Publish(kind)
    \/ PublishFails
    \/ WriteStep \/ ZombieCloses
    \/ Break \/ Stall \/ Heal \/ CoordinatorStop \/ CoordinatorStart

-----------------------------------------------------------------------------
(* Properties of one stream.                                               *)

\* Comment of NodeConnectionImpl: delivery order is always the canonical order.
\* What a stream is given next is the next event: a live event neither overtakes
\* the backlog nor repeats it, and what is left out is in no log that the drain
\* can read (a failed append, retention during the drain) or was never broadcast.
DeliveryOrder ==
    [][\A lsn \in 1..MaxLsn : (call = "open" /\ wire' = Append(wire, Event(lsn))) =>
        /\ lsn > lastWrittenLsn
        /\ \A n \in (lastWrittenLsn + 1)..(lsn - 1) :
               log[n] = "hole" \/ n \in unsent \/ n <= deletedMaxLsn]_stream

\* Comment in Subscribe: nothing falls between the backlog and the live events.
\* What has not been written is in the log still to be drained, or in the chain.
NothingBetween ==
    (call = "open" /\ \A i \in DOMAIN chain : chain[i] # Drain) =>
        \A n \in (lastWrittenLsn + 1)..Len(log) :
            \/ log[n] = "hole" \/ n \in unsent
            \/ Event(n) \in {chain[i] : i \in DOMAIN chain}
=============================================================================
