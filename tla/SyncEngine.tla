----------------------------- MODULE SyncEngine -----------------------------
(***************************************************************************)
(* The replication engine of a node: its stream, its degraded mode with    *)
(* reconnects and polls, and the chain on which it applies one event at a  *)
(* time.  What an event does to the node's filter and files, and what the  *)
(* engine's callbacks do, is in RevokerNode.tla, which composes them.      *)
(*                                                                         *)
(* A running engine is "streaming" iff the node has a stream, call #       *)
(* "none", and else reconnects and polls.  An event is applied in the turn *)
(* in which it comes, unless a rotation is awaited: then it waits in the   *)
(* chain.                                                                  *)
(***************************************************************************)
EXTENDS DistributedServer

CONSTANT MaxChain \* bound on the events that wait for a rotation

ASSUME SyncAssumption == MaxChain \in Nat

VARIABLES
    engine,         \* "none", "running", "fired" (asked for a rebootstrap), "stopped"
    applyChain,     \* the events that wait
    rotating,       \* the LSN of the rotation that is awaited, or 0
    lastAppliedLsn,
    generation

syncEngine == <<engine, applyChain, rotating, lastAppliedLsn, generation>>

Streaming == call # "none"
Degraded == engine = "running" /\ ~Streaming

StartEngine(how, lsn, gen) ==
    /\ engine' = how
    /\ applyChain' = <<>> /\ rotating' = 0
    /\ lastAppliedLsn' = lsn
    /\ generation' = gen

-----------------------------------------------------------------------------
(* The stream and the poll.                                                *)

\* #trySubscribe, at the start and after each reconnect delay; one that fails
\* changes nothing.
TrySubscribe ==
    /\ Degraded
    /\ Subscribe(lastAppliedLsn)
    /\ UNCHANGED <<coordinator, faults, syncEngine>>

\* #handleStreamDown.
StreamDown ==
    /\ Drop
    /\ UNCHANGED <<coordinator, syncEngine>>

StreamEnds ==
    /\ ~silent
    /\ wire # <<>>
    /\ Head(wire) = Down
    /\ StreamDown
    /\ UNCHANGED faults

\* Mutant: only a hanging rotation is noticed.
DeafWatchdog ==
    /\ Streaming
    /\ rotating # 0 /\ Fault
    /\ StreamDown

\* The watchdog: for several keepalive intervals nothing has been applied, as
\* nothing arrives, or as the rotation hangs.
Watchdog ==
    /\ Streaming
    /\ \/ silent /\ UNCHANGED faults
       \/ rotating # 0 /\ Fault
    /\ StreamDown

\* The stream goes on while a rotation is awaited.
Arrive ==
    /\ rotating # 0
    /\ ~silent /\ wire # <<>>
    /\ Head(wire) # Down
    /\ Len(applyChain) < MaxChain
    /\ wire' = Tail(wire)
    /\ applyChain' = Append(applyChain, Head(wire))
    /\ UNCHANGED <<coordinator, call, chain, batch, lastWrittenLsn, zombie, silent, faults,
                   engine, rotating, lastAppliedLsn, generation>>

-----------------------------------------------------------------------------
(* The chain (#applyEvent).                                                *)

Sources == {"chain", "stream", "poll"}

\* PollDeltas, of one event: a page is polled for as long as there is more.  A
\* response that is late only brings events that are delivered again.
PollDeltas ==
    IF CanServeFrom(lastAppliedLsn)
    THEN LET read == ReadSince(lastAppliedLsn, 1)
         IN  IF read = {} THEN <<>> ELSE <<Event(First(read))>>
    ELSE <<Resnapshot>>

\* Where the next event comes from.  Those that wait go first.
Source(via) ==
    CASE via = "chain"  -> applyChain
      [] via = "stream" -> IF silent \/ wire = <<Down>> THEN <<>> ELSE wire
      [] via = "poll"   -> IF Degraded /\ up THEN PollDeltas ELSE <<>>

Comes(via) ==
    /\ engine = "running"
    /\ rotating = 0
    /\ Source(via) # <<>>
    /\ via # "chain" => applyChain = <<>>

Incoming(via) == Head(Source(via))

Take(via) ==
    /\ applyChain' = IF via = "chain" THEN Tail(applyChain) ELSE applyChain
    /\ wire' = IF via = "stream" THEN Tail(wire) ELSE wire
    /\ UNCHANGED <<coordinator, call, chain, batch, lastWrittenLsn, zombie, silent, faults,
                   engine>>

Redelivered(m) == m.task = "event" /\ m.lsn <= lastAppliedLsn

Gap(m) == m.lsn > lastAppliedLsn + 1

\* A Rotate carries the generation that it begins.
WrongGeneration(m) == log[m.lsn] = "rotate" /\ Generation(m.lsn) # generation + 1

Anomaly(m) ==
    \/ m = Resnapshot
    \/ m.task = "event" /\ ~Redelivered(m) /\ (Gap(m) \/ WrongGeneration(m))

\* Mutant: a Rotate is taken for an entry.
DueWhatever(m, kind) == m.task = "event" /\ ~Redelivered(m) /\ ~Anomaly(m)

Due(m, kind) == m.task = "event" /\ log[m.lsn] = kind /\ ~Redelivered(m) /\ ~Anomaly(m)

\* A keepalive, or an event delivered again.
ApplyNothing(via) ==
    /\ Comes(via)
    /\ Incoming(via) = Keepalive \/ Redelivered(Incoming(via))
    /\ Take(via)
    /\ UNCHANGED <<rotating, lastAppliedLsn, generation>>

ApplyEntry(via) ==
    /\ Comes(via)
    /\ Due(Incoming(via), "entry")
    /\ Take(via)
    /\ lastAppliedLsn' = Incoming(via).lsn
    /\ UNCHANGED <<rotating, generation>>

\* rotateOnDemand() is awaited.
StartRotation(via) ==
    /\ Comes(via)
    /\ Due(Incoming(via), "rotate")
    /\ Take(via)
    /\ rotating' = Incoming(via).lsn
    /\ UNCHANGED <<lastAppliedLsn, generation>>

\* Also after stop(): nobody looks at #stopped after the await.
FinishRotation ==
    /\ rotating # 0
    /\ rotating' = 0
    /\ lastAppliedLsn' = rotating
    /\ generation' = generation + 1
    /\ UNCHANGED <<coordinator, stream, engine, applyChain>>

-----------------------------------------------------------------------------
(* The end of an engine.                                                   *)

Quit(how) ==
    /\ engine' = how
    /\ applyChain' = <<>>
    /\ IF Streaming THEN Drop ELSE UNCHANGED stream

\* #rebootstrap: all that waits will be ignored.
Fire ==
    /\ Quit("fired")
    /\ UNCHANGED <<coordinator, rotating, lastAppliedLsn, generation>>

FireAnomaly(via) ==
    /\ Comes(via)
    /\ Anomaly(Incoming(via))
    /\ Fire
    /\ UNCHANGED faults

\* The revoker refuses the entry.
FireUnapplied(via) ==
    /\ Comes(via)
    /\ Due(Incoming(via), "entry")
    /\ Fault
    /\ Fire

\* The revoker has the entry, and the state file cannot be written.
FireUnsaved(via) ==
    /\ Comes(via)
    /\ Due(Incoming(via), "entry")
    /\ Fault
    /\ Fire

\* rotateOnDemand() fails, or the state file cannot be written after it.
FireUnrotated ==
    /\ rotating # 0
    /\ engine = "running"
    /\ Fault
    /\ Quit("fired")
    /\ rotating' = 0
    /\ UNCHANGED <<coordinator, lastAppliedLsn, generation>>

\* The first stop() of an engine waits for its chain; another returns at once.
StopWaits == engine # "stopped"

\* stop(), of an engine if there is one.
StopEngine ==
    /\ Quit(IF engine = "none" THEN "none" ELSE "stopped")
    /\ UNCHANGED <<rotating, lastAppliedLsn, generation>>

\* The process is gone.
NoEngine ==
    /\ Quit("none")
    /\ rotating' = 0
    /\ lastAppliedLsn' = 0 /\ generation' = 0

SyncInit ==
    /\ engine = "none" /\ applyChain = <<>> /\ rotating = 0
    /\ lastAppliedLsn = 0 /\ generation = 0
=============================================================================
