----------------------- MODULE DistributedServerProofs -----------------------
(***************************************************************************)
(* The log's operators, and the stream: for every size of the drain's      *)
(* batches and of the window, a stream delivers the log in its order and   *)
(* nothing falls between the backlog and the live events.                  *)
(***************************************************************************)
EXTENDS DistributedServer, FiniteSetTheorems, SequenceTheorems, Extremes

Kinds == {"entry", "rotate", "hole"}

LogType == log \in Seq(Kinds)

\* The coordinator's part of the invariant.
LogOK ==
    /\ LogType
    /\ Len(log) <= MaxLsn
    /\ unsent \subseteq DOMAIN log
    /\ deletedMaxLsn \in 0..Len(log)

-----------------------------------------------------------------------------
(* The log.                                                                *)

\* The log has an event per LSN.
LEMMA LogShape ==
    ASSUME LogType
    PROVE  /\ Len(log) \in Nat /\ DOMAIN log = 1..Len(log)
           /\ \A n \in 1..Len(log) : log[n] \in Kinds
BY DEF LogType

\* What is appended changes nothing below it.
LEMMA LogAppended ==
    ASSUME LogType, NEW kind \in Kinds, log' = Append(log, kind)
    PROVE  /\ LogType' /\ Len(log') = Len(log) + 1
           /\ DOMAIN log' = 1..(Len(log) + 1)
           /\ \A n \in 1..Len(log) : log'[n] = log[n]
           /\ log'[Len(log) + 1] = kind
BY DEF LogType

\* Rotations and entries between two LSNs, in a log that grows.
LEMMA LogGrows ==
    ASSUME LogType, NEW kind \in Kinds, log' = Append(log, kind)
    PROVE  \A a, b \in Int : b <= Len(log) =>
               /\ RotationsIn(a, b)' = RotationsIn(a, b)
               /\ EntriesIn(a, b)' = EntriesIn(a, b)
               /\ Generation(b)' = Generation(b)
               /\ LastRotation(b)' = LastRotation(b)
<1>1. \A a, b \in Int : b <= Len(log) =>
          RotationsIn(a, b)' = RotationsIn(a, b) /\ EntriesIn(a, b)' = EntriesIn(a, b)
  BY LogShape, LogAppended DEF RotationsIn, EntriesIn
<1>2. \A b \in Int : b <= Len(log) => RotationsIn(1, b)' = RotationsIn(1, b)
  BY <1>1
<1> QED
  BY <1>1, <1>2 DEF Generation, LastRotation

\* There are finitely many rotations.
LEMMA RotationsFinite ==
    ASSUME NEW a \in Int, NEW b \in Int
    PROVE  /\ IsFiniteSet(RotationsIn(a, b))
           /\ Cardinality(RotationsIn(a, b)) \in Nat
<1>1. RotationsIn(a, b) \in SUBSET (a..b) /\ IsFiniteSet(a..b)
  BY FS_Interval DEF RotationsIn
<1> QED
  BY <1>1, FS_Subset, FS_CardinalityType

\* The generations of adjacent parts of the log add up.
LEMMA GenerationSplit ==
    ASSUME LogType, NEW a \in Nat, NEW b \in Nat, a <= b
    PROVE  Generation(b) = Generation(a) + Cardinality(RotationsIn(a + 1, b))
<1>1. RotationsIn(1, b) = RotationsIn(1, a) \cup RotationsIn(a + 1, b)
  BY DEF RotationsIn
<1>2. RotationsIn(1, a) \cap RotationsIn(a + 1, b) = {}
  BY DEF RotationsIn
<1>3. IsFiniteSet(RotationsIn(1, a)) /\ IsFiniteSet(RotationsIn(a + 1, b))
  BY RotationsFinite
<1>4. /\ Cardinality(RotationsIn(1, a)) \in Nat
      /\ Cardinality(RotationsIn(a + 1, b)) \in Nat
  BY RotationsFinite
<1>5. Cardinality(RotationsIn(1, b)) = Cardinality(RotationsIn(1, a))
                     + Cardinality(RotationsIn(a + 1, b)) - Cardinality({})
  BY <1>1, <1>2, <1>3, FS_Union
<1> QED
  BY <1>4, <1>5, FS_EmptySet DEF Generation

\* A generation is a number of LSNs.
LEMMA GenerationBound ==
    ASSUME LogType, NEW n \in Nat
    PROVE  Generation(n) \in 0..n
<1>1. RotationsIn(1, n) \in SUBSET (1..n)
  BY DEF RotationsIn
<1>2. IsFiniteSet(1..n) /\ Cardinality(1..n) = n
  BY FS_Interval
<1>3. Cardinality(RotationsIn(1, n)) <= n
  BY <1>1, <1>2, FS_Subset
<1>4. Cardinality(RotationsIn(1, n)) \in Nat
  BY RotationsFinite
<1> QED
  BY <1>3, <1>4 DEF Generation

\* The generation goes on with every rotation, and with nothing else.
LEMMA GenerationStep ==
    ASSUME LogType, NEW n \in Nat, n + 1 <= Len(log)
    PROVE  Generation(n + 1) = Generation(n) + (IF log[n + 1] = "rotate" THEN 1 ELSE 0)
<1>1. RotationsIn(n + 1, n + 1) = IF log[n + 1] = "rotate" THEN {n + 1} ELSE {}
  BY DEF RotationsIn
<1>2. Cardinality({n + 1}) = 1 /\ Cardinality({}) = 0
  BY FS_Singleton, FS_EmptySet
<1>3. Generation(n + 1) = Generation(n) + Cardinality(RotationsIn(n + 1, n + 1))
  BY GenerationSplit
<1>4. Generation(n) \in Nat
  BY GenerationBound
<1> QED
  BY <1>1, <1>2, <1>3, <1>4

\* The last rotation is one, or none.
LEMMA LastRotationIs ==
    ASSUME LogType, NEW b \in Int
    PROVE  /\ LastRotation(b) \in {0} \cup RotationsIn(1, b)
           /\ \A m \in RotationsIn(1, b) : m <= LastRotation(b)
           /\ LastRotation(b) \in 0..Len(log)
<1>1. RotationsIn(1, b) \in SUBSET Nat /\ \A n \in RotationsIn(1, b) : n <= Len(log)
  BY LogShape DEF RotationsIn
<1>2. \E n \in {0} \cup RotationsIn(1, b) : \A m \in RotationsIn(1, b) : m <= n
  <2>1. CASE RotationsIn(1, b) = {}
    BY <2>1
  <2>2. CASE RotationsIn(1, b) # {}
    BY <1>1, <2>2, GreatestNatural, LogShape
  <2> QED
    BY <2>1, <2>2
<1>3. /\ LastRotation(b) \in {0} \cup RotationsIn(1, b)
      /\ \A m \in RotationsIn(1, b) : m <= LastRotation(b)
  BY <1>2 DEF LastRotation
<1> QED
  BY <1>1, <1>3, LogShape

\* What has two rotations has at least as many.
LEMMA TwoRotations ==
    ASSUME NEW a \in Int, NEW b \in Int,
           NEW m \in RotationsIn(a, b), NEW n \in RotationsIn(a, b), m # n
    PROVE  Cardinality(RotationsIn(a, b)) >= 2
<1>1. Cardinality({m} \cup {n}) = 2
  <2>1. IsFiniteSet({m}) /\ Cardinality({m}) = 1
    BY FS_Singleton
  <2>2. n \notin {m}
    OBVIOUS
  <2> QED
    BY <2>1, <2>2, FS_AddElement
<1>2. {m} \cup {n} \in SUBSET RotationsIn(a, b)
  OBVIOUS
<1>3. Cardinality({m} \cup {n}) <= Cardinality(RotationsIn(a, b))
  BY <1>2, RotationsFinite, FS_Subset
<1> QED
  BY <1>1, <1>3, RotationsFinite

\* A longer part of the log has no fewer rotations.
LEMMA MoreRotations ==
    ASSUME NEW a \in Int, NEW b \in Int, NEW c \in Int, NEW d \in Int, c <= a, b <= d
    PROVE  Cardinality(RotationsIn(a, b)) <= Cardinality(RotationsIn(c, d))
<1>1. RotationsIn(a, b) \in SUBSET RotationsIn(c, d)
  BY DEF RotationsIn
<1> QED
  BY <1>1, RotationsFinite, FS_Subset

\* A read takes the lowest of what is retained, and nothing only if there is nothing.
LEMMA ReadSinceFacts ==
    ASSUME LogType, deletedMaxLsn \in Nat, NEW from \in Nat, NEW limit \in Nat \ {0}
    PROVE  /\ ReadSince(from, limit) \subseteq Retained(from)
           /\ \A m \in ReadSince(from, limit), n \in Retained(from) :
                  n <= m => n \in ReadSince(from, limit)
           /\ ReadSince(from, limit) = {} => Retained(from) = {}
<1> DEFINE R == Retained(from)
           UpTo(m) == {k \in R : k <= m}
<1>1. R \in SUBSET Nat /\ \A n \in R : n <= Len(log)
  BY LogShape DEF Retained, Bigger
<1>2. IsFiniteSet(R)
  BY <1>1, LogShape, FS_BoundedSetOfNaturals
<1>3. ReadSince(from, limit) = {n \in R : Cardinality(UpTo(n)) <= limit}
  BY DEF ReadSince
<1> HIDE DEF R
<1>4. \A m : IsFiniteSet(UpTo(m)) /\ Cardinality(UpTo(m)) \in Nat
  BY <1>2, FS_Subset, FS_CardinalityType
<1>5. \A m, n \in R : n <= m => Cardinality(UpTo(n)) <= Cardinality(UpTo(m))
  <2> SUFFICES ASSUME NEW m \in R, NEW n \in R, n <= m
               PROVE  Cardinality(UpTo(n)) <= Cardinality(UpTo(m))
    OBVIOUS
  <2>1. UpTo(n) \in SUBSET UpTo(m)
    <3>1. \A k \in R : k <= n => k <= m
      BY <1>1
    <3> QED
      BY <3>1
  <2> HIDE DEF UpTo
  <2> QED
    BY <1>4, <2>1, FS_Subset
<1>6. ASSUME R # {} PROVE ReadSince(from, limit) # {}
  <2>1. PICK m \in R : \A n \in R : m <= n
    BY <1>1, <1>6, LeastNatural
  <2>2. UpTo(m) = {m}
    <3>1. \A k \in R : k \in Nat
      BY <1>1
    <3> QED
      BY <2>1, <3>1
  <2>3. Cardinality(UpTo(m)) = 1
    BY <2>2, FS_Singleton
  <2> HIDE DEF UpTo
  <2> QED
    BY <1>3, <2>3
<1>7. ReadSince(from, limit) \subseteq R
  BY <1>3
<1>8. \A m \in ReadSince(from, limit), n \in R : n <= m => n \in ReadSince(from, limit)
  <2> HIDE DEF UpTo
  <2> QED
    BY <1>3, <1>4, <1>5
<1> QED
  BY <1>6, <1>7, <1>8 DEF R

\* The first of some LSNs.
LEMMA FirstIs ==
    ASSUME NEW lsns \in SUBSET Nat, lsns # {}
    PROVE  First(lsns) \in lsns /\ \A m \in lsns : First(lsns) <= m
BY LeastNatural DEF First

-----------------------------------------------------------------------------
(* The stream.                                                             *)

\* What may be said of the log as it is.
Sendable == {Keepalive, Resnapshot, Down} \cup {Event(n) : n \in DOMAIN log}

ChainType == chain \in Seq(Sendable \cup {Drain})
WireType == wire \in Seq(Sendable)

StreamType ==
    /\ ChainType /\ WireType
    /\ batch \subseteq DOMAIN log
    /\ lastWrittenLsn \in 0..Len(log)
    /\ call \in {"none", "open", "ended"}

Draining == \E i \in 1..Len(chain) : chain[i] = Drain

IsEvent(m) == m.task = "event"

\* In the chain the drain is first, and the events are in the order of their LSNs.
ChainOrder ==
    /\ \A i \in 1..Len(chain) : chain[i] = Drain => i = 1
    /\ \A i, j \in 1..Len(chain) :
           i < j /\ IsEvent(chain[i]) /\ IsEvent(chain[j]) => chain[i].lsn < chain[j].lsn

\* What the drain has read is what comes next in the log.
BatchIsNext ==
    /\ batch # {} => Draining
    /\ \A m \in batch :
           /\ lastWrittenLsn < m /\ log[m] # "hole"
           /\ \A n \in 1..m :
                  n <= lastWrittenLsn \/ n \in batch \/ log[n] = "hole" \/ n <= deletedMaxLsn

\* Where retention has overtaken a stream, a rotation is still ahead of it: so its
\* drain has not ended.
NotOvertaken ==
    call = "open" =>
        deletedMaxLsn <= lastWrittenLsn \/ RotationsIn(deletedMaxLsn + 1, Len(log)) # {}

\* What is sent live is in the chain, once the drain has ended (NothingBetween).
LiveInChain ==
    call = "open" /\ ~Draining =>
        \A n \in 1..Len(log) :
            \/ n <= lastWrittenLsn \/ log[n] = "hole" \/ n \in unsent
            \/ \E i \in 1..Len(chain) : chain[i] = Event(n)

\* The stream's part of the invariant.
StreamOK ==
    /\ StreamType
    /\ call # "open" => chain = <<>>
    /\ call = "none" => wire = <<>>
    /\ ~up => call # "open"
    /\ ChainOrder /\ BatchIsNext /\ NotOvertaken /\ LiveInChain

\* A chain is a sequence.
LEMMA ChainShape ==
    ASSUME ChainType
    PROVE  /\ Len(chain) \in Nat /\ DOMAIN chain = 1..Len(chain)
           /\ \A i \in 1..Len(chain) : chain[i] \in Sendable \cup {Drain}
           /\ chain # <<>> => Len(chain) >= 1 /\ Head(chain) = chain[1]
BY DEF ChainType

\* What a task in the chain is.
LEMMA TaskIs ==
    ASSUME LogType, NEW m \in Sendable \cup {Drain}
    PROVE  /\ IsEvent(m) => m.lsn \in 1..Len(log) /\ m = Event(m.lsn)
           /\ ~IsEvent(m) => m \in {Drain, Keepalive, Resnapshot, Down}
BY LogShape DEF Sendable, IsEvent, Event, Drain, Keepalive, Resnapshot, Down

\* No two tasks of different kinds are the same.
LEMMA TasksDiffer ==
    /\ ~IsEvent(Drain) /\ ~IsEvent(Keepalive) /\ ~IsEvent(Resnapshot) /\ ~IsEvent(Down)
    /\ Drain # Keepalive /\ Drain # Down /\ Keepalive # Down /\ Keepalive # Resnapshot
    /\ Resnapshot # Down
    /\ \A n : IsEvent(Event(n)) /\ Event(n).lsn = n /\ Event(n).task = "event"
    /\ \A n : Event(n) \notin {Drain, Keepalive, Resnapshot, Down}
BY DEF IsEvent, Event, Drain, Keepalive, Resnapshot, Down

\* One more task.
LEMMA ChainAppended ==
    ASSUME ChainType, NEW m, chain' = Append(chain, m)
    PROVE  /\ Len(chain') = Len(chain) + 1
           /\ \A i \in 1..Len(chain) : chain'[i] = chain[i]
           /\ chain'[Len(chain) + 1] = m
BY DEF ChainType

\* The first task is done.
LEMMA ChainTail ==
    ASSUME ChainType, chain # <<>>, chain' = Tail(chain)
    PROVE  /\ Len(chain') = Len(chain) - 1
           /\ \A i \in 1..(Len(chain) - 1) : chain'[i] = chain[i + 1]
BY DEF ChainType

-----------------------------------------------------------------------------
(* The steps.                                                              *)

\* The stream as the node's steps change it: it is asked for, dropped, delivers.
Asked == \E lsn \in 0..Len(log) : call = "none" /\ Subscribe(lsn) /\ UNCHANGED coordinator
Dropped == Drop /\ UNCHANGED coordinator
Delivers ==
    /\ wire # <<>> /\ wire' = Tail(wire)
    /\ UNCHANGED <<coordinator, call, chain, batch, lastWrittenLsn>>
Rests == UNCHANGED <<coordinator, call, chain, batch, lastWrittenLsn, wire>>

StreamNext == ServerNext \/ Asked \/ Dropped \/ Delivers \/ Rests

\* The log is appended to, or stays; what may be served is a rotation.
LEMMA LogStep ==
    ASSUME LogOK, StreamNext
    PROVE  /\ LogOK'
           /\ log' = log \/ \E kind \in Kinds : NextLsn <= MaxLsn /\ log' = Append(log, kind)
<1>1. LastRotation(Len(log)) \in 0..Len(log) /\ Len(log) \in Nat
  BY LogShape, LastRotationIs DEF LogOK
<1>2. ASSUME NEW kind \in {"entry", "rotate"}, Publish(kind)
      PROVE  LogOK' /\ NextLsn <= MaxLsn /\ log' = Append(log, kind) /\ kind \in Kinds
  <2>1. kind \in Kinds /\ log' = Append(log, kind) /\ NextLsn <= MaxLsn
    BY <1>2 DEF Publish, Kinds
  <2>2. LogType' /\ Len(log') = Len(log) + 1 /\ DOMAIN log' = 1..(Len(log) + 1)
    BY <2>1, LogAppended DEF LogOK
  <2>3. deletedMaxLsn' \in 0..Len(log) /\ unsent' = unsent
    BY <1>1, <1>2 DEF Publish, LogOK, ConsistencyPoint, Bigger
  <2> QED
    BY <1>1, <2>1, <2>2, <2>3, LogShape DEF LogOK, NextLsn
<1>3. ASSUME PublishFails
      PROVE  LogOK' /\ NextLsn <= MaxLsn /\ \E kind \in Kinds : log' = Append(log, kind)
  <2>1. PICK kind \in Kinds : log' = Append(log, kind)
    BY <1>3 DEF PublishFails, Kinds
  <2>2. LogType' /\ Len(log') = Len(log) + 1 /\ DOMAIN log' = 1..(Len(log) + 1)
    BY <2>1, LogAppended DEF LogOK
  <2>3. /\ NextLsn <= MaxLsn /\ deletedMaxLsn' = deletedMaxLsn
        /\ unsent' \subseteq unsent \cup {NextLsn}
    BY <1>3 DEF PublishFails
  <2> QED
    BY <1>1, <2>1, <2>2, <2>3, LogShape DEF LogOK, NextLsn
<1>4. ASSUME CoordinatorStart PROVE LogOK' /\ log' = log
  BY <1>1, <1>4 DEF CoordinatorStart, LogOK, LogType, ConsistencyPoint
<1>5. CASE UNCHANGED <<log, unsent, deletedMaxLsn>>
  BY <1>5 DEF LogOK, LogType
<1> QED
  BY <1>2, <1>3, <1>4, <1>5
     DEF StreamNext, ServerNext, WriteStep, WriteBacklog, WriteEvent, WriteKeepalive,
         UnchangedByWrite, ZombieCloses, Break, Stall, Heal, CoordinatorStop, Asked, Dropped,
         Delivers, Rests, coordinator

\* What was said of an LSN stays true of it.
Grows ==
    /\ Len(log) <= Len(log)'
    /\ \A n \in 1..Len(log) : log'[n] = log[n]
    /\ \A a, b \in Int : b <= Len(log) =>
           /\ RotationsIn(a, b)' = RotationsIn(a, b)
           /\ EntriesIn(a, b)' = EntriesIn(a, b)
           /\ Generation(b)' = Generation(b)
           /\ LastRotation(b)' = LastRotation(b)
    /\ EntriesIn(1, Len(log)) \subseteq EntriesIn(1, Len(log))'
    /\ RotationsIn(1, Len(log)) \subseteq RotationsIn(1, Len(log))'

\* It does, whatever is appended.
LEMMA LogGrown ==
    ASSUME LogOK, log' = log \/ \E kind \in Kinds : log' = Append(log, kind)
    PROVE  Grows
<1>1. LogType /\ Len(log) \in Nat
  BY LogShape DEF LogOK
<1>2. CASE log' = log
  <2>1. Len(log)' = Len(log)
    BY <1>2
  <2>2. \A a, b \in Int : /\ RotationsIn(a, b)' = RotationsIn(a, b)
                          /\ EntriesIn(a, b)' = EntriesIn(a, b)
    BY <1>2 DEF RotationsIn, EntriesIn
  <2>3. \A b \in Int : /\ Generation(b)' = Generation(b)
                       /\ LastRotation(b)' = LastRotation(b)
    BY <1>2 DEF RotationsIn, Generation, LastRotation
  <2>4. /\ EntriesIn(1, Len(log))' = EntriesIn(1, Len(log))
        /\ RotationsIn(1, Len(log))' = RotationsIn(1, Len(log))
    BY <1>2 DEF RotationsIn, EntriesIn
  <2>5. Len(log) <= Len(log)' /\ \A n \in 1..Len(log) : log'[n] = log[n]
    BY <1>1, <1>2, <2>1
  <2>6. \A a, b \in Int : b <= Len(log) =>
            /\ RotationsIn(a, b)' = RotationsIn(a, b)
            /\ EntriesIn(a, b)' = EntriesIn(a, b)
            /\ Generation(b)' = Generation(b)
            /\ LastRotation(b)' = LastRotation(b)
    BY <2>2, <2>3
  <2> QED
    BY <2>4, <2>5, <2>6 DEF Grows
<1>3. ASSUME NEW kind \in Kinds, log' = Append(log, kind) PROVE Grows
  <2>1. /\ Len(log)' = Len(log) + 1 /\ DOMAIN log = 1..Len(log)
        /\ DOMAIN log' = 1..(Len(log) + 1)
        /\ \A n \in 1..Len(log) : log'[n] = log[n]
    BY <1>1, <1>3, LogAppended, LogShape
  <2>2. /\ EntriesIn(1, Len(log)) \subseteq EntriesIn(1, Len(log))'
        /\ RotationsIn(1, Len(log)) \subseteq RotationsIn(1, Len(log))'
    BY <1>1, <2>1 DEF EntriesIn, RotationsIn
  <2>3. \A a, b \in Int : b <= Len(log) =>
            /\ RotationsIn(a, b)' = RotationsIn(a, b)
            /\ EntriesIn(a, b)' = EntriesIn(a, b)
            /\ Generation(b)' = Generation(b)
            /\ LastRotation(b)' = LastRotation(b)
    BY <1>1, <1>3, LogGrows
  <2>4. Len(log) <= Len(log)'
    BY <1>1, <2>1
  <2> QED
    BY <2>1, <2>2, <2>3, <2>4 DEF Grows
<1> QED
  BY <1>2, <1>3

\* A stream that is idle has nothing to say.
LEMMA IdleStep ==
    ASSUME LogOK', Idle, call' # "open", WireType', call' \in {"none", "ended"},
           call' = "none" => wire' = <<>>
    PROVE  StreamOK'
<1>1. Len(<<>>) = 0 /\ <<>> \in Seq((Sendable \cup {Drain})')
  OBVIOUS
<1>2. Len(log)' \in Nat
  BY DEF LogOK, LogType
<1>3. chain' = <<>> /\ batch' = {} /\ lastWrittenLsn' = 0 /\ Len(chain') = 0
  BY <1>1 DEF Idle
<1>4. ChainType'
  BY <1>1, <1>3 DEF ChainType
<1>5. StreamType'
  BY <1>2, <1>3, <1>4 DEF StreamType
<1>6. ChainOrder' /\ BatchIsNext' /\ NotOvertaken' /\ LiveInChain'
  BY <1>3 DEF ChainOrder, BatchIsNext, NotOvertaken, LiveInChain
<1> QED
  BY <1>3, <1>5, <1>6 DEF StreamOK

\* What may be said stays so when the log grows.
LEMMA SendableGrows ==
    ASSUME LogOK, log' = log \/ \E kind \in Kinds : log' = Append(log, kind)
    PROVE  /\ Sendable \subseteq Sendable'
           /\ \A s \in Seq(Sendable) : s \in Seq(Sendable)'
           /\ \A s \in Seq(Sendable \cup {Drain}) : s \in Seq(Sendable \cup {Drain})'
<1>1. DOMAIN log \subseteq DOMAIN log'
  BY LogShape, LogAppended DEF LogOK
<1>2. Sendable \subseteq Sendable'
  BY <1>1 DEF Sendable
<1> QED
  BY <1>2, SeqMonotonic

\* What the drain writes from: what it has read, or reads.
NextBatch == IF batch = {} THEN ReadSince(lastWrittenLsn, DrainBatch) ELSE batch

\* It is what comes next in the log, and empty only at its end.
LEMMA NextBatchFacts ==
    ASSUME LogOK, StreamOK, call = "open"
    PROVE  /\ NextBatch \subseteq 1..Len(log)
           /\ \A m \in NextBatch :
                  /\ lastWrittenLsn < m /\ log[m] # "hole"
                  /\ \A n \in 1..m :
                         \/ n <= lastWrittenLsn \/ n \in NextBatch
                         \/ log[n] = "hole" \/ n <= deletedMaxLsn
           /\ NextBatch = {} =>
                  \A n \in 1..Len(log) : n <= lastWrittenLsn \/ log[n] = "hole"
<1>1. /\ Len(log) \in Nat /\ DOMAIN log = 1..Len(log) /\ deletedMaxLsn \in Nat
      /\ lastWrittenLsn \in Nat /\ DrainBatch \in Nat \ {0}
  BY LogShape, ServerAssumption DEF LogOK, StreamOK, StreamType
<1>2. CASE batch # {}
  BY <1>1, <1>2 DEF NextBatch, StreamOK, StreamType, BatchIsNext
<1>3. CASE batch = {}
  <2> DEFINE R == Retained(lastWrittenLsn)
  <2>1. \A n : n \in R <=> /\ n \in 1..Len(log) /\ lastWrittenLsn < n
                           /\ deletedMaxLsn < n /\ log[n] # "hole"
    BY <1>1 DEF Retained, Bigger
  <2>2. /\ NextBatch \subseteq R
        /\ \A m \in NextBatch, n \in R : n <= m => n \in NextBatch
        /\ NextBatch = {} => R = {}
    BY <1>1, <1>3, ReadSinceFacts DEF NextBatch, LogOK
  <2> HIDE DEF R
  <2>3. ASSUME NextBatch = {}, NEW n \in 1..Len(log)
        PROVE  n <= lastWrittenLsn \/ log[n] = "hole"
    <3>1. CASE deletedMaxLsn <= lastWrittenLsn
      BY <1>1, <2>1, <2>2, <2>3, <3>1
    <3>2. CASE RotationsIn(deletedMaxLsn + 1, Len(log)) # {} /\ deletedMaxLsn > lastWrittenLsn
      BY <1>1, <2>1, <2>2, <2>3, <3>2 DEF RotationsIn
    <3> QED
      BY <1>1, <3>1, <3>2 DEF StreamOK, NotOvertaken
  <2>4. ASSUME NEW m \in NextBatch, NEW n \in 1..m
        PROVE  n <= lastWrittenLsn \/ n \in NextBatch \/ log[n] = "hole" \/ n <= deletedMaxLsn
    BY <1>1, <2>1, <2>2
  <2> QED
    BY <1>1, <2>1, <2>2, <2>3, <2>4
<1> QED
  BY <1>2, <1>3

\* What is in transit may be said.
LEMMA WireStep ==
    ASSUME LogOK, StreamOK, StreamNext
    PROVE  WireType'
<1>1. \A s \in Seq(Sendable) : s \in Seq(Sendable)'
  BY LogStep, SendableGrows
<1>2. wire \in Seq(Sendable)
  BY DEF StreamOK, StreamType, WireType
<1>3. \A m \in Sendable : Append(wire, m) \in Seq(Sendable) /\ <<m>> \in Seq(Sendable)
  BY <1>2
<1>4. /\ {Keepalive, Resnapshot, Down} \subseteq Sendable
      /\ \A n \in DOMAIN log : Event(n) \in Sendable
  BY DEF Sendable
<1>5. wire' \in Seq(Sendable)
  <2>1. ASSUME WriteBacklog PROVE wire' \in Seq(Sendable)
    <3>1. wire' = wire \/ (NextBatch # {} /\ wire' = Append(wire, Event(First(NextBatch))))
      BY <2>1 DEF WriteBacklog, NextBatch
    <3>2. NextBatch \subseteq DOMAIN log /\ NextBatch \in SUBSET Nat
      BY <2>1, NextBatchFacts, LogShape DEF WriteBacklog, Writable, LogOK
    <3> QED
      BY <1>2, <1>3, <1>4, <3>1, <3>2, FirstIs
  <2>2. ASSUME WriteEvent PROVE wire' \in Seq(Sendable)
    <3>1. ChainType /\ LogType
      BY DEF StreamOK, StreamType, LogOK
    <3>2. Head(chain) \in Sendable \cup {Drain} /\ IsEvent(Head(chain))
      BY <2>2, <3>1, ChainShape DEF WriteEvent, Writable, IsEvent
    <3>3. Head(chain).lsn \in DOMAIN log
      BY <3>1, <3>2, TaskIs, LogShape
    <3> QED
      BY <1>2, <1>3, <1>4, <2>2, <3>3 DEF WriteEvent
  <2>3. ASSUME WriteKeepalive PROVE wire' \in Seq(Sendable)
    BY <1>3, <1>4, <2>3 DEF WriteKeepalive
  <2>4. ASSUME Break \/ CoordinatorStop PROVE wire' \in Seq(Sendable)
    BY <1>2, <1>3, <1>4, <2>4 DEF Break, CoordinatorStop
  <2>5. ASSUME Asked PROVE wire' \in Seq(Sendable)
    <3>1. wire' = <<Resnapshot, Down>> \/ wire' = <<>>
      BY <2>5 DEF Asked, Subscribe, Ended
    <3>2. <<Resnapshot, Down>> \in Seq(Sendable) /\ <<>> \in Seq(Sendable)
      BY <1>4
    <3> QED
      BY <3>1, <3>2
  <2>6. ASSUME Dropped PROVE wire' \in Seq(Sendable)
    BY <2>6 DEF Dropped, Drop
  <2>7. ASSUME Delivers PROVE wire' \in Seq(Sendable)
    BY <1>2, <2>7, HeadTailProperties DEF Delivers
  <2>8. CASE wire' = wire
    BY <1>2, <2>8
  <2> QED
    BY <2>1, <2>2, <2>3, <2>4, <2>5, <2>6, <2>7, <2>8
       DEF StreamNext, ServerNext, WriteStep, Publish, UnchangedButChain, PublishFails,
           ZombieCloses,
           Stall, Heal, CoordinatorStart, Rests, stream
<1> QED
  BY <1>1, <1>5 DEF WireType

\* An event is appended to the log, and to the chain of an open stream unless it is
\* a hole or not to be sent.
LEMMA PublishStep ==
    ASSUME LogOK, LogOK', StreamOK, NEW kind \in Kinds, log' = Append(log, kind),
           \/ Broadcast(NextLsn) /\ unsent' = unsent
           \/ /\ chain' = chain /\ (kind = "hole" \/ NextLsn \in unsent')
              /\ unsent \subseteq unsent',
           deletedMaxLsn <= deletedMaxLsn', kind = "rotate" \/ deletedMaxLsn' = deletedMaxLsn,
           deletedMaxLsn' <= Len(log), WireType',
           UNCHANGED <<up, call, batch, lastWrittenLsn, wire>>
    PROVE  StreamOK'
<1>1. /\ ChainType /\ LogType /\ Len(log) \in Nat /\ DOMAIN log = 1..Len(log)
      /\ batch \subseteq 1..Len(log) /\ lastWrittenLsn \in 0..Len(log)
      /\ deletedMaxLsn \in Nat /\ deletedMaxLsn' \in Nat /\ Len(chain) \in Nat
  BY LogShape, ChainShape DEF LogOK, StreamOK, StreamType
<1>2. /\ Len(log') = Len(log) + 1 /\ DOMAIN log' = 1..(Len(log) + 1)
      /\ \A n \in 1..Len(log) : log'[n] = log[n]
      /\ log'[Len(log) + 1] = kind
  BY <1>1, LogAppended
<1>3. ChainType'
  <2>1. chain \in Seq(Sendable \cup {Drain})'
    BY <1>1, SendableGrows DEF ChainType
  <2>2. Event(NextLsn) \in Sendable'
    BY <1>2 DEF Sendable, NextLsn
  <2>3. chain' = chain \/ chain' = Append(chain, Event(NextLsn))
    BY DEF Broadcast
  <2> QED
    BY <2>1, <2>2, <2>3 DEF ChainType
<1>4. StreamType'
  BY <1>1, <1>2, <1>3 DEF StreamOK, StreamType
<1>5. \A i \in 1..Len(chain) : IsEvent(chain[i]) => chain[i].lsn \in 1..Len(log)
  BY <1>1, ChainShape, TaskIs
<1>6. /\ chain' = chain \/ (call = "open" /\ chain' = Append(chain, Event(NextLsn)))
      /\ unsent \subseteq unsent'
      /\ call = "open" /\ chain' = chain => kind = "hole" \/ NextLsn \in unsent'
  BY DEF Broadcast
<1>7. ASSUME chain' = chain PROVE ChainOrder' /\ LiveInChain' /\ (Draining' <=> Draining)
  <2>1. ChainOrder'
    BY <1>7 DEF StreamOK, ChainOrder
  <2>2. Draining' <=> Draining
    BY <1>7 DEF Draining
  <2>3. LiveInChain'
    BY <1>1, <1>2, <1>6, <1>7, <2>2 DEF StreamOK, LiveInChain, NextLsn
  <2> QED
    BY <2>1, <2>2, <2>3
<1>8. ASSUME call = "open", chain' = Append(chain, Event(NextLsn))
      PROVE  ChainOrder' /\ LiveInChain' /\ (Draining' <=> Draining)
  <2>1. /\ Len(chain') = Len(chain) + 1
        /\ \A i \in 1..Len(chain) : chain'[i] = chain[i]
        /\ chain'[Len(chain) + 1] = Event(Len(log) + 1)
    BY <1>1, <1>8, ChainAppended DEF NextLsn
  <2>2. ChainOrder'
    <3>1. \A i \in 1..Len(chain) : chain[i] = Drain => i = 1
      BY DEF StreamOK, ChainOrder
    <3>2. \A i, j \in 1..Len(chain) :
              i < j /\ IsEvent(chain[i]) /\ IsEvent(chain[j]) => chain[i].lsn < chain[j].lsn
      BY DEF StreamOK, ChainOrder
    <3>3. \A i \in 1..Len(chain') : chain'[i] = Drain => i = 1
      BY <1>1, <2>1, <3>1, TasksDiffer
    <3>4. ASSUME NEW i \in 1..Len(chain'), NEW j \in 1..Len(chain'), i < j,
                 IsEvent(chain'[i]), IsEvent(chain'[j])
          PROVE  chain'[i].lsn < chain'[j].lsn
      <4>1. i \in 1..Len(chain) /\ (j \in 1..Len(chain) \/ j = Len(chain) + 1)
        BY <1>1, <2>1, <3>4
      <4>2. CASE j \in 1..Len(chain)
        BY <2>1, <3>2, <3>4, <4>1, <4>2
      <4>3. CASE j = Len(chain) + 1
        <5>1. chain'[j].lsn = Len(log) + 1
          BY <2>1, <4>3, TasksDiffer
        <5>2. chain'[i].lsn \in 1..Len(log)
          BY <1>5, <2>1, <3>4, <4>1
        <5> QED
          BY <1>1, <5>1, <5>2
      <4> QED
        BY <4>1, <4>2, <4>3
    <3> QED
      BY <3>3, <3>4 DEF ChainOrder, IsEvent
  <2>3. Draining' <=> Draining
    BY <1>1, <2>1, TasksDiffer DEF Draining
  <2>4. LiveInChain'
    <3> SUFFICES ASSUME ~Draining, NEW n \in 1..(Len(log) + 1), ~(n <= lastWrittenLsn)
                 PROVE  \/ log'[n] = "hole" \/ n \in unsent'
                        \/ \E i \in 1..(Len(chain) + 1) : chain'[i] = Event(n)
      BY <1>2, <2>1, <2>3 DEF LiveInChain
    <3>1. CASE n = Len(log) + 1
      BY <1>1, <2>1, <3>1
    <3>2. CASE n \in 1..Len(log)
      <4>1. \/ log[n] = "hole" \/ n \in unsent
            \/ \E i \in 1..Len(chain) : chain[i] = Event(n)
        BY <1>1, <1>8, <3>2 DEF StreamOK, LiveInChain
      <4> QED
        BY <1>1, <1>2, <1>6, <2>1, <3>2, <4>1
    <3> QED
      BY <1>1, <3>1, <3>2
  <2> QED
    BY <2>2, <2>3, <2>4
<1>9. ChainOrder' /\ LiveInChain' /\ (Draining' <=> Draining)
  BY <1>6, <1>7, <1>8
<1>10. BatchIsNext'
  BY <1>1, <1>2, <1>9 DEF StreamOK, BatchIsNext
<1>11. NotOvertaken'
  BY <1>1, <1>2 DEF StreamOK, NotOvertaken, RotationsIn
<1>12. call # "open" => chain' = <<>>
  BY <1>6 DEF StreamOK
<1> QED
  BY <1>4, <1>9, <1>10, <1>11, <1>12 DEF StreamOK

\* The first task is done; what is not written is a hole, not to be sent, or behind it.
LEMMA TaskDone ==
    ASSUME LogOK, StreamOK, call = "open", chain # <<>>, chain' = Tail(chain),
           batch = {}, batch' = {},
           lastWrittenLsn' \in 0..Len(log), lastWrittenLsn <= lastWrittenLsn',
           \A n \in 1..Len(log) :
               \/ n <= lastWrittenLsn' \/ log[n] = "hole" \/ n \in unsent
               \/ \E i \in 2..Len(chain) : chain[i] = Event(n),
           WireType', UNCHANGED <<log, unsent, deletedMaxLsn, up, call>>
    PROVE  StreamOK'
<1>1. /\ ChainType /\ Len(log) \in Nat /\ DOMAIN log = 1..Len(log) /\ deletedMaxLsn \in Nat
      /\ lastWrittenLsn \in 0..Len(log) /\ Len(chain) \in Nat /\ Len(chain) >= 1
  BY LogShape, ChainShape DEF LogOK, StreamOK, StreamType
<1>2. /\ Len(chain') = Len(chain) - 1
      /\ \A i \in 1..(Len(chain) - 1) : chain'[i] = chain[i + 1]
  BY <1>1, ChainTail
<1>3. StreamType'
  <2>1. Sendable' = Sendable
    BY DEF Sendable
  <2>2. ChainType'
    BY <1>1, <2>1, HeadTailProperties DEF ChainType
  <2> QED
    BY <1>1, <2>2 DEF StreamOK, StreamType
<1>4. ChainOrder'
  BY <1>1, <1>2 DEF StreamOK, ChainOrder, IsEvent
<1>5. LiveInChain'
  <2>1. ASSUME NEW n, NEW i \in 2..Len(chain), chain[i] = Event(n)
        PROVE  i - 1 \in 1..Len(chain') /\ chain'[i - 1] = Event(n)
    BY <1>1, <1>2, <2>1
  <2> QED
    BY <1>1, <2>1 DEF LiveInChain
<1>6. BatchIsNext'
  BY DEF BatchIsNext
<1>7. NotOvertaken'
  BY <1>1 DEF StreamOK, NotOvertaken, RotationsIn
<1> QED
  BY <1>3, <1>4, <1>5, <1>6, <1>7 DEF StreamOK

\* Only the first task can be a drain.
LEMMA Drained ==
    ASSUME StreamOK, chain # <<>>, Head(chain) # Drain
    PROVE  ~Draining /\ batch = {}
BY ChainShape DEF StreamOK, StreamType, ChainOrder, BatchIsNext, Draining

\* The drain writes, or ends.
LEMMA BacklogStep ==
    ASSUME LogOK, StreamOK, WriteBacklog, WireType'
    PROVE  StreamOK'
<1>1. /\ call = "open" /\ chain # <<>> /\ Head(chain) = Drain
      /\ UNCHANGED <<log, unsent, deletedMaxLsn, up, call>>
  BY DEF WriteBacklog, Writable, UnchangedByWrite, coordinator
<1>2. /\ ChainType /\ Len(log) \in Nat /\ DOMAIN log = 1..Len(log) /\ deletedMaxLsn \in Nat
      /\ lastWrittenLsn \in 0..Len(log) /\ Len(chain) \in Nat /\ Len(chain) >= 1
  BY <1>1, LogShape, ChainShape DEF LogOK, StreamOK, StreamType
<1>3. CASE NextBatch = {}
  <2>1. batch = {} /\ chain' = Tail(chain) /\ batch' = batch /\ lastWrittenLsn' = lastWrittenLsn
    BY <1>3 DEF WriteBacklog, NextBatch
  <2>2. \A n \in 1..Len(log) : n <= lastWrittenLsn \/ log[n] = "hole"
    BY <1>1, <1>3, NextBatchFacts
  <2> QED
    BY <1>1, <1>2, <2>1, <2>2, TaskDone
<1>4. CASE NextBatch # {}
  <2>1. /\ lastWrittenLsn' = First(NextBatch)
        /\ batch' = NextBatch \ {First(NextBatch)} /\ chain' = chain
    BY <1>4 DEF WriteBacklog, NextBatch
  <2>2. /\ NextBatch \subseteq 1..Len(log)
        /\ \A m \in NextBatch :
               /\ lastWrittenLsn < m /\ log[m] # "hole"
               /\ \A n \in 1..m :
                      \/ n <= lastWrittenLsn \/ n \in NextBatch
                      \/ log[n] = "hole" \/ n <= deletedMaxLsn
    BY <1>1, NextBatchFacts
  <2>3. First(NextBatch) \in NextBatch /\ \A m \in NextBatch : First(NextBatch) <= m
    <3>1. NextBatch \in SUBSET Nat
      BY <1>2, <2>2
    <3> QED
      BY <1>4, <3>1, FirstIs
  <2> DEFINE f == First(NextBatch)
  <2>4. f \in 1..Len(log) /\ lastWrittenLsn < f
    BY <2>2, <2>3
  <2> HIDE DEF f
  <2>5. StreamType'
    <3>1. ChainType'
      BY <1>1, <1>2, <2>1 DEF ChainType, Sendable
    <3>2. batch' \subseteq 1..Len(log) /\ lastWrittenLsn' \in 0..Len(log)
      <4>1. batch' \subseteq 1..Len(log)
        BY <2>1, <2>2
      <4>2. lastWrittenLsn' = f
        BY <2>1 DEF f
      <4> QED
        BY <1>2, <2>4, <4>1, <4>2
    <3> QED
      BY <1>1, <1>2, <3>1, <3>2 DEF StreamOK, StreamType
  <2>6. Draining /\ Draining'
    BY <1>1, <1>2, <2>1, ChainShape DEF Draining
  <2>7. BatchIsNext'
    <3>1. \A m \in batch' : f < m
      <4>1. ASSUME NEW m \in batch' PROVE m \in 1..Len(log) /\ f <= m /\ m # f
        BY <2>1, <2>2, <2>3, <4>1 DEF f
      <4> QED
        BY <1>2, <2>4, <4>1
    <3>2. lastWrittenLsn' = f
      BY <2>1 DEF f
    <3> QED
      BY <1>1, <1>2, <2>1, <2>2, <2>4, <2>6, <3>1, <3>2 DEF BatchIsNext, f
  <2>8. ChainOrder' /\ LiveInChain'
    BY <2>1, <2>6 DEF StreamOK, ChainOrder, LiveInChain
  <2>9. NotOvertaken'
    BY <1>1, <1>2, <2>1, <2>4 DEF StreamOK, NotOvertaken, RotationsIn, f
  <2> QED
    BY <1>1, <2>1, <2>5, <2>7, <2>8, <2>9 DEF StreamOK
<1> QED
  BY <1>3, <1>4

\* A live event is written, or has been.
LEMMA EventStep ==
    ASSUME LogOK, StreamOK, WriteEvent, WireType'
    PROVE  StreamOK'
<1>1. /\ call = "open" /\ chain # <<>> /\ IsEvent(Head(chain)) /\ chain' = Tail(chain)
      /\ batch' = batch
      /\ UNCHANGED <<log, unsent, deletedMaxLsn, up, call>>
  BY DEF WriteEvent, Writable, IsEvent, UnchangedByWrite, coordinator
<1>2. /\ ChainType /\ LogType /\ Len(log) \in Nat /\ lastWrittenLsn \in 0..Len(log)
      /\ Len(chain) \in Nat /\ Len(chain) >= 1
  BY <1>1, LogShape, ChainShape DEF LogOK, StreamOK, StreamType
<1>3. ~Draining /\ batch = {}
  BY <1>1, Drained, TasksDiffer
<1>4. PICK h \in 1..Len(log) : chain[1] = Event(h) /\ Head(chain).lsn = h
  BY <1>1, <1>2, ChainShape, TaskIs
<1>5. lastWrittenLsn' = IF h <= lastWrittenLsn THEN lastWrittenLsn ELSE h
  BY <1>4 DEF WriteEvent, AlreadyWritten
<1>6. /\ lastWrittenLsn <= lastWrittenLsn' /\ lastWrittenLsn' \in 0..Len(log)
      /\ h <= lastWrittenLsn'
  BY <1>2, <1>5
<1>7. ASSUME NEW n \in 1..Len(log), ~(n <= lastWrittenLsn')
      PROVE  \/ log[n] = "hole" \/ n \in unsent
             \/ \E i \in 2..Len(chain) : chain[i] = Event(n)
  <2>1. ~(n <= lastWrittenLsn) /\ h # n
    BY <1>2, <1>6, <1>7
  <2>2. \/ log[n] = "hole" \/ n \in unsent
        \/ \E i \in 1..Len(chain) : chain[i] = Event(n)
    BY <1>1, <1>3, <2>1 DEF StreamOK, LiveInChain
  <2>3. chain[1] # Event(n)
    BY <1>4, <2>1, TasksDiffer
  <2> QED
    BY <1>2, <2>2, <2>3
<1> QED
  BY <1>1, <1>3, <1>6, <1>7, TaskDone

\* The keepalive behind the backlog is written.
LEMMA KeepaliveStep ==
    ASSUME LogOK, StreamOK, WriteKeepalive, WireType'
    PROVE  StreamOK'
<1>1. /\ call = "open" /\ chain # <<>> /\ Head(chain) = Keepalive /\ chain' = Tail(chain)
      /\ batch' = batch /\ lastWrittenLsn' = lastWrittenLsn
      /\ UNCHANGED <<log, unsent, deletedMaxLsn, up, call>>
  BY DEF WriteKeepalive, Writable, UnchangedByWrite, coordinator
<1>2. /\ ChainType /\ Len(log) \in Nat /\ lastWrittenLsn \in 0..Len(log)
      /\ Len(chain) \in Nat /\ Len(chain) >= 1 /\ Head(chain) = chain[1]
  BY <1>1, LogShape, ChainShape DEF LogOK, StreamOK, StreamType
<1>3. ~Draining /\ batch = {}
  BY <1>1, Drained, TasksDiffer
<1>4. ASSUME NEW n \in 1..Len(log)
      PROVE  \/ n <= lastWrittenLsn \/ log[n] = "hole" \/ n \in unsent
             \/ \E i \in 2..Len(chain) : chain[i] = Event(n)
  <2>1. \/ n <= lastWrittenLsn \/ log[n] = "hole" \/ n \in unsent
        \/ \E i \in 1..Len(chain) : chain[i] = Event(n)
    BY <1>1, <1>2, <1>3 DEF StreamOK, LiveInChain
  <2>2. chain[1] # Event(n)
    BY <1>1, <1>2, TasksDiffer
  <2> QED
    BY <1>2, <2>1, <2>2
<1> QED
  BY <1>1, <1>2, <1>3, <1>4, TaskDone

\* A stream is accepted where its backlog is retained.
LEMMA AskedStep ==
    ASSUME LogOK, LogOK', StreamOK, Asked, WireType'
    PROVE  StreamOK'
<1>1. PICK lsn \in 0..Len(log) : Subscribe(lsn)
  BY DEF Asked
<1>2. UNCHANGED <<log, unsent, deletedMaxLsn, up>> /\ Len(log) \in Nat /\ deletedMaxLsn \in Nat
  BY LogShape DEF Asked, coordinator, LogOK
<1>3. CASE Ended(<<Resnapshot, Down>>)
  BY <1>3, IdleStep DEF Ended
<1>4. CASE ~Ended(<<Resnapshot, Down>>)
  <2>1. /\ CanServeFrom(lsn) /\ call' = "open" /\ chain' = <<Drain, Keepalive>>
        /\ batch' = {} /\ lastWrittenLsn' = lsn /\ up
    BY <1>1, <1>4 DEF Subscribe, Backlog
  <2>2. Len(chain') = 2 /\ chain'[1] = Drain /\ chain'[2] = Keepalive
    BY <2>1
  <2>3. ChainType'
    <3>1. {Drain, Keepalive} \subseteq (Sendable \cup {Drain})'
      BY DEF Sendable
    <3> QED
      BY <2>1, <3>1 DEF ChainType
  <2>4. StreamType'
    BY <1>2, <2>1, <2>3 DEF StreamType
  <2>5. ChainOrder' /\ Draining'
    BY <2>2, TasksDiffer DEF ChainOrder, Draining
  <2>6. BatchIsNext' /\ LiveInChain' /\ NotOvertaken'
    BY <1>2, <2>1, <2>5 DEF BatchIsNext, LiveInChain, NotOvertaken, CanServeFrom
  <2> QED
    BY <1>2, <2>1, <2>4, <2>5, <2>6 DEF StreamOK
<1> QED
  BY <1>3, <1>4

\* A step that leaves the chain and the log alone.
LEMMA RestStep ==
    ASSUME StreamOK, WireType', call' = "none" => wire' = <<>>, ~up' => call' # "open",
           UNCHANGED <<log, unsent, deletedMaxLsn, call, chain, batch, lastWrittenLsn>>
    PROVE  StreamOK'
<1>1. StreamType'
  BY DEF StreamOK, StreamType, ChainType, Sendable
<1>2. ChainOrder' /\ BatchIsNext' /\ NotOvertaken' /\ LiveInChain'
  BY DEF StreamOK, ChainOrder, BatchIsNext, NotOvertaken, LiveInChain, Draining, RotationsIn,
         IsEvent
<1> QED
  BY <1>1, <1>2 DEF StreamOK

\* The coordinator starts again: no stream is open.
LEMMA StartStep ==
    ASSUME StreamOK, WireType', CoordinatorStart
    PROVE  StreamOK'
<1>1. /\ ~up /\ up' /\ UNCHANGED <<log, unsent, call, chain, batch, lastWrittenLsn, wire>>
  BY DEF CoordinatorStart, stream
<1>2. call # "open" /\ chain = <<>> /\ batch = {}
  BY <1>1 DEF StreamOK, BatchIsNext, Draining
<1>3. StreamType'
  BY <1>1 DEF StreamOK, StreamType, ChainType, Sendable
<1>4. ChainOrder' /\ BatchIsNext' /\ NotOvertaken' /\ LiveInChain'
  BY <1>1, <1>2 DEF StreamOK, ChainOrder, BatchIsNext, NotOvertaken, LiveInChain
<1> QED
  BY <1>1, <1>2, <1>3, <1>4 DEF StreamOK

\* Every step keeps the invariant of the log and of the stream.
LEMMA StreamStep ==
    ASSUME LogOK, StreamOK, StreamNext
    PROVE  LogOK' /\ StreamOK'
<1>1. LogOK' /\ WireType'
  BY LogStep, WireStep
<1>2. Len(log) \in Nat /\ deletedMaxLsn \in 0..Len(log)
  BY LogShape DEF LogOK
<1>3. ASSUME NEW kind \in {"entry", "rotate"}, Publish(kind) PROVE StreamOK'
  <2>1. ConsistencyPoint \in 0..Len(log)
    BY <1>2, LastRotationIs DEF ConsistencyPoint, LogOK
  <2>2. deletedMaxLsn <= deletedMaxLsn' /\ deletedMaxLsn' <= Len(log)
    BY <1>2, <1>3, <2>1 DEF Publish, Bigger
  <2>3. kind \in Kinds /\ (kind = "rotate" \/ deletedMaxLsn' = deletedMaxLsn)
    BY <1>3 DEF Kinds, Publish
  <2> QED
    BY <1>1, <1>3, <2>2, <2>3, PublishStep DEF Publish, UnchangedButChain
<1>4. ASSUME PublishFails PROVE StreamOK'
  <2>1. PICK kind \in Kinds : /\ log' = Append(log, kind)
                              /\ kind = "hole" \/ NextLsn \in unsent'
                              /\ unsent \subseteq unsent'
    BY <1>4 DEF PublishFails, Kinds
  <2>2. UNCHANGED <<chain, deletedMaxLsn, up, call, batch, lastWrittenLsn, wire>>
    BY <1>4 DEF PublishFails, stream
  <2> QED
    BY <1>1, <1>2, <2>1, <2>2, PublishStep
<1>5. ASSUME WriteStep PROVE StreamOK'
  BY <1>1, <1>5, BacklogStep, EventStep, KeepaliveStep DEF WriteStep
<1>6. ASSUME ZombieCloses \/ Stall \/ Heal \/ Rests PROVE StreamOK'
  BY <1>1, <1>6, RestStep DEF ZombieCloses, Stall, Heal, Rests, coordinator, StreamOK
<1>7. ASSUME Break PROVE StreamOK'
  BY <1>1, <1>7, IdleStep DEF Break
<1>8. ASSUME CoordinatorStop PROVE StreamOK'
  <2>1. CASE call = "open"
    BY <1>1, <1>8, <2>1, IdleStep DEF CoordinatorStop
  <2>2. CASE call # "open"
    BY <1>1, <1>8, <2>2, RestStep DEF CoordinatorStop, StreamOK
  <2> QED
    BY <2>1, <2>2
<1>9. ASSUME CoordinatorStart PROVE StreamOK'
  BY <1>1, <1>9, StartStep
<1>10. ASSUME Asked PROVE StreamOK'
  BY <1>1, <1>10, AskedStep
<1>11. ASSUME Dropped PROVE StreamOK'
  BY <1>1, <1>11, IdleStep DEF Dropped, Drop
<1>12. ASSUME Delivers PROVE StreamOK'
  BY <1>1, <1>12, RestStep DEF Delivers, coordinator, StreamOK
<1> QED
  BY <1>1, <1>3, <1>4, <1>5, <1>6, <1>7, <1>8, <1>9, <1>10, <1>11, <1>12
     DEF StreamNext, ServerNext

\* It starts so.
LEMMA StreamInit ==
    ASSUME ServerInit
    PROVE  LogOK /\ StreamOK
<1>1. Len(<<>>) = 0 /\ DOMAIN <<>> = {} /\ \A S : <<>> \in Seq(S)
  OBVIOUS
<1>2. LogOK
  BY <1>1, ServerAssumption DEF ServerInit, LogOK, LogType
<1>3. StreamType
  BY <1>1 DEF ServerInit, StreamType, ChainType, WireType
<1>4. ChainOrder /\ BatchIsNext /\ NotOvertaken /\ LiveInChain
  BY <1>1 DEF ServerInit, ChainOrder, BatchIsNext, NotOvertaken, LiveInChain
<1> QED
  BY <1>2, <1>3, <1>4 DEF ServerInit, StreamOK

-----------------------------------------------------------------------------
(* What the stream promises.                                               *)

\* Once the drain has ended, what is not written is in the chain.
LEMMA StreamNothingBetween ==
    ASSUME LogOK, StreamOK
    PROVE  NothingBetween
<1>1. /\ Len(log) \in Nat /\ lastWrittenLsn \in 0..Len(log) /\ Len(chain) \in Nat
      /\ DOMAIN chain = 1..Len(chain)
  BY LogShape, ChainShape DEF LogOK, StreamOK, StreamType
<1>2. ASSUME call = "open", \A i \in DOMAIN chain : chain[i] # Drain,
             NEW n \in (lastWrittenLsn + 1)..Len(log)
      PROVE  log[n] = "hole" \/ n \in unsent \/ Event(n) \in {chain[i] : i \in DOMAIN chain}
  <2>1. n \in 1..Len(log) /\ ~(n <= lastWrittenLsn)
    BY <1>1
  <2> QED
    BY <1>1, <1>2, <2>1 DEF StreamOK, LiveInChain, Draining
<1> QED
  BY <1>2 DEF NothingBetween

\* What is written is what comes next.
LEMMA StreamDeliveryOrder ==
    ASSUME LogOK, StreamOK, StreamNext, call = "open",
           NEW lsn, wire' = Append(wire, Event(lsn))
    PROVE  /\ lsn > lastWrittenLsn
           /\ \A n \in (lastWrittenLsn + 1)..(lsn - 1) :
                  log[n] = "hole" \/ n \in unsent \/ n <= deletedMaxLsn
<1>1. /\ ChainType /\ LogType /\ Len(log) \in Nat /\ lastWrittenLsn \in 0..Len(log)
      /\ Len(chain) \in Nat /\ wire \in Seq(Sendable)
  BY LogShape, ChainShape DEF LogOK, StreamOK, StreamType, WireType
<1>2. /\ wire' # wire /\ (wire # <<>> => wire' # Tail(wire))
      /\ \A m : (wire' = Append(wire, m) \/ wire' = <<m>>) => m = Event(lsn)
  <2>1. /\ Len(wire) \in Nat /\ Len(wire') = Len(wire) + 1 /\ wire'[Len(wire')] = Event(lsn)
        /\ wire # <<>> => Len(Tail(wire)) = Len(wire) - 1
        /\ \A m : Append(wire, m)[Len(wire) + 1] = m
    BY <1>1
  <2>2. \A m : Len(<<m>>) = 1 /\ <<m>>[1] = m
    OBVIOUS
  <2>3. wire' # wire /\ (wire # <<>> => wire' # Tail(wire))
    BY <2>1
  <2>4. ASSUME NEW m, wire' = Append(wire, m) PROVE m = Event(lsn)
    BY <2>1, <2>4
  <2>5. ASSUME NEW m, wire' = <<m>> PROVE m = Event(lsn)
    BY <2>1, <2>2, <2>5
  <2> QED
    BY <2>3, <2>4, <2>5
<1>3. CASE WriteBacklog
  <2>1. NextBatch # {} /\ wire' = Append(wire, Event(First(NextBatch)))
    BY <1>2, <1>3 DEF WriteBacklog, NextBatch
  <2>2. lsn = First(NextBatch)
    <3>1. Event(First(NextBatch)) = Event(lsn)
      BY <1>2, <2>1
    <3>2. \A n : Event(n).lsn = n
      BY TasksDiffer
    <3> QED
      BY <3>1, <3>2
  <2>3. /\ NextBatch \subseteq 1..Len(log)
        /\ \A m \in NextBatch :
               /\ lastWrittenLsn < m
               /\ \A n \in 1..m : \/ n <= lastWrittenLsn \/ n \in NextBatch
                                  \/ log[n] = "hole" \/ n <= deletedMaxLsn
    BY NextBatchFacts
  <2>4. lsn \in NextBatch /\ \A m \in NextBatch : lsn <= m
    <3>1. NextBatch \in SUBSET Nat
      BY <1>1, <2>3
    <3> QED
      BY <2>1, <2>2, <3>1, FirstIs
  <2>5. lsn \in 1..Len(log) /\ lastWrittenLsn < lsn
    BY <2>3, <2>4
  <2>6. ASSUME NEW n \in (lastWrittenLsn + 1)..(lsn - 1)
        PROVE  log[n] = "hole" \/ n <= deletedMaxLsn
    <3>1. n \in 1..lsn /\ ~(n <= lastWrittenLsn) /\ ~(lsn <= n)
      BY <1>1, <2>5
    <3> QED
      BY <2>3, <2>4, <3>1
  <2> QED
    BY <1>1, <2>5, <2>6
<1>4. CASE WriteEvent
  <2>1. /\ chain # <<>> /\ IsEvent(Head(chain)) /\ Head(chain) = chain[1] /\ Len(chain) >= 1
        /\ ~AlreadyWritten(Head(chain).lsn) /\ Event(Head(chain).lsn) = Event(lsn)
    BY <1>1, <1>2, <1>4, ChainShape DEF WriteEvent, Writable, IsEvent
  <2>2. chain[1] = Event(lsn) /\ lsn \in 1..Len(log)
    BY <1>1, <2>1, ChainShape, TaskIs, TasksDiffer
  <2>3. lastWrittenLsn < lsn
    BY <1>1, <2>1, <2>2, TasksDiffer DEF AlreadyWritten
  <2>4. ~Draining
    BY <2>1, Drained, TasksDiffer
  <2>5. ASSUME NEW n \in (lastWrittenLsn + 1)..(lsn - 1)
        PROVE  log[n] = "hole" \/ n \in unsent
    <3>1. n \in 1..Len(log) /\ ~(n <= lastWrittenLsn) /\ ~(lsn <= n)
      BY <1>1, <2>2
    <3>2. ASSUME NEW i \in 1..Len(chain), chain[i] = Event(n) PROVE FALSE
      <4>1. i # 1
        BY <2>2, <3>1, <3>2, TasksDiffer
      <4>2. chain[1].lsn < chain[i].lsn
        <5>1. IsEvent(chain[1]) /\ IsEvent(chain[i])
          BY <2>2, <3>2, TasksDiffer
        <5>2. 1 \in 1..Len(chain) /\ 1 < i
          BY <1>1, <2>1, <4>1
        <5> QED
          BY <5>1, <5>2 DEF StreamOK, ChainOrder
      <4> QED
        BY <2>2, <3>1, <3>2, <4>2, TasksDiffer
    <3> QED
      BY <2>4, <3>1, <3>2 DEF StreamOK, LiveInChain
  <2> QED
    BY <1>1, <2>3, <2>5
<1>5. CASE wire' \in {wire, <<>>} \/ (wire # <<>> /\ wire' = Tail(wire))
  <2>1. wire' # <<>>
    BY <1>1
  <2> QED
    BY <1>2, <1>5, <2>1
<1>6. CASE \E m : ~IsEvent(m) /\ (wire' = Append(wire, m) \/ wire' = <<m>>)
  BY <1>2, <1>6, TasksDiffer
<1>7. \/ WriteBacklog \/ WriteEvent
      \/ wire' \in {wire, <<>>} \/ (wire # <<>> /\ wire' = Tail(wire))
      \/ \E m : ~IsEvent(m) /\ (wire' = Append(wire, m) \/ wire' = <<m>>)
  <2>1. ASSUME Break \/ CoordinatorStop \/ WriteKeepalive
        PROVE  wire' = wire \/ \E m : ~IsEvent(m) /\ (wire' = Append(wire, m) \/ wire' = <<m>>)
    BY <2>1, TasksDiffer DEF Break, CoordinatorStop, WriteKeepalive
  <2>2. ~Asked
    BY DEF Asked
  <2> QED
    BY <2>1, <2>2
       DEF StreamNext, ServerNext, WriteStep, Publish, UnchangedButChain, PublishFails,
           ZombieCloses,
           Stall, Heal, CoordinatorStart, Dropped, Drop, Delivers, Rests, stream
<1> QED
  BY <1>3, <1>4, <1>5, <1>6, <1>7
=============================================================================
