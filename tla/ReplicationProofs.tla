-------------------------- MODULE ReplicationProofs --------------------------
(***************************************************************************)
(* A node implements ReplicatedLog, for every log, every number of         *)
(* failures and every size of the batches, the window and the chain.  The  *)
(* step that takes an argument is the opening of the gate: the keepalive   *)
(* that opens it is behind all that the log had when the stream began.     *)
(***************************************************************************)
EXTENDS RevokerNodeProofs

\* What is on its way from the stream to the filters.
pipe == applyChain \o wire

\* The events up to m are applied, or will be when the rotation that is awaited is.
Got(m) == m <= lastAppliedLsn \/ m <= rotating

\* They are, or an event at least as late comes before the k-th message.
Ahead(m, k) ==
    \/ Got(m)
    \/ \E j \in 1..Len(pipe) : j < k /\ IsEvent(pipe[j]) /\ pipe[j].lsn >= m

HasKeepalive ==
    \/ \E k \in 1..Len(pipe) : pipe[k] = Keepalive
    \/ \E i \in 1..Len(chain) : chain[i] = Keepalive

\* Behind a closed gate a keepalive is that of a stream that has set the mark.
Announced == catchingUp /\ HasKeepalive => mark # NoMark

\* All up to the mark comes before a keepalive,
Behind == \A k \in 1..Len(pipe) : pipe[k] = Keepalive => Ahead(mark, k)

\* as what a stream has written is applied or on its way,
Written == call = "open" => Ahead(lastWrittenLsn, Len(pipe) + 1)

\* and a drain ends when it has written all that there is.
DrainedToMark == call = "open" /\ ~Draining => lastWrittenLsn >= mark

\* The mark is an event, or nothing has to be reached.
MarkIs == mark > 0 => mark \in 1..Len(log) /\ log[mark] # "hole"

PipeOK == Announced /\ Behind /\ Written /\ DrainedToMark /\ MarkIs

-----------------------------------------------------------------------------
(* What a step may do to the pipe.                                         *)

\* The pipe is the chain of the engine and the stream.
LEMMA PipeShape ==
    ASSUME IInv
    PROVE  /\ Len(applyChain) \in Nat /\ Len(wire) \in Nat
           /\ Len(pipe) = Len(applyChain) + Len(wire)
           /\ \A k \in 1..Len(pipe) :
                  pipe[k] = IF k <= Len(applyChain) THEN applyChain[k]
                                                    ELSE wire[k - Len(applyChain)]
           /\ {lastAppliedLsn, rotating, Len(log), lastWrittenLsn} \subseteq Nat
           /\ mark \in Nat \cup {NoMark}
<1>1. applyChain \in Seq(Sendable) /\ wire \in Seq(Sendable)
  BY DEF IInv, Domains, ApplyChainType, StreamOK, StreamType, WireType
<1>2. Len(log) \in Nat
  BY LogShape DEF IInv, LogOK
<1>3. /\ {lastAppliedLsn, rotating, Len(log), lastWrittenLsn} \subseteq Nat
      /\ mark \in Nat \cup {NoMark}
  BY <1>2 DEF IInv, Domains, StreamOK, StreamType
<1>4. Len(applyChain) \in Nat /\ Len(wire) \in Nat
  BY <1>1
<1>5. /\ Len(pipe) = Len(applyChain) + Len(wire)
      /\ \A k \in 1..(Len(applyChain) + Len(wire)) :
             pipe[k] = IF k <= Len(applyChain) THEN applyChain[k]
                                               ELSE wire[k - Len(applyChain)]
  BY <1>1, ConcatProperties DEF pipe
<1> QED
  BY <1>3, <1>4, <1>5

\* Its messages may be said of the log.
LEMMA PipeType ==
    ASSUME IInv, NEW k \in 1..Len(pipe)
    PROVE  pipe[k] \in Sendable
<1>1. applyChain \in Seq(Sendable) /\ wire \in Seq(Sendable)
  BY DEF IInv, Domains, ApplyChainType, StreamOK, StreamType, WireType
<1>2. pipe \in Seq(Sendable)
  BY <1>1, ConcatProperties DEF pipe
<1> QED
  BY <1>2

\* So it is after a step.
LEMMA PipeShapeNext ==
    ASSUME IInv'
    PROVE  /\ Len(applyChain)' \in Nat /\ Len(wire)' \in Nat
           /\ Len(pipe)' = Len(applyChain)' + Len(wire)'
           /\ \A k \in 1..Len(pipe') :
                  pipe'[k] = IF k <= Len(applyChain') THEN applyChain'[k]
                                                      ELSE wire'[k - Len(applyChain')]
           /\ {lastAppliedLsn', rotating', Len(log'), lastWrittenLsn'} \subseteq Nat
           /\ mark' \in Nat \cup {NoMark}
<1>1. applyChain' \in Seq(Sendable') /\ wire' \in Seq(Sendable')
  BY DEF IInv, Domains, ApplyChainType, StreamOK, StreamType, WireType
<1>2. Len(log') \in Nat
  BY DEF IInv, LogOK, LogType
<1>3. /\ {lastAppliedLsn', rotating', Len(log'), lastWrittenLsn'} \subseteq Nat
      /\ mark' \in Nat \cup {NoMark}
  BY <1>2 DEF IInv, Domains, StreamOK, StreamType, NoMark
<1>4. Len(applyChain') \in Nat /\ Len(wire') \in Nat
  BY <1>1
<1>5. /\ Len(pipe') = Len(applyChain') + Len(wire')
      /\ \A k \in 1..(Len(applyChain') + Len(wire')) :
             pipe'[k] = IF k <= Len(applyChain') THEN applyChain'[k]
                                                 ELSE wire'[k - Len(applyChain')]
  BY <1>1, ConcatProperties DEF pipe
<1> QED
  BY <1>3, <1>4, <1>5

\* What was got stays so.
Gains == \A m \in Int : Got(m) => Got(m)'

\* The rest of what the invariant speaks of stays.
Calm == UNCHANGED <<mark, catchingUp, call, lastWrittenLsn>>

\* Nothing moves.
LEMMA StillStep ==
    ASSUME IInv, PipeOK, Len(pipe)' = Len(pipe), \A k \in 1..Len(pipe) : pipe'[k] = pipe[k],
           Gains, Calm, Draining' \/ ~Draining \/ lastWrittenLsn >= mark,
           \A i \in 1..Len(chain)' : chain'[i] = Keepalive =>
               \E j \in 1..Len(chain) : chain[j] = Keepalive
    PROVE  Announced' /\ Behind' /\ Written' /\ DrainedToMark'
<1>1. /\ {lastAppliedLsn, rotating, lastWrittenLsn} \subseteq Nat /\ mark \in Int
      /\ Len(pipe) \in Nat
  BY PipeShape DEF NoMark
<1>2. ASSUME NEW m \in Int, NEW k \in 1..(Len(pipe) + 1), Ahead(m, k) PROVE Ahead(m, k)'
  BY <1>1, <1>2 DEF Ahead, Gains
<1>3. Announced'
  BY DEF PipeOK, Announced, HasKeepalive, Calm
<1>4. Behind'
  <2>1. ASSUME NEW k \in 1..Len(pipe), pipe[k] = Keepalive PROVE Ahead(mark, k)'
    <3>1. Ahead(mark, k)
      BY <2>1 DEF PipeOK, Behind
    <3> QED
      BY <1>1, <1>2, <3>1 DEF Calm
  <2> QED
    BY <2>1 DEF Behind
<1>5. Written'
  <2>1. CASE call = "open"
    <3>1. Ahead(lastWrittenLsn, Len(pipe) + 1)
      BY <2>1 DEF PipeOK, Written
    <3> QED
      BY <1>1, <1>2, <3>1 DEF Written, Calm, Ahead, Got
  <2> QED
    BY <2>1 DEF Written, Calm
<1>6. DrainedToMark'
  BY DEF PipeOK, DrainedToMark, Calm
<1> QED
  BY <1>3, <1>4, <1>5, <1>6

\* The first message is taken.
LEMMA HeadStep ==
    ASSUME IInv, IInv', PipeOK, Len(pipe) >= 1, Len(pipe)' = Len(pipe) - 1,
           \A k \in 1..(Len(pipe) - 1) : pipe'[k] = pipe[k + 1],
           IsEvent(pipe[1]) => \E n \in Nat : pipe[1].lsn = n /\ Got(n)',
           Gains, UNCHANGED <<chain, call, lastWrittenLsn>>,
           UNCHANGED <<mark, catchingUp>> \/ (mark' = NoMark /\ ~catchingUp')
    PROVE  Announced' /\ Behind' /\ Written' /\ DrainedToMark'
<1>1. /\ {lastWrittenLsn, lastAppliedLsn', rotating'} \subseteq Nat /\ mark \in Int
      /\ Len(pipe) \in Nat
  <2>1. {lastWrittenLsn} \subseteq Nat /\ mark \in Int /\ Len(pipe) \in Nat
    BY PipeShape DEF NoMark
  <2>2. {lastAppliedLsn', rotating'} \subseteq Nat
    BY PipeShapeNext
  <2> QED
    BY <2>1, <2>2
<1>2. ASSUME NEW m \in Int, NEW k \in 1..Len(pipe), Ahead(m, k + 1) PROVE Ahead(m, k)'
  <2>1. CASE Got(m)
    BY <2>1 DEF Gains, Ahead
  <2>2. ASSUME NEW j \in 1..Len(pipe), j < k + 1, IsEvent(pipe[j]), pipe[j].lsn >= m
        PROVE  Ahead(m, k)'
    <3>1. CASE j = 1
      <4>1. PICK n \in Nat : pipe[1].lsn = n /\ Got(n)'
        BY <2>2, <3>1
      <4>2. Got(m)'
        BY <1>1, <2>2, <3>1, <4>1 DEF Got
      <4> QED
        BY <4>2 DEF Ahead
    <3>2. CASE j # 1
      <4>1. /\ j - 1 \in 1..(Len(pipe) - 1) /\ j - 1 < k /\ pipe'[j - 1] = pipe[j]
            /\ 1..Len(pipe)' = 1..(Len(pipe) - 1)
        BY <1>1, <2>2, <3>2
      <4> QED
        BY <2>2, <4>1 DEF Ahead, IsEvent
    <3> QED
      BY <3>1, <3>2
  <2> QED
    BY <1>2, <2>1, <2>2 DEF Ahead
<1>3. Announced'
  <2>1. HasKeepalive' => HasKeepalive
    BY <1>1 DEF HasKeepalive
  <2> QED
    BY <2>1 DEF PipeOK, Announced
<1>4. Behind'
  <2>1. CASE mark' = NoMark
    BY <1>1, <2>1 DEF Behind, Ahead, Got, NoMark
  <2>2. CASE mark' = mark
    <3>1. ASSUME NEW k \in 1..(Len(pipe) - 1), pipe'[k] = Keepalive PROVE Ahead(mark, k)'
      <4>1. k + 1 \in 1..Len(pipe) /\ k \in 1..Len(pipe) /\ pipe[k + 1] = Keepalive
        BY <1>1, <3>1
      <4>2. Ahead(mark, k + 1)
        BY <4>1 DEF PipeOK, Behind
      <4> QED
        BY <1>1, <1>2, <2>2, <4>1, <4>2
    <3> QED
      BY <3>1 DEF Behind
  <2> QED
    BY <2>1, <2>2
<1>5. Written'
  <2>1. CASE call = "open"
    <3>1. Ahead(lastWrittenLsn, Len(pipe) + 1) /\ Len(pipe) \in 1..Len(pipe)
      BY <1>1, <2>1 DEF PipeOK, Written
    <3>2. ASSUME NEW k \in 1..Len(pipe), k = Len(pipe) PROVE Ahead(lastWrittenLsn, k)'
      BY <1>1, <1>2, <3>1, <3>2
    <3>3. Len(pipe)' + 1 = Len(pipe)
      BY <1>1
    <3> QED
      BY <1>1, <3>1, <3>2, <3>3 DEF Written
  <2> QED
    BY <2>1 DEF Written
<1>6. DrainedToMark'
  <2>1. Draining' <=> Draining
    BY DEF Draining
  <2>2. CASE mark' = NoMark
    BY <1>1, <2>2 DEF DrainedToMark, NoMark
  <2>3. CASE mark' = mark
    BY <2>1, <2>3 DEF PipeOK, DrainedToMark
  <2> QED
    BY <2>2, <2>3
<1> QED
  BY <1>3, <1>4, <1>5, <1>6

\* The engine quits.
LEMMA EmptyStep ==
    ASSUME Len(pipe)' = 0, Len(chain)' = 0, call' # "open"
    PROVE  Announced' /\ Behind' /\ Written' /\ DrainedToMark'
BY DEF Announced, HasKeepalive, Behind, Written, DrainedToMark

\* The stream breaks: the pipe is cut.
LEMMA CutStep ==
    ASSUME IInv, IInv', PipeOK, call' # "open", Len(chain)' = 0,
           UNCHANGED <<mark, catchingUp, lastAppliedLsn, rotating>>,
           \A k \in 1..Len(pipe)' : pipe'[k] = Keepalive =>
               k <= Len(pipe) /\ \A j \in 1..k : pipe'[j] = pipe[j]
    PROVE  Announced' /\ Behind' /\ Written' /\ DrainedToMark'
<1>1. Len(pipe) \in Nat /\ Len(pipe)' \in Nat
  BY PipeShape, PipeShapeNext
<1>2. Announced'
  BY <1>1 DEF PipeOK, Announced, HasKeepalive
<1>3. Behind'
  <2>1. ASSUME NEW k \in 1..Len(pipe)', pipe'[k] = Keepalive PROVE Ahead(mark, k)'
    <3>1. k \in 1..Len(pipe) /\ pipe[k] = Keepalive /\ \A j \in 1..k : pipe'[j] = pipe[j]
      BY <1>1, <2>1
    <3>2. Ahead(mark, k)
      BY <3>1 DEF PipeOK, Behind
    <3>3. \A j \in 1..Len(pipe) : j < k => j \in 1..k /\ j \in 1..Len(pipe)'
      BY <1>1, <2>1
    <3> QED
      BY <3>1, <3>2, <3>3 DEF Ahead, Got, IsEvent
  <2> QED
    BY <2>1 DEF Behind
<1> QED
  BY <1>2, <1>3 DEF Written, DrainedToMark

\* A message is written.
LEMMA MessageStep ==
    ASSUME IInv, IInv', PipeOK, call = "open",
           Len(pipe)' = Len(pipe) + 1, \A k \in 1..Len(pipe) : pipe'[k] = pipe[k],
           UNCHANGED <<mark, catchingUp, call, lastAppliedLsn, rotating>>,
           Draining' \/ ~Draining,
           \A i \in 1..Len(chain)' : chain'[i] = Keepalive =>
               \E j \in 1..Len(chain) : chain[j] = Keepalive,
           NEW m, pipe'[Len(pipe) + 1] = m,
           \/ IsEvent(m) /\ m.lsn = lastWrittenLsn' /\ lastWrittenLsn' >= lastWrittenLsn
           \/ /\ m = Keepalive /\ lastWrittenLsn' = lastWrittenLsn /\ ~Draining
              /\ \E j \in 1..Len(chain) : chain[j] = Keepalive
    PROVE  Announced' /\ Behind' /\ Written' /\ DrainedToMark'
<1>1. /\ {lastAppliedLsn, rotating, lastWrittenLsn, lastWrittenLsn'} \subseteq Nat
      /\ mark \in Int /\ Len(pipe) \in Nat
  BY PipeShape, PipeShapeNext DEF NoMark
<1>2. ASSUME NEW n \in Int, NEW k \in 1..(Len(pipe) + 1), Ahead(n, k) PROVE Ahead(n, k)'
  BY <1>1, <1>2 DEF Ahead, Got, IsEvent
<1>3. ~IsEvent(Keepalive)
  BY TasksDiffer
<1>4. Ahead(lastWrittenLsn, Len(pipe) + 1)
  BY DEF PipeOK, Written
<1>5. Announced'
  <2>2. m = Keepalive => \E j \in 1..Len(chain) : chain[j] = Keepalive
    BY <1>3
  <2>3. \A k \in 1..Len(pipe)' : k \in 1..Len(pipe) \/ k = Len(pipe) + 1
    BY <1>1
  <2>1. HasKeepalive' => HasKeepalive
    BY <2>2, <2>3 DEF HasKeepalive
  <2> QED
    BY <2>1 DEF PipeOK, Announced
<1>6. Behind'
  <2>1. ASSUME NEW k \in 1..Len(pipe), pipe'[k] = Keepalive PROVE Ahead(mark, k)'
    <3>1. k \in 1..(Len(pipe) + 1) /\ Ahead(mark, k)
      BY <1>1, <2>1 DEF PipeOK, Behind
    <3> QED
      BY <1>1, <1>2, <3>1
  <2>2. ASSUME NEW k \in 1..(Len(pipe) + 1), k = Len(pipe) + 1, pipe'[k] = Keepalive
        PROVE  Ahead(mark, k)'
    <3>1. lastWrittenLsn >= mark
      BY <1>3, <2>2 DEF PipeOK, DrainedToMark
    <3>2. Ahead(mark, k)
      <4>1. \A j \in 1..Len(pipe) : IsEvent(pipe[j]) => pipe[j].lsn \in Int
        <5>1. \A j \in 1..Len(pipe) : pipe[j] \in Sendable
          BY PipeType
        <5> QED
          BY <5>1, TaskIs DEF IInv, LogOK
      <4> QED
        BY <1>1, <1>4, <2>2, <3>1, <4>1 DEF Ahead, Got
    <3>3. mark' = mark
      OBVIOUS
    <3> QED
      BY <1>1, <1>2, <3>2, <3>3
  <2> QED
    BY <1>1, <2>1, <2>2 DEF Behind
<1>7. Written'
  <2>1. CASE IsEvent(m)
    BY <1>1, <1>3, <2>1 DEF Written, Ahead
  <2>2. CASE ~IsEvent(m)
    <3>1. ASSUME NEW k \in 1..(Len(pipe) + 1), k = Len(pipe) + 1
          PROVE  Ahead(lastWrittenLsn, k)'
      BY <1>1, <1>2, <1>4, <2>2, <3>1
    <3>2. Len(pipe) + 1 \in 1..(Len(pipe) + 1)
      BY <1>1
    <3> QED
      BY <1>1, <3>1, <3>2 DEF Written, Ahead
  <2> QED
    BY <2>1, <2>2
<1>8. DrainedToMark'
  BY <1>1 DEF PipeOK, DrainedToMark
<1> QED
  BY <1>5, <1>6, <1>7, <1>8


-----------------------------------------------------------------------------
(* The steps of the server.                                                *)

\* A message goes to the end of the pipe.
LEMMA PipeAppended ==
    ASSUME IInv, IInv', NEW m, wire' = Append(wire, m), applyChain' = applyChain
    PROVE  /\ Len(pipe)' = Len(pipe) + 1
           /\ \A k \in 1..Len(pipe) : pipe'[k] = pipe[k]
           /\ pipe'[Len(pipe) + 1] = m
<1>1. /\ Len(applyChain) \in Nat /\ Len(wire) \in Nat
      /\ Len(pipe) = Len(applyChain) + Len(wire)
      /\ \A k \in 1..Len(pipe) :
             pipe[k] = IF k <= Len(applyChain) THEN applyChain[k]
                                               ELSE wire[k - Len(applyChain)]
  BY PipeShape
<1>2. /\ Len(pipe)' = Len(applyChain)' + Len(wire)'
      /\ \A k \in 1..Len(pipe') :
             pipe'[k] = IF k <= Len(applyChain') THEN applyChain'[k]
                                                 ELSE wire'[k - Len(applyChain')]
  BY PipeShapeNext
<1>3. /\ Len(wire)' = Len(wire) + 1 /\ wire'[Len(wire) + 1] = m
      /\ \A i \in 1..Len(wire) : wire'[i] = wire[i]
  <2>1. wire \in Seq(Sendable)
    BY DEF IInv, StreamOK, StreamType, WireType
  <2> QED
    BY <2>1
<1>4. Len(pipe)' = Len(pipe) + 1
  BY <1>1, <1>2, <1>3
<1>5. ASSUME NEW k \in 1..Len(pipe) PROVE pipe'[k] = pipe[k]
  BY <1>1, <1>2, <1>3, <1>4, <1>5
<1>6. pipe'[Len(pipe) + 1] = m
  <2>1. Len(pipe) + 1 - Len(applyChain) = Len(wire) + 1 /\ Len(pipe) + 1 \in 1..Len(pipe)'
    BY <1>1, <1>4
  <2>2. ASSUME NEW k \in 1..Len(pipe)', ~(k <= Len(applyChain)),
               k - Len(applyChain) = Len(wire) + 1
        PROVE  pipe'[k] = m
    BY <1>2, <1>3, <2>2
  <2>3. ~(Len(pipe) + 1 <= Len(applyChain))
    BY <1>1
  <2> QED
    BY <2>1, <2>2, <2>3
<1> QED
  BY <1>4, <1>5, <1>6

\* What the stream and the engine both leave is still.
LEMMA PipeStill ==
    ASSUME IInv, PipeOK, UNCHANGED <<wire, applyChain, lastAppliedLsn, rotating>>, Calm,
           Draining' \/ ~Draining \/ lastWrittenLsn >= mark,
           \A i \in 1..Len(chain)' : chain'[i] = Keepalive =>
               \E j \in 1..Len(chain) : chain[j] = Keepalive
    PROVE  Announced' /\ Behind' /\ Written' /\ DrainedToMark'
<1>1. Len(pipe)' = Len(pipe) /\ \A k \in 1..Len(pipe) : pipe'[k] = pipe[k]
  BY DEF pipe
<1>2. Gains
  BY DEF Gains, Got
<1> QED
  BY <1>1, <1>2, StillStep

\* A task is done: the chain goes on with what followed it.
LEMMA ChainDone ==
    ASSUME IInv, chain # <<>>, chain' = Tail(chain)
    PROVE  /\ \A i \in 1..Len(chain)' : chain'[i] = Keepalive =>
                  \E j \in 1..Len(chain) : chain[j] = Keepalive
           /\ Head(chain) \in {chain[j] : j \in 1..Len(chain)}
<1>1. ChainType
  BY DEF IInv, StreamOK, StreamType
<1>2. /\ Len(chain) \in Nat /\ Len(chain)' = Len(chain) - 1 /\ Len(chain) >= 1
      /\ \A i \in 1..(Len(chain) - 1) : chain'[i] = chain[i + 1]
      /\ Head(chain) = chain[1]
  BY <1>1, ChainShape, ChainTail
<1>3. ASSUME NEW i \in 1..(Len(chain) - 1) PROVE i + 1 \in 1..Len(chain)
  BY <1>2
<1> QED
  BY <1>2, <1>3

\* The steps of the server keep the order of the pipe.
LEMMA ServerPipe ==
    ASSUME IInv, IInv', PipeOK, ServerStep
    PROVE  Announced' /\ Behind' /\ Written' /\ DrainedToMark'
<1>1. UNCHANGED <<mark, catchingUp, applyChain, lastAppliedLsn, rotating>>
  BY DEF ServerStep, syncEngine, node, gate
<1>2. /\ LogOK /\ StreamOK /\ ChainType /\ Len(chain) \in Nat
      /\ \A i \in 1..Len(chain) : chain[i] \in Sendable \cup {Drain}
  BY ChainShape DEF IInv, StreamOK, StreamType
<1>3. ASSUME NEW lsn, chain' = Append(chain, Event(lsn)) \/ chain' = chain,
             UNCHANGED <<wire, call, lastWrittenLsn>>
      PROVE  Announced' /\ Behind' /\ Written' /\ DrainedToMark'
  <2>1. CASE chain' = chain
    BY <1>1, <1>3, <2>1, PipeStill DEF Calm, Draining
  <2>2. CASE chain' = Append(chain, Event(lsn))
    <3>1. /\ Len(chain)' = Len(chain) + 1 /\ chain'[Len(chain) + 1] = Event(lsn)
          /\ \A i \in 1..Len(chain) : chain'[i] = chain[i]
      BY <1>2, <2>2, ChainAppended
    <3>2. Event(lsn) # Drain /\ Event(lsn) # Keepalive
      BY TasksDiffer
    <3>3. Draining' \/ ~Draining
      BY <1>2, <3>1, <3>2 DEF Draining
    <3>4. \A i \in 1..Len(chain)' : chain'[i] = Keepalive =>
              \E j \in 1..Len(chain) : chain[j] = Keepalive
      BY <1>2, <3>1, <3>2
    <3> QED
      BY <1>1, <1>3, <3>3, <3>4, PipeStill DEF Calm
  <2> QED
    BY <1>3, <2>1, <2>2
<1>4. ASSUME WriteBacklog PROVE Announced' /\ Behind' /\ Written' /\ DrainedToMark'
  <2>1. /\ call = "open" /\ chain # <<>> /\ Head(chain) = Drain /\ call' = call
    BY <1>4 DEF WriteBacklog, Writable, UnchangedByWrite
  <2>2. CASE NextBatch = {}
    <3>1. chain' = Tail(chain) /\ UNCHANGED <<lastWrittenLsn, wire>>
      BY <1>4, <2>2 DEF WriteBacklog, NextBatch
    <3>2. lastWrittenLsn >= mark
      <4>1. \A n \in 1..Len(log) : n <= lastWrittenLsn \/ log[n] = "hole"
        BY <1>2, <2>1, <2>2, NextBatchFacts
      <4>2. lastWrittenLsn \in Nat /\ mark \in Nat \cup {-1}
        BY PipeShape DEF NoMark
      <4> QED
        BY <4>1, <4>2 DEF PipeOK, MarkIs
    <3> QED
      BY <1>1, <2>1, <3>1, <3>2, ChainDone, PipeStill DEF Calm
  <2>3. CASE NextBatch # {}
    <3>1. /\ wire' = Append(wire, Event(First(NextBatch)))
          /\ lastWrittenLsn' = First(NextBatch) /\ chain' = chain
      BY <1>4, <2>3 DEF WriteBacklog, NextBatch
    <3>2. First(NextBatch) \in Nat /\ lastWrittenLsn < First(NextBatch)
      <4>1. NextBatch \in SUBSET Nat /\ \A m \in NextBatch : lastWrittenLsn < m
        BY <1>2, <2>1, NextBatchFacts
      <4> QED
        BY <2>3, <4>1, FirstIs
    <3>3. IsEvent(Event(First(NextBatch))) /\ Event(First(NextBatch)).lsn = First(NextBatch)
      BY TasksDiffer
    <3>4. lastWrittenLsn' >= lastWrittenLsn
      BY <3>1, <3>2, PipeShape
    <3>5. Draining' \/ ~Draining
      BY <3>1 DEF Draining
    <3> QED
      BY <1>1, <2>1, <3>1, <3>3, <3>4, <3>5, PipeAppended, MessageStep
  <2> QED
    BY <2>2, <2>3
<1>5. ASSUME WriteEvent PROVE Announced' /\ Behind' /\ Written' /\ DrainedToMark'
  <2> DEFINE lsn == Head(chain).lsn
  <2>1. /\ call = "open" /\ chain # <<>> /\ IsEvent(Head(chain)) /\ chain' = Tail(chain)
        /\ call' = call
    BY <1>5 DEF WriteEvent, Writable, UnchangedByWrite, IsEvent
  <2>2. Head(chain) # Drain
    BY <2>1, TasksDiffer
  <2>3. ~Draining
    BY <1>2, <2>1, <2>2, Drained
  <2>4. lsn \in Nat /\ lastWrittenLsn \in Nat
    <3>1. Head(chain) \in Sendable \cup {Drain}
      BY <1>2, <2>1, ChainDone
    <3>2. lsn \in 1..Len(log)
      BY <1>2, <2>1, <3>1, TaskIs DEF LogOK
    <3> QED
      BY <3>2, PipeShape
  <2> HIDE DEF lsn
  <2>5. CASE lsn <= lastWrittenLsn
    <3>1. UNCHANGED <<wire, lastWrittenLsn>>
      BY <1>5, <2>5 DEF WriteEvent, AlreadyWritten, lsn
    <3> QED
      BY <1>1, <2>1, <2>3, <3>1, ChainDone, PipeStill DEF Calm
  <2>6. CASE ~(lsn <= lastWrittenLsn)
    <3>1. wire' = Append(wire, Event(lsn)) /\ lastWrittenLsn' = lsn
      BY <1>5, <2>6 DEF WriteEvent, AlreadyWritten, lsn
    <3>2. IsEvent(Event(lsn)) /\ Event(lsn).lsn = lsn
      BY TasksDiffer
    <3>3. lastWrittenLsn' >= lastWrittenLsn
      BY <2>4, <2>6, <3>1
    <3> QED
      BY <1>1, <2>1, <2>3, <3>1, <3>2, <3>3, ChainDone, PipeAppended, MessageStep
  <2> QED
    BY <2>5, <2>6
<1>6. ASSUME WriteKeepalive PROVE Announced' /\ Behind' /\ Written' /\ DrainedToMark'
  <2>1. /\ call = "open" /\ chain # <<>> /\ Head(chain) = Keepalive /\ chain' = Tail(chain)
        /\ call' = call /\ wire' = Append(wire, Keepalive) /\ lastWrittenLsn' = lastWrittenLsn
    BY <1>6 DEF WriteKeepalive, Writable, UnchangedByWrite
  <2>2. ~Draining
    BY <1>2, <2>1, Drained, TasksDiffer
  <2>3. \E j \in 1..Len(chain) : chain[j] = Keepalive
    BY <2>1, ChainDone
  <2> QED
    BY <1>1, <2>1, <2>2, <2>3, ChainDone, PipeAppended, MessageStep
<1>7. ASSUME Break \/ (CoordinatorStop /\ call = "open")
      PROVE  Announced' /\ Behind' /\ Written' /\ DrainedToMark'
  <2>1. /\ call' = "ended" /\ chain' = <<>>
        /\ wire' = <<Down>> \/ wire' = Append(wire, Down)
    BY <1>7 DEF Break, CoordinatorStop, Idle
  <2>2. Down # Keepalive
    BY TasksDiffer
  <2>3. CASE wire' = Append(wire, Down)
    <3>1. /\ Len(pipe)' = Len(pipe) + 1 /\ pipe'[Len(pipe) + 1] = Down
          /\ \A k \in 1..Len(pipe) : pipe'[k] = pipe[k]
      BY <1>1, <2>3, PipeAppended
    <3>2. Len(pipe) \in Nat
      BY PipeShape
    <3>3. ASSUME NEW k \in 1..Len(pipe)', pipe'[k] = Keepalive
          PROVE  k <= Len(pipe) /\ \A j \in 1..k : pipe'[j] = pipe[j]
      BY <2>2, <3>1, <3>2, <3>3
    <3> QED
      BY <1>1, <2>1, <3>3, CutStep
  <2>4. CASE wire' = <<Down>>
    <3>1. /\ Len(pipe)' = Len(applyChain) + 1 /\ Len(applyChain) \in Nat /\ Len(wire) \in Nat
          /\ \A k \in 1..Len(pipe)' :
                 pipe'[k] = IF k <= Len(applyChain) THEN applyChain[k]
                                                    ELSE wire'[k - Len(applyChain)]
      BY <1>1, <2>4, PipeShape, PipeShapeNext
    <3>2. /\ Len(pipe) = Len(applyChain) + Len(wire)
          /\ \A k \in 1..Len(pipe) :
                 pipe[k] = IF k <= Len(applyChain) THEN applyChain[k]
                                                   ELSE wire[k - Len(applyChain)]
      BY PipeShape
    <3>3. ASSUME NEW k \in 1..Len(pipe)', pipe'[k] = Keepalive
          PROVE  k <= Len(pipe) /\ \A j \in 1..k : pipe'[j] = pipe[j]
      <4>1. k <= Len(applyChain)
        <5>1. ASSUME k = Len(applyChain) + 1 PROVE FALSE
          <6>1. ~(k <= Len(applyChain)) /\ k - Len(applyChain) = 1
            BY <3>1, <5>1
          <6>2. pipe'[k] = wire'[1]
            BY <3>1, <6>1
          <6> QED
            BY <2>2, <2>4, <3>3, <6>2
        <5> QED
          BY <3>1, <5>1
      <4>2. \A j \in 1..k : j \in 1..Len(pipe) /\ j \in 1..Len(pipe)' /\ j <= Len(applyChain)
        BY <3>1, <3>2, <4>1
      <4> QED
        BY <3>1, <3>2, <4>1, <4>2
    <3> QED
      BY <1>1, <2>1, <3>3, CutStep
  <2> QED
    BY <2>1, <2>3, <2>4
<1>8. CASE UNCHANGED <<chain, wire, call, lastWrittenLsn>>
  BY <1>1, <1>8, PipeStill DEF Calm, Draining
<1> QED
  BY <1>3, <1>4, <1>5, <1>6, <1>7, <1>8
     DEF ServerStep, ServerNext, Publish, Broadcast, UnchangedButChain, PublishFails, WriteStep,
         ZombieCloses, Stall, Heal, CoordinatorStop, CoordinatorStart, stream

-----------------------------------------------------------------------------
(* The steps of the node.                                                  *)

\* What comes from the chain or from the stream is the first message of the pipe.
LEMMA HeadIs ==
    ASSUME IInv, IInv', NEW via \in {"chain", "stream"}, Comes(via), Take(via)
    PROVE  /\ Len(pipe) >= 1 /\ Incoming(via) = pipe[1]
           /\ Len(pipe)' = Len(pipe) - 1
           /\ \A k \in 1..(Len(pipe) - 1) : pipe'[k] = pipe[k + 1]
<1>1. /\ Len(applyChain) \in Nat /\ Len(wire) \in Nat
      /\ Len(pipe) = Len(applyChain) + Len(wire)
      /\ \A k \in 1..Len(pipe) :
             pipe[k] = IF k <= Len(applyChain) THEN applyChain[k]
                                               ELSE wire[k - Len(applyChain)]
  BY PipeShape
<1>2. /\ Len(pipe)' = Len(applyChain)' + Len(wire)'
      /\ \A k \in 1..Len(pipe') :
             pipe'[k] = IF k <= Len(applyChain') THEN applyChain'[k]
                                                 ELSE wire'[k - Len(applyChain')]
  BY PipeShapeNext
<1>3. applyChain \in Seq(Sendable) /\ wire \in Seq(Sendable)
  BY DEF IInv, Domains, ApplyChainType, StreamOK, StreamType, WireType
<1>4. CASE via = "chain"
  <2>1. /\ applyChain # <<>> /\ Incoming(via) = Head(applyChain)
        /\ applyChain' = Tail(applyChain) /\ wire' = wire
    BY <1>4 DEF Comes, Incoming, Source, Take
  <2>2. /\ Len(applyChain) >= 1 /\ Head(applyChain) = applyChain[1]
        /\ Len(applyChain)' = Len(applyChain) - 1
        /\ \A i \in 1..(Len(applyChain) - 1) : applyChain'[i] = applyChain[i + 1]
    BY <1>3, <2>1
  <2>3. Len(pipe) >= 1 /\ Incoming(via) = pipe[1] /\ Len(pipe)' = Len(pipe) - 1
    BY <1>1, <1>2, <2>1, <2>2
  <2>4. ASSUME NEW k \in 1..(Len(pipe) - 1) PROVE pipe'[k] = pipe[k + 1]
    <3>1. k \in 1..Len(pipe)' /\ k + 1 \in 1..Len(pipe)
      BY <1>1, <2>3, <2>4
    <3>2. CASE k <= Len(applyChain) - 1
      BY <1>1, <1>2, <2>2, <3>1, <3>2
    <3>3. CASE ~(k <= Len(applyChain) - 1)
      <4>1. /\ pipe'[k] = wire[k - (Len(applyChain) - 1)]
            /\ pipe[k + 1] = wire[(k + 1) - Len(applyChain)]
        <5>1. k \in 1..Len(pipe') /\ ~(k <= Len(applyChain'))
          BY <2>2, <3>1, <3>3
        <5>2. k + 1 \in 1..Len(pipe) /\ ~(k + 1 <= Len(applyChain))
          BY <1>1, <3>1, <3>3
        <5>3. pipe'[k] = wire'[k - Len(applyChain')]
          BY <1>2, <5>1
        <5>4. pipe[k + 1] = wire[(k + 1) - Len(applyChain)]
          BY <1>1, <5>2
        <5> QED
          BY <2>1, <2>2, <5>3, <5>4
      <4>2. k - (Len(applyChain) - 1) = (k + 1) - Len(applyChain)
        BY <1>1, <3>1
      <4> QED
        BY <4>1, <4>2
    <3> QED
      BY <3>2, <3>3
  <2> QED
    BY <2>3, <2>4
<1>5. CASE via = "stream"
  <2>1. /\ applyChain = <<>> /\ wire # <<>> /\ Incoming(via) = Head(wire)
        /\ applyChain' = applyChain /\ wire' = Tail(wire)
    BY <1>5 DEF Comes, Incoming, Source, Take
  <2>2. /\ Len(wire) >= 1 /\ Head(wire) = wire[1] /\ Len(wire)' = Len(wire) - 1
        /\ \A i \in 1..(Len(wire) - 1) : wire'[i] = wire[i + 1]
        /\ Len(applyChain) = 0 /\ Len(applyChain)' = 0
    BY <1>3, <2>1
  <2>3. /\ Len(pipe) = Len(wire) /\ Len(pipe)' = Len(wire) - 1
        /\ \A k \in 1..Len(wire) : pipe[k] = wire[k]
        /\ \A k \in 1..(Len(wire) - 1) : pipe'[k] = wire'[k]
    BY <1>1, <1>2, <2>2
  <2> QED
    BY <1>1, <2>1, <2>2, <2>3
<1> QED
  BY <1>4, <1>5

\* What is polled is an event, or none at all.
LEMMA PolledIs ==
    ASSUME Comes("poll")
    PROVE  call = "none" /\ Incoming("poll") # Keepalive
<1>1. /\ Source("poll") = IF Degraded /\ up THEN PollDeltas ELSE <<>>
      /\ Source("poll") # <<>>
  BY DEF Source, Comes
<1>2. Degraded /\ Source("poll") = PollDeltas
  BY <1>1
<1>3. PollDeltas \in {<<>>, <<Resnapshot>>, <<Event(First(ReadSince(lastAppliedLsn, 1)))>>}
  BY DEF PollDeltas
<1>4. \/ Incoming("poll") = Resnapshot
      \/ Incoming("poll") = Event(First(ReadSince(lastAppliedLsn, 1)))
  BY <1>1, <1>2, <1>3 DEF Incoming
<1> QED
  BY <1>2, <1>4, TasksDiffer DEF Degraded, Streaming

\* A message that is taken is applied, or the gate opens.
LEMMA TakeStep ==
    ASSUME IInv, IInv', PipeOK, NEW via \in Sources, Comes(via), Take(via), Gains,
           IsEvent(Incoming(via)) => \E n \in Nat : Incoming(via).lsn = n /\ Got(n)',
           \/ UNCHANGED <<mark, catchingUp>>
           \/ Incoming(via) = Keepalive /\ mark' = NoMark /\ ~catchingUp'
    PROVE  Announced' /\ Behind' /\ Written' /\ DrainedToMark'
<1>1. UNCHANGED <<chain, call, lastWrittenLsn>>
  BY DEF Take
<1>2. CASE via \in {"chain", "stream"}
  BY <1>1, <1>2, HeadIs, HeadStep
<1>3. CASE via = "poll"
  <2>1. Calm
    BY <1>1, <1>3, PolledIs DEF Calm
  <2>2. Len(pipe)' = Len(pipe) /\ \A k \in 1..Len(pipe) : pipe'[k] = pipe[k]
    BY <1>3 DEF Take, pipe
  <2>3. Draining' \/ ~Draining
    BY <1>1 DEF Draining
  <2> QED
    BY <1>1, <2>1, <2>2, <2>3, StillStep
<1> QED
  BY <1>2, <1>3 DEF Sources

\* Where there is no stream nothing is on its way, except in the chain of the engine.
LEMMA NoStream ==
    ASSUME IInv, call = "none"
    PROVE  chain = <<>> /\ wire = <<>>
BY DEF IInv, StreamOK

\* An engine that quits leaves nothing.
LEMMA QuitStep ==
    ASSUME IInv, NEW how, Quit(how)
    PROVE  Announced' /\ Behind' /\ Written' /\ DrainedToMark'
<1>1. applyChain' = <<>> /\ wire' = <<>> /\ chain' = <<>> /\ call' = "none"
  BY NoStream DEF Quit, Streaming, Drop, Idle, stream
<1>2. Len(pipe)' = 0 /\ Len(chain)' = 0
  BY <1>1 DEF pipe
<1> QED
  BY <1>1, <1>2, EmptyStep

\* Where an engine starts there was nothing.
LEMMA StartStepPipe ==
    ASSUME IInv, engine # "running", applyChain' = <<>>, UNCHANGED stream
    PROVE  Announced' /\ Behind' /\ Written' /\ DrainedToMark'
<1>1. wire' = <<>> /\ chain' = <<>> /\ call' = "none"
  BY NoStream DEF IInv, Applied, Detached, stream
<1>2. Len(pipe)' = 0 /\ Len(chain)' = 0
  BY <1>1 DEF pipe
<1> QED
  BY <1>1, <1>2, EmptyStep

\* The stream goes down: what waits in the engine stays.
LEMMA DropPipe ==
    ASSUME IInv, IInv', PipeOK, Drop, UNCHANGED <<coordinator, syncEngine, node>>
    PROVE  Announced' /\ Behind' /\ Written' /\ DrainedToMark'
<1>1. /\ wire' = <<>> /\ chain' = <<>> /\ call' = "none"
      /\ UNCHANGED <<mark, catchingUp, applyChain, lastAppliedLsn, rotating>>
  BY DEF Drop, Idle, syncEngine, node, gate
<1>2. /\ Len(applyChain) \in Nat /\ Len(wire) \in Nat
      /\ Len(pipe) = Len(applyChain) + Len(wire)
      /\ \A k \in 1..Len(pipe) :
             pipe[k] = IF k <= Len(applyChain) THEN applyChain[k]
                                               ELSE wire[k - Len(applyChain)]
  BY PipeShape
<1>3. /\ Len(pipe)' = Len(applyChain)
      /\ \A k \in 1..Len(pipe)' :
             pipe'[k] = IF k <= Len(applyChain) THEN applyChain[k]
                                                ELSE wire'[k - Len(applyChain)]
  BY <1>1, <1>2, PipeShapeNext
<1>4. ASSUME NEW k \in 1..Len(pipe)'
      PROVE  k <= Len(pipe) /\ \A j \in 1..k : pipe'[j] = pipe[j]
  <2>1. \A j \in 1..k : j \in 1..Len(pipe) /\ j \in 1..Len(pipe)' /\ j <= Len(applyChain)
    BY <1>2, <1>3
  <2> QED
    BY <1>2, <1>3, <2>1
<1>5. Len(chain)' = 0
  BY <1>1
<1> QED
  BY <1>1, <1>4, <1>5, CutStep

\* A message goes from the stream to the chain of the engine.
LEMMA ArrivePipe ==
    ASSUME IInv, IInv', PipeOK, Arrive, UNCHANGED node
    PROVE  Announced' /\ Behind' /\ Written' /\ DrainedToMark'
<1>1. /\ wire # <<>> /\ wire' = Tail(wire) /\ applyChain' = Append(applyChain, Head(wire))
      /\ UNCHANGED <<mark, catchingUp, call, chain, lastWrittenLsn, lastAppliedLsn, rotating>>
  BY DEF Arrive, node, gate
<1>2. applyChain \in Seq(Sendable) /\ wire \in Seq(Sendable)
  BY DEF IInv, Domains, ApplyChainType, StreamOK, StreamType, WireType
<1>3. /\ Len(wire) >= 1 /\ Head(wire) = wire[1] /\ Len(wire)' = Len(wire) - 1
      /\ \A i \in 1..(Len(wire) - 1) : wire'[i] = wire[i + 1]
      /\ Len(applyChain)' = Len(applyChain) + 1
      /\ \A i \in 1..Len(applyChain) : applyChain'[i] = applyChain[i]
      /\ applyChain'[Len(applyChain) + 1] = wire[1]
  BY <1>1, <1>2
<1>4. /\ Len(applyChain) \in Nat /\ Len(wire) \in Nat
      /\ Len(pipe) = Len(applyChain) + Len(wire)
      /\ \A k \in 1..Len(pipe) :
             pipe[k] = IF k <= Len(applyChain) THEN applyChain[k]
                                               ELSE wire[k - Len(applyChain)]
  BY PipeShape
<1>5. /\ Len(pipe)' = Len(applyChain)' + Len(wire)'
      /\ \A k \in 1..Len(pipe') :
             pipe'[k] = IF k <= Len(applyChain') THEN applyChain'[k]
                                                 ELSE wire'[k - Len(applyChain')]
  BY PipeShapeNext
<1>6. Len(pipe)' = Len(pipe)
  BY <1>3, <1>4, <1>5
<1>7. ASSUME NEW k \in 1..Len(pipe) PROVE pipe'[k] = pipe[k]
  <2>1. CASE k <= Len(applyChain)
    <3>1. k \in 1..Len(pipe') /\ k <= Len(applyChain') /\ k \in 1..Len(applyChain)
      BY <1>3, <1>4, <1>6, <2>1
    <3>2. pipe'[k] = applyChain'[k]
      BY <1>5, <3>1
    <3>3. pipe[k] = applyChain[k]
      BY <1>4, <2>1
    <3> QED
      BY <1>3, <3>1, <3>2, <3>3
  <2>2. CASE k = Len(applyChain) + 1
    <3>1. pipe'[k] = wire[1]
      BY <1>3, <1>4, <1>5, <1>6, <2>2
    <3>2. ~(k <= Len(applyChain)) /\ k - Len(applyChain) = 1
      BY <1>4, <2>2
    <3> QED
      BY <1>4, <3>1, <3>2
  <2>3. CASE k > Len(applyChain) + 1
    <3>1. /\ k - (Len(applyChain) + 1) \in 1..(Len(wire) - 1)
          /\ (k - (Len(applyChain) + 1)) + 1 = k - Len(applyChain)
      BY <1>4, <2>3
    <3>2. pipe'[k] = wire'[k - (Len(applyChain) + 1)]
      BY <1>3, <1>4, <1>5, <1>6, <2>3
    <3>3. pipe[k] = wire[k - Len(applyChain)]
      BY <1>4, <2>3
    <3> QED
      BY <1>3, <3>1, <3>2, <3>3
  <2> QED
    BY <1>4, <2>1, <2>2, <2>3
<1>8. Gains /\ Calm /\ (Draining' <=> Draining)
  BY <1>1 DEF Gains, Got, Calm, Draining
<1> QED
  BY <1>1, <1>6, <1>7, <1>8, StillStep

\* A stream is asked for: it starts at the position of the engine.
LEMMA SubscribePipe ==
    ASSUME IInv, IInv', PipeOK, NodeSubscribe
    PROVE  Announced' /\ Behind' /\ Written' /\ DrainedToMark'
<1>1. /\ call = "none" /\ Subscribe(lastAppliedLsn)
      /\ UNCHANGED <<log, applyChain, lastAppliedLsn, rotating, catchingUp>>
      /\ mark' = IF catchingUp /\ mark = NoMark /\ call' = "open" THEN LastEvent ELSE mark
  BY DEF NodeSubscribe, TrySubscribe, Degraded, Streaming, coordinator, syncEngine
<1>2. wire = <<>> /\ chain = <<>>
  BY <1>1, NoStream
<1>3. /\ Len(applyChain) \in Nat /\ Len(pipe) = Len(applyChain)
      /\ \A k \in 1..Len(pipe) : pipe[k] = applyChain[k]
  BY <1>2, PipeShape
<1>4. CASE Ended(<<Resnapshot, Down>>)
  <2>1. /\ call' = "ended" /\ chain' = <<>> /\ wire' = <<Resnapshot, Down>> /\ mark' = mark
    BY <1>1, <1>4 DEF Ended, Idle
  <2>2. /\ Len(wire)' = 2 /\ wire'[1] # Keepalive /\ wire'[2] # Keepalive /\ Len(chain)' = 0
    BY <2>1, TasksDiffer
  <2>3. /\ Len(pipe)' = Len(applyChain) + 2
        /\ \A k \in 1..Len(pipe)' :
               pipe'[k] = IF k <= Len(applyChain) THEN applyChain[k]
                                                  ELSE wire'[k - Len(applyChain)]
    BY <1>1, <2>2, PipeShapeNext
  <2>4. ASSUME NEW k \in 1..Len(pipe)', pipe'[k] = Keepalive
        PROVE  k <= Len(pipe) /\ \A j \in 1..k : pipe'[j] = pipe[j]
    <3>1. k <= Len(applyChain)
      <4>1. ASSUME k = Len(applyChain) + 1 PROVE FALSE
        <5>1. ~(k <= Len(applyChain)) /\ k - Len(applyChain) = 1
          BY <1>3, <4>1
        <5> QED
          BY <2>2, <2>3, <2>4, <5>1
      <4>2. ASSUME k = Len(applyChain) + 2 PROVE FALSE
        <5>1. ~(k <= Len(applyChain)) /\ k - Len(applyChain) = 2
          BY <1>3, <4>2
        <5> QED
          BY <2>2, <2>3, <2>4, <5>1
      <4> QED
        BY <1>3, <2>3, <4>1, <4>2
    <3>2. \A j \in 1..k : j \in 1..Len(pipe) /\ j \in 1..Len(pipe)' /\ j <= Len(applyChain)
      BY <1>3, <2>3, <3>1
    <3> QED
      BY <1>3, <2>3, <3>1, <3>2
  <2> QED
    BY <1>1, <2>1, <2>2, <2>4, CutStep
<1>5. CASE ~Ended(<<Resnapshot, Down>>)
  <2>1. /\ call' = "open" /\ chain' = <<Drain, Keepalive>> /\ wire' = <<>>
        /\ lastWrittenLsn' = lastAppliedLsn
    BY <1>1, <1>5 DEF Subscribe, Backlog
  <2>2. Draining'
    BY <2>1 DEF Draining
  <2>3. /\ Len(pipe)' = Len(pipe)
        /\ \A k \in 1..Len(pipe) : pipe'[k] = pipe[k]
    BY <1>1, <1>2, <2>1 DEF pipe
  <2>4. lastAppliedLsn \in Nat /\ LastEvent \in Nat
    <3>1. LogType
      BY DEF IInv, LogOK
    <3> QED
      BY <3>1, LastEventIs, PipeShape
  <2>5. Announced'
    <3>1. catchingUp => mark' # NoMark
      BY <1>1, <2>1, <2>4 DEF NoMark
    <3> QED
      BY <1>1, <3>1 DEF Announced
  <2>6. Behind'
    <3>1. ASSUME NEW k \in 1..Len(pipe), pipe[k] = Keepalive
          PROVE  Ahead(mark, k) /\ mark' = mark
      <4>1. Ahead(mark, k) /\ (catchingUp => mark # NoMark)
        BY <3>1 DEF PipeOK, Behind, Announced, HasKeepalive
      <4> QED
        BY <1>1, <4>1
    <3>2. ASSUME NEW k \in 1..Len(pipe), Ahead(mark, k), mark' = mark PROVE Ahead(mark, k)'
      BY <1>1, <2>3, <3>2 DEF Ahead, Got, IsEvent
    <3> QED
      BY <2>3, <3>1, <3>2 DEF Behind
  <2>7. Written'
    BY <1>1, <2>1, <2>4 DEF Written, Ahead, Got
  <2> QED
    BY <2>2, <2>5, <2>6, <2>7 DEF DrainedToMark
<1> QED
  BY <1>4, <1>5

\* The steps of the node keep the order of the pipe.
LEMMA NodePipe ==
    ASSUME IInv, IInv', PipeOK, NextIs
    PROVE  Announced' /\ Behind' /\ Written' /\ DrainedToMark'
<1>1. /\ LogOK /\ StreamOK /\ Domains /\ Applied /\ Lifecycle
      /\ {lastAppliedLsn, rotating} \subseteq Nat /\ mark \in Nat \cup {NoMark}
  BY PipeShape DEF IInv
<1>2. ASSUME NEW via \in Sources, StartRotation(via), UNCHANGED node
      PROVE  Announced' /\ Behind' /\ Written' /\ DrainedToMark'
  <2>1. /\ Comes(via) /\ Take(via) /\ Due(Incoming(via), "rotate")
        /\ rotating' = Incoming(via).lsn /\ lastAppliedLsn' = lastAppliedLsn
        /\ UNCHANGED <<mark, catchingUp>>
    BY <1>2 DEF StartRotation, node, gate
  <2>2. rotating = 0 /\ Incoming(via) \in Sendable
    BY <1>1, <2>1, IncomingIs
  <2>3. Gains
    BY <1>1, <2>1, <2>2 DEF Gains, Got
  <2>4. \E n \in Nat : Incoming(via).lsn = n /\ Got(n)'
    BY <2>1, PipeShapeNext DEF Got
  <2> QED
    BY <2>1, <2>3, <2>4, TakeStep
<1>3. ASSUME NEW via \in Sources, NodeApplyEntry(via)
      PROVE  Announced' /\ Behind' /\ Written' /\ DrainedToMark'
  <2>1. /\ Comes(via) /\ Take(via) /\ Due(Incoming(via), "entry")
        /\ lastAppliedLsn' = Incoming(via).lsn /\ rotating' = rotating
        /\ UNCHANGED <<mark, catchingUp>>
    BY <1>3 DEF NodeApplyEntry, ApplyEntry, gate
  <2>2. Incoming(via) \in Sendable
    BY <1>1, <2>1, IncomingIs
  <2>3. lastAppliedLsn' = lastAppliedLsn + 1
    BY <1>1, <2>1, <2>2, DueIs
  <2>4. Gains
    BY <1>1, <2>1, <2>3 DEF Gains, Got
  <2>5. \E n \in Nat : Incoming(via).lsn = n /\ Got(n)'
    BY <2>1, PipeShapeNext DEF Got
  <2> QED
    BY <2>1, <2>4, <2>5, TakeStep
<1>4. ASSUME NEW via \in Sources, NodeApplyNothing(via)
      PROVE  Announced' /\ Behind' /\ Written' /\ DrainedToMark'
  <2>1. /\ Comes(via) /\ Take(via) /\ UNCHANGED <<rotating, lastAppliedLsn>>
        /\ Incoming(via) = Keepalive \/ Redelivered(Incoming(via))
        /\ IF Incoming(via) = Keepalive THEN catchingUp' = FALSE /\ mark' = NoMark
                                        ELSE UNCHANGED <<mark, catchingUp>>
    BY <1>4 DEF NodeApplyNothing, ApplyNothing, gate
  <2>2. Incoming(via) \in Sendable
    BY <1>1, <2>1, IncomingIs
  <2>3. Gains
    BY <2>1 DEF Gains, Got
  <2>4. IsEvent(Incoming(via)) => \E n \in Nat : Incoming(via).lsn = n /\ Got(n)'
    <3>1. ASSUME IsEvent(Incoming(via))
          PROVE  Incoming(via).lsn \in Nat /\ Incoming(via).lsn <= lastAppliedLsn
      <4>1. Incoming(via).lsn \in 1..Len(log) /\ LogType
        BY <1>1, <2>2, <3>1, TaskIs DEF LogOK
      <4> QED
        BY <2>1, <3>1, <4>1, TasksDiffer, LogShape DEF Redelivered
    <3> QED
      BY <2>1, <3>1 DEF Got
  <2> QED
    BY <2>1, <2>3, <2>4, TakeStep
<1>5. ASSUME NEW via \in Sources, NodeFireUnsaved(via)
      PROVE  Announced' /\ Behind' /\ Written' /\ DrainedToMark'
  BY <1>5, QuitStep DEF NodeFireUnsaved, FireUnsaved, Fire
<1>6. CASE \/ NodeFire \/ NodeFireUnsavedRotation \/ SnapshotArrives \/ StaleEnds
           \/ Halt \/ Shutdown
  BY <1>6, QuitStep
     DEF StaleEnds, NodeFire, FireAnomaly, FireUnapplied, FireUnrotated, Fire,
         NodeFireUnsavedRotation, SnapshotArrives, StopEngine, Halt, NoEngine, Shutdown
<1>7. CASE NodeFinishRotation
  <2>1. /\ rotating # 0 /\ rotating' = 0 /\ lastAppliedLsn' = rotating
        /\ UNCHANGED <<wire, applyChain, chain, call, lastWrittenLsn, mark, catchingUp>>
    BY <1>7 DEF NodeFinishRotation, FinishRotation, stream, gate
  <2>2. rotating = lastAppliedLsn + 1
    BY <1>1, <2>1 DEF Applied, RotatesNext
  <2>3. Gains
    BY <1>1, <2>1, <2>2 DEF Gains, Got
  <2>4. Calm /\ (Draining' <=> Draining)
    BY <2>1 DEF Calm, Draining
  <2>5. Len(pipe)' = Len(pipe) /\ \A k \in 1..Len(pipe) : pipe'[k] = pipe[k]
    BY <2>1 DEF pipe
  <2> QED
    BY <2>1, <2>3, <2>4, <2>5, StillStep
<1>8. CASE Install \/ InstallFails
  <2>1. engine # "running"
    BY <1>1, <1>8 DEF Install, InstallFails, Installs, Lifecycle
  <2>2. applyChain' = <<>> /\ UNCHANGED stream
    BY <1>1, <1>8, <2>1 DEF Install, InstallFails, StartEngine, Applied, Detached
  <2> QED
    BY <2>1, <2>2, StartStepPipe
<1>9. CASE Resume
  <2>1. engine # "running" /\ applyChain' = <<>> /\ UNCHANGED stream
    BY <1>1, <1>9 DEF Resume, StartEngine, Lifecycle
  <2> QED
    BY <2>1, StartStepPipe
<1>10. CASE \/ Backup \/ SelfRotate \/ StraySave \/ AskSnapshot \/ SnapshotFails \/ Bootstrap
            \/ UNCHANGED vars
  <2>1. UNCHANGED <<stream, syncEngine, gate>>
    BY <1>10 DEF Backup, SelfRotate, StraySave, AskSnapshot, SnapshotFails, Bootstrap, vars, node
  <2>2. /\ UNCHANGED <<wire, applyChain, lastAppliedLsn, rotating, chain>> /\ Calm
        /\ (Draining' <=> Draining)
    BY <2>1 DEF stream, syncEngine, gate, Calm, Draining
  <2> QED
    BY <2>2, PipeStill
<1>11. CASE WatchdogStep \/ (StreamEnds /\ UNCHANGED node)
  BY <1>11, DropPipe DEF WatchdogStep, Watchdog, StreamEnds, StreamDown
<1> QED
  BY <1>2, <1>3, <1>4, <1>5, <1>6, <1>7, <1>8, <1>9, <1>10, <1>11, ServerPipe, SubscribePipe,
     ArrivePipe
     DEF NextIs

\* The mark is an event of the log.
LEMMA MarkStep ==
    ASSUME IInv, IInv', MarkIs, Grows, NextIs
    PROVE  MarkIs'
<1>1. Len(log) \in Nat /\ Len(log)' \in Nat /\ LogType /\ mark \in Nat \cup {NoMark}
  BY PipeShape, PipeShapeNext DEF IInv, LogOK
<1>2. CASE mark' = mark \/ mark' = NoMark
  BY <1>1, <1>2 DEF MarkIs, Grows, NoMark
<1>3. CASE NodeSubscribe
  <2>1. mark' = LastEvent \/ mark' = mark
    BY <1>3 DEF NodeSubscribe
  <2>2. LastEvent \in 0..Len(log) /\ (LastEvent > 0 => log[LastEvent] # "hole")
    BY <1>1, LastEventIs
  <2>3. CASE mark' = LastEvent
    BY <1>1, <2>2, <2>3 DEF MarkIs, Grows
  <2> QED
    BY <1>2, <2>1, <2>3
<1>4. NodeSubscribe \/ mark' \in {mark, NoMark}
  BY DEF NextIs, ServerStep, WatchdogStep, NodeApplyNothing, NodeApplyEntry, NodeFireUnsaved,
         NodeFinishRotation, NodeFire, NodeFireUnsavedRotation, Backup, SelfRotate, AskSnapshot,
         SnapshotFails, SnapshotArrives, Install, InstallFails, StraySave, StaleEnds, Halt,
         Resume, Bootstrap, Shutdown, vars, node, gate
<1> QED
  BY <1>2, <1>3, <1>4

\* Every step keeps it.
LEMMA PipeStep ==
    ASSUME IInv, PipeOK, [Next]_vars
    PROVE  PipeOK'
<1>1. IInv' /\ Grows /\ NextIs
  BY StepIs, StepOK
<1>2. Announced' /\ Behind' /\ Written' /\ DrainedToMark'
  BY <1>1, NodePipe
<1>3. MarkIs'
  BY <1>1, MarkStep DEF PipeOK
<1> QED
  BY <1>2, <1>3 DEF PipeOK

\* In the beginning there is nothing on its way.
LEMMA PipeInit ==
    ASSUME Init
    PROVE  PipeOK
<1>1. applyChain = <<>> /\ wire = <<>> /\ chain = <<>> /\ call = "none" /\ mark = NoMark
  BY DEF Init, ServerInit, SyncInit
<1>2. Len(pipe) = 0 /\ Len(chain) = 0
  BY <1>1 DEF pipe
<1> QED
  BY <1>1, <1>2
     DEF PipeOK, Announced, HasKeepalive, Behind, Written, DrainedToMark, MarkIs, NoMark

\* What comes before a keepalive is all up to the mark, in every state.
THEOREM PipeHolds == Spec => [](IInv /\ PipeOK)
<1>1. Init => IInv /\ PipeOK
  BY InitOK, PipeInit
<1>2. IInv /\ PipeOK /\ [Next]_vars => (IInv /\ PipeOK)'
  BY StepOK, PipeStep
<1> QED
  BY <1>1, <1>2, PTL DEF Spec

-----------------------------------------------------------------------------
(* The refinement.                                                         *)

\* A node that runs, for the abstract specification.
Alive == status \in {"up", "closing"}

\* What the abstract specification does not see.
LEMMA StutterStep ==
    ASSUME UNCHANGED <<log, mark>>, state'.lsn = state.lsn, Alive' <=> Alive,
           Serving' <=> Serving
    PROVE  UNCHANGED RL!vars
<1>1. Serving' = Serving /\ (status \in {"up", "closing"})' = (status \in {"up", "closing"})
  BY DEF Serving, Alive
<1> QED
  BY <1>1 DEF RL!vars

\* What an opened gate has waited for is applied.
LEMMA KeepaliveIs ==
    ASSUME IInv, IInv', PipeOK, catchingUp, NEW via \in Sources, Comes(via), Take(via),
           Incoming(via) = Keepalive
    PROVE  mark # NoMark /\ mark <= state.lsn
<1>1. via \in {"chain", "stream"}
  BY PolledIs DEF Sources
<1>2. Len(pipe) >= 1 /\ Len(pipe) \in Nat /\ pipe[1] = Keepalive
  BY <1>1, HeadIs, PipeShape
<1>3. HasKeepalive
  BY <1>2 DEF HasKeepalive
<1>4. mark # NoMark /\ Ahead(mark, 1)
  BY <1>2, <1>3 DEF PipeOK, Announced, Behind
<1>5. Got(mark)
  BY <1>2, <1>4 DEF Ahead
<1>6. rotating = 0 /\ lastAppliedLsn = state.lsn
  BY DEF IInv, Applied, AtState, Past, Overwritten, Comes
<1>7. lastAppliedLsn \in Nat /\ mark \in Nat
  BY <1>4, PipeShape
<1> QED
  BY <1>4, <1>5, <1>6, <1>7 DEF Got

\* A step of the server appends to the log, or is not seen.
LEMMA ServerRefines ==
    ASSUME IInv, ServerStep
    PROVE  RL!Next \/ UNCHANGED RL!vars
<1>1. UNCHANGED <<mark, state, status, catchingUp>>
  BY DEF ServerStep, node, gate
<1>2. log' = log \/ \E kind \in Kinds : log' = Append(log, kind)
  BY LogStep DEF IInv, ServerStep, StreamNext
<1>3. CASE log' = log
  BY <1>1, <1>3, StutterStep DEF Alive, Serving
<1>4. CASE \E kind \in Kinds : log' = Append(log, kind)
  <2>1. RL!Publish
    BY <1>1, <1>4 DEF RL!Publish, RL!Kinds, Kinds, Serving
  <2> QED
    BY <2>1 DEF RL!Next
<1> QED
  BY <1>2, <1>3, <1>4

\* The first stream behind a closed gate sets the mark.
LEMMA SubscribeRefines ==
    ASSUME IInv, NodeSubscribe
    PROVE  RL!Next \/ UNCHANGED RL!vars
<1>1. /\ UNCHANGED <<log, state, status, catchingUp>> /\ engine = "running"
      /\ mark' = IF catchingUp /\ mark = NoMark /\ call' = "open" THEN LastEvent ELSE mark
  BY DEF NodeSubscribe, TrySubscribe, Degraded, coordinator
<1>2. CASE catchingUp /\ mark = NoMark /\ mark' = LastEvent
  <2>1. Alive /\ ~Serving
    BY <1>1, <1>2 DEF IInv, Lifecycle, Alive, Serving
  <2>2. RL!LastEvent = LastEvent /\ RL!NoMark = NoMark
    BY DEF RL!LastEvent, LastEvent, RL!NoMark, NoMark
  <2>3. RL!Attach
    BY <1>1, <1>2, <2>1, <2>2 DEF RL!Attach, Alive, Serving
  <2> QED
    BY <2>3 DEF RL!Next
<1>3. CASE mark' = mark
  BY <1>1, <1>3, StutterStep DEF Alive, Serving
<1> QED
  BY <1>1, <1>2, <1>3

\* A keepalive opens the gate.
LEMMA NothingRefines ==
    ASSUME IInv, IInv', PipeOK, NEW via \in Sources, NodeApplyNothing(via)
    PROVE  RL!Next \/ UNCHANGED RL!vars
<1>1. /\ Comes(via) /\ Take(via) /\ UNCHANGED <<log, state, status>>
      /\ IF Incoming(via) = Keepalive THEN catchingUp' = FALSE /\ mark' = NoMark
                                      ELSE UNCHANGED <<mark, catchingUp>>
  BY DEF NodeApplyNothing, ApplyNothing, Take, gate, coordinator
<1>2. CASE UNCHANGED <<mark, catchingUp>>
  BY <1>1, <1>2, StutterStep DEF Alive, Serving
<1>3. CASE Incoming(via) = Keepalive /\ ~catchingUp
  <2>1. mark = NoMark /\ catchingUp' = FALSE /\ mark' = NoMark
    BY <1>1, <1>3 DEF IInv, Lifecycle
  <2> QED
    BY <1>1, <1>3, <2>1, StutterStep DEF Alive, Serving
<1>4. CASE Incoming(via) = Keepalive /\ catchingUp
  <2>1. mark # NoMark /\ mark <= state.lsn
    BY <1>1, <1>4, KeepaliveIs
  <2>2. Alive /\ catchingUp' = FALSE /\ mark' = NoMark
    BY <1>1, <1>4 DEF IInv, Lifecycle, Alive, Comes
  <2>3. CASE status = "up"
    <3>1. RL!Open
      BY <1>1, <2>1, <2>2, <2>3 DEF RL!Open, RL!NoMark, NoMark, Serving
    <3> QED
      BY <3>1 DEF RL!Next
  <2>4. CASE status # "up"
    <3>1. RL!Close
      BY <1>1, <2>2, <2>4 DEF RL!Close, RL!NoMark, NoMark, Serving
    <3> QED
      BY <3>1 DEF RL!Next
  <2> QED
    BY <2>3, <2>4
<1> QED
  BY <1>1, <1>2, <1>3, <1>4

\* An event is applied.
LEMMA AppliedRefines ==
    ASSUME IInv, IInv',
           NodeFinishRotation \/ \E via \in Sources : NodeApplyEntry(via)
    PROVE  RL!Next \/ UNCHANGED RL!vars
<1>1. /\ LogOK /\ StreamOK /\ Domains /\ Applied /\ LogType
      /\ state \in [lsn : 0..Len(log), generation : 0..Len(log), dirty : BOOLEAN]
  BY DEF IInv, Domains, LogOK
<1>2. Len(log) \in Nat /\ DOMAIN log = 1..Len(log) /\ state.lsn \in Nat
  BY <1>1, LogShape
<1>3. ASSUME NEW via \in Sources, NodeApplyEntry(via)
      PROVE  /\ UNCHANGED <<log, mark, status, catchingUp>> /\ state'.lsn = state.lsn + 1
             /\ state.lsn + 1 \in 1..Len(log) /\ log[state.lsn + 1] # "hole"
  <2>1. /\ Comes(via) /\ Due(Incoming(via), "entry") /\ lastAppliedLsn' = Incoming(via).lsn
        /\ state' = [state EXCEPT !.lsn = lastAppliedLsn', !.generation = generation]
        /\ UNCHANGED <<log, mark, status, catchingUp>>
    BY <1>3 DEF NodeApplyEntry, ApplyEntry, Take, gate, coordinator
  <2>2. Incoming(via) \in Sendable /\ lastAppliedLsn = state.lsn
    BY <1>1, <2>1, IncomingIs DEF Applied, AtState, Past, Overwritten
  <2>3. /\ Incoming(via).lsn = state.lsn + 1 /\ Incoming(via).lsn \in 1..Len(log)
        /\ log[Incoming(via).lsn] = "entry"
    BY <1>1, <2>1, <2>2, DueIs
  <2>4. state'.lsn = lastAppliedLsn'
    BY <1>1, <2>1
  <2> QED
    BY <2>1, <2>3, <2>4
<1>4. ASSUME NodeFinishRotation, Past
      PROVE  /\ UNCHANGED <<log, mark, status, catchingUp>> /\ state'.lsn = state.lsn + 1
             /\ state.lsn + 1 \in 1..Len(log) /\ log[state.lsn + 1] # "hole"
  <2>1. /\ rotating # 0 /\ lastAppliedLsn' = rotating
        /\ state' = [state EXCEPT !.lsn = lastAppliedLsn', !.generation = generation']
        /\ UNCHANGED <<log, mark, status, catchingUp>>
    BY <1>4 DEF NodeFinishRotation, FinishRotation, gate, coordinator
  <2>2. /\ lastAppliedLsn = state.lsn /\ rotating = lastAppliedLsn + 1
        /\ log[rotating] = "rotate" /\ rotating \in 0..Len(log)
    BY <1>1, <1>4, <2>1 DEF Applied, Past, RotatesNext, Domains
  <2>3. state'.lsn = lastAppliedLsn'
    BY <1>1, <2>1
  <2> QED
    BY <1>2, <2>1, <2>2, <2>3
<1>5. ASSUME NodeFinishRotation, ~Past PROVE RL!Install
  <2>1. /\ rotating # 0 /\ lastAppliedLsn' = rotating
        /\ state' = [state EXCEPT !.lsn = lastAppliedLsn', !.generation = generation']
        /\ UNCHANGED <<log, mark, status, catchingUp>>
    BY <1>5 DEF NodeFinishRotation, FinishRotation, gate, coordinator
  <2>2. /\ status = "closing" /\ mark = NoMark
        /\ log[rotating] = "rotate" /\ rotating \in 1..Len(log)
    BY <1>1, <1>2, <1>5, <2>1 DEF Applied, AtState, Overwritten, RotatesNext, Domains
  <2>3. state'.lsn = rotating
    BY <1>1, <2>1
  <2> QED
    BY <1>2, <2>1, <2>2, <2>3 DEF RL!Install, RL!Points, RL!NoMark, NoMark, Serving
<1>6. CASE NodeFinishRotation /\ ~Past
  BY <1>5, <1>6 DEF RL!Next
<1>7. CASE ~NodeFinishRotation \/ Past
  <2>1. /\ UNCHANGED <<log, mark, status, catchingUp>> /\ state'.lsn = state.lsn + 1
        /\ state.lsn + 1 \in 1..Len(log) /\ log[state.lsn + 1] # "hole"
    BY <1>3, <1>4, <1>7
  <2>2. RL!Apply
    BY <1>2, <2>1 DEF RL!Apply, Serving
  <2> QED
    BY <2>2 DEF RL!Next
<1> QED
  BY <1>6, <1>7

\* A snapshot closes the gate, and is installed behind it.
LEMMA SnapshotRefines ==
    ASSUME IInv, SnapshotArrives \/ Install \/ InstallFails
    PROVE  RL!Next \/ UNCHANGED RL!vars
<1>1. CASE SnapshotArrives
  <2>1. UNCHANGED <<log, state, status>> /\ catchingUp' = TRUE /\ mark' = NoMark
    BY <1>1 DEF SnapshotArrives, coordinator
  <2>2. RL!Close
    BY <2>1 DEF RL!Close, RL!NoMark, NoMark, Serving
  <2> QED
    BY <2>2 DEF RL!Next
<1>2. CASE Install \/ InstallFails
  <2>1. /\ UNCHANGED <<log, mark>> /\ catchingUp /\ mark = NoMark /\ SnapshotOf(snapshot)
    BY <1>2 DEF Install, InstallFails, Installs, IInv, Lifecycle, Asking, coordinator, gate
  <2>2. ~Serving /\ ~Serving'
    <3>1. CASE Install
      BY <2>1, <3>1 DEF Install, Serving, gate
    <3>2. CASE InstallFails
      BY <2>1, <3>2 DEF InstallFails, Serving
    <3> QED
      BY <1>2, <3>1, <3>2
  <2>3. Alive => Alive'
    BY <1>2 DEF Install, InstallFails, Alive
  <2>4. CASE Installed
    <3>1. state'.lsn = snapshot.lsn
      BY <2>4 DEF Installed
    <3>2. state'.lsn \in RL!Points
      <4>1. snapshot.lsn \in {0} \cup RotationsIn(1, Len(log))
        BY <2>1 DEF SnapshotOf
      <4> QED
        BY <3>1, <4>1 DEF RotationsIn, RL!Points
    <3>3. \/ (status \in {"up", "closing"})' = (status \in {"up", "closing"})
          \/ (status \in {"up", "closing"})' = TRUE
      BY <2>3 DEF Alive
    <3>4. Serving' = Serving
      BY <2>2 DEF Serving
    <3>5. RL!Install
      BY <2>1, <2>2, <3>2, <3>3, <3>4 DEF RL!Install, RL!NoMark, NoMark
    <3> QED
      BY <3>5 DEF RL!Next
  <2>5. CASE ~Installed
    <3>1. InstallFails /\ UNCHANGED state
      BY <1>2, <2>5 DEF Install, InstallFails, FilesCutShort
    <3>2. Alive' <=> Alive
      BY <3>1 DEF InstallFails, Alive
    <3> QED
      BY <2>1, <2>2, <3>1, <3>2, StutterStep
  <2> QED
    BY <2>4, <2>5
<1> QED
  BY <1>1, <1>2

\* A process goes away and comes back.
LEMMA RestartRefines ==
    ASSUME IInv, Halt \/ Resume \/ Shutdown
    PROVE  RL!Next \/ UNCHANGED RL!vars
<1>1. CASE Halt
  <2>1. UNCHANGED <<log, state>> /\ status' = "down" /\ mark' = NoMark
    BY <1>1 DEF Halt, FilesCutShort, coordinator
  <2>2. RL!Halt
    BY <2>1 DEF RL!Halt, RL!NoMark, NoMark, Serving
  <2> QED
    BY <2>2 DEF RL!Next
<1>2. CASE Resume
  <2>1. /\ UNCHANGED <<log, state, mark, catchingUp>> /\ status = "down" /\ status' = "up"
        /\ ~catchingUp
    BY <1>2 DEF Resume, coordinator, gate, IInv, Lifecycle
  <2>2. RL!Resume
    BY <2>1 DEF RL!Resume, Serving
  <2> QED
    BY <2>2 DEF RL!Next
<1>3. CASE Shutdown
  <2>1. UNCHANGED <<log, state, mark, catchingUp>> /\ status = "up" /\ status' = "closing"
    BY <1>3 DEF Shutdown, coordinator, gate
  <2>2. CASE mark = NoMark
    <3>1. RL!Close
      BY <2>1, <2>2 DEF RL!Close, RL!NoMark, NoMark, Serving
    <3> QED
      BY <3>1 DEF RL!Next
  <2>3. CASE mark # NoMark
    <3>1. catchingUp
      BY <2>3 DEF IInv, Lifecycle
    <3> QED
      BY <2>1, <3>1, StutterStep DEF Alive, Serving
  <2> QED
    BY <2>2, <2>3
<1> QED
  BY <1>1, <1>2, <1>3

\* The rotation of a replaced engine is saved over the snapshot of a node that is about
\* to stop.
LEMMA StaleRefines ==
    ASSUME IInv, StaleEnds
    PROVE  RL!Next
<1>1. /\ stale # 0 /\ state' = [state EXCEPT !.lsn = stale, !.generation = Generation(stale)]
      /\ UNCHANGED <<log, status, catchingUp>> /\ mark' = NoMark
  BY DEF StaleEnds, coordinator
<1>2. state \in [lsn : 0..Len(log), generation : 0..Len(log), dirty : BOOLEAN]
  BY DEF IInv, Domains
<1>3. state'.lsn = stale
  BY <1>1, <1>2
<1>4. status = "closing" /\ log[stale] = "rotate" /\ stale \in 0..Len(log)
  BY <1>1 DEF IInv, Replacing, Domains
<1>5. Len(log) \in Nat /\ DOMAIN log = 1..Len(log)
  BY LogShape DEF IInv, LogOK
<1>6. RL!Install
  BY <1>1, <1>3, <1>4, <1>5 DEF RL!Install, RL!Points, RL!NoMark, NoMark, Serving
<1> QED
  BY <1>6 DEF RL!Next

\* The other steps are not seen.
LEMMA OthersRefine ==
    ASSUME IInv,
           \/ /\ StreamEnds \/ Arrive \/ \E via \in Sources : StartRotation(via)
              /\ UNCHANGED node
           \/ WatchdogStep \/ (\E via \in Sources : NodeFireUnsaved(via)) \/ NodeFire
           \/ NodeFireUnsavedRotation \/ Backup \/ SelfRotate \/ StraySave \/ AskSnapshot
           \/ SnapshotFails \/ Bootstrap \/ UNCHANGED vars
    PROVE  UNCHANGED RL!vars
<1>1. UNCHANGED <<log, mark, catchingUp>>
  BY DEF StreamEnds, Arrive, StartRotation, Take, WatchdogStep, Watchdog, StreamDown,
         NodeFireUnsaved, FireUnsaved, NodeFire, FireAnomaly, FireUnapplied, FireUnrotated,
         Fire,
         NodeFireUnsavedRotation, Backup, SelfRotate, StraySave, AskSnapshot, SnapshotFails,
         Bootstrap, coordinator, node, gate, vars
<1>2. SelfRotate \/ StraySave \/ UNCHANGED state
  BY DEF StreamEnds, Arrive, StartRotation, WatchdogStep,
         NodeFireUnsaved, NodeFire, NodeFireUnsavedRotation, Backup, AskSnapshot, SnapshotFails,
         Bootstrap, node, vars
<1>3. ASSUME SelfRotate \/ StraySave PROVE state'.lsn = state.lsn
  <2>1. state' = state \/ \E flagged \in BOOLEAN : state' = [state EXCEPT !.dirty = @ \/ flagged]
    BY <1>3 DEF SelfRotate, StraySave, SelfRotated
  <2>2. state \in [lsn : 0..Len(log), generation : 0..Len(log), dirty : BOOLEAN]
    BY DEF IInv, Domains
  <2> QED
    BY <2>1, <2>2
<1>4. status' = status \/ {status, status'} \subseteq {"down", "starting"}
  BY DEF StreamEnds, Arrive, StartRotation, WatchdogStep,
         NodeFireUnsaved, NodeFire, NodeFireUnsavedRotation, Backup, SelfRotate, StraySave,
         AskSnapshot, SnapshotFails, Bootstrap, node, vars
<1>5. (Alive' <=> Alive) /\ (Serving' <=> Serving)
  BY <1>1, <1>4 DEF Alive, Serving
<1> QED
  BY <1>1, <1>2, <1>3, <1>5, StutterStep

\* Every step is one of the abstract specification, or is not seen.
LEMMA StepRefines ==
    ASSUME IInv, PipeOK, [Next]_vars
    PROVE  [RL!Next]_(RL!vars)
<1>1. IInv' /\ NextIs
  BY StepIs, StepOK
<1> QED
  BY <1>1, ServerRefines, SubscribeRefines, NothingRefines, AppliedRefines, SnapshotRefines,
     StaleRefines, RestartRefines, OthersRefine
     DEF NextIs

\* A node that was never started is at the beginning of the log.
LEMMA InitRefines ==
    ASSUME Init
    PROVE  RL!Init
BY DEF Init, ServerInit, SyncInit, Serving, RL!Init, RL!NoMark, NoMark

\* A node implements ReplicatedLog: it walks the log one event at a time and never over a
\* hole, leaves the walk only behind a closed gate and for a rotation of the coordinator, and
\* opens the gate only where it has every event that the log had when its stream began.
THEOREM ReplicatesLogHolds == Spec => ReplicatesLog
<1>1. Init => RL!Init
  BY InitRefines
<1>2. (IInv /\ PipeOK) /\ [Next]_vars => [RL!Next]_(RL!vars)
  BY StepRefines
<1> QED
  BY <1>1, <1>2, PipeHolds, PTL DEF Spec, ReplicatesLog, RL!Spec
=============================================================================
