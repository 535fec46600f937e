----------------------------- MODULE AudioProofs -----------------------------
(***************************************************************************)
(* Theorems about audio, for any number of nodes, subscribers, blocks,     *)
(* items, calls and failures. AudioPipeline: a packet that is being filled *)
(* has no gap, and a stop of the capture leaves no node behind.            *)
(* AudioPlaybackPipeline: the worker knows what its queue holds and has a  *)
(* device as long as it runs. The two have no state in common.             *)
(***************************************************************************)
EXTENDS AudioPipeline, AudioPlaybackPipeline, FiniteSetTheorems, SequenceTheorems,
        WellFoundedInduction, TLAPS

(* Blocks are numbers: what is queued, in hand, cached and expected.       *)
AudioTypeOK ==
    /\ clock \in Nat /\ taken \in Nat
    /\ queue \in [Nodes -> Seq(Nat)] /\ hand \in [Nodes -> Nat]
    /\ cache \in [Nodes -> Seq(Nat)] /\ expected \in [Nodes -> Nat]

(* The blocks of c follow each other.                                      *)
Row(c) == \A i \in 1..(Len(c) - 1) : c[i + 1] = c[i] + 1

(* What is cached (c) and the block that is to come (e): it follows the    *)
(* last one, and when nothing is known to follow (the start, and after an  *)
(* encoder that failed) nothing is waiting for it.                         *)
PacketOk(c, e) ==
    /\ Row(c)
    /\ e # 0 /\ c # <<>> => e = c[Len(c)] + 1
    /\ e = 0 => c = <<>> \/ Len(c) = PacketFrames

PacketInv ==
    AudioTypeOK /\ \A n \in Nodes : PacketOk(cache[n], expected[n])

(* Who a thread has still to stop, and what is held, is a node.            *)
GraphTypeOK ==
    /\ app \in {"stopped", "running", "failed", "joining", "stopping"}
    /\ capturing \in BOOLEAN /\ alsa \in {"none", "reading", "dead"}
    /\ running \in [Nodes -> BOOLEAN]
    /\ collected \in SUBSET Nodes /\ holds \in [Subscribers -> SUBSET Nodes]
    /\ todo \in [Threads -> Seq(Nodes)]

(* The capture thread is there from a start that succeeded until the join  *)
(* of a stop.                                                              *)
ThreadJoined ==
    /\ capturing => app = "running"
    /\ app \in {"stopped", "failed", "stopping"} => alsa = "none"
    /\ alsa = "none" => taken = 0

(* A subscriber that holds nodes, or is about to, has none left to stop;   *)
(* one that is about to subscribe holds none.                              *)
OneSubscription ==
    /\ \A s \in Subscribers : holds[s] # {} => todo[s] = <<>>
    /\ sink \in {"subscribing", "checking", "leaving"} => todo[Rtsp] = <<>>
    /\ sink = "subscribing" => holds[Rtsp] = {}

(* Who will stop a node that runs: whoever lets go of it; while captured or *)
(* after a failed start, whoever holds it; a stop of the capture.          *)
Answerable(n) ==
    \/ \E s \in Subscribers : n \in ToSet(todo[s])
    \/ app \in {"running", "failed"} /\ n \in Held
    \/ app = "joining" /\ n \in collected
    \/ app = "stopping" /\ n \in ToSet(todo["app"])

RunningIsAnswered == \A n \in Nodes : running[n] => Answerable(n)

GraphInv == GraphTypeOK /\ ThreadJoined /\ OneSubscription /\ RunningIsAnswered
-----------------------------------------------------------------------------
(* The audio encoder.                                                      *)

LEMMA RowNext ==
    ASSUME NEW c \in Seq(Nat), NEW b \in Nat, Row(c), c # <<>> => b = c[Len(c)] + 1
    PROVE  /\ Append(c, b) \in Seq(Nat) /\ Row(Append(c, b)) /\ Append(c, b) # <<>>
           /\ Append(c, b)[Len(Append(c, b))] = b
<1>1. /\ Append(c, b) \in Seq(Nat) /\ Len(c) \in Nat /\ Len(Append(c, b)) = Len(c) + 1
      /\ Append(c, b)[Len(c) + 1] = b
      /\ \A i \in 1..Len(c) : Append(c, b)[i] = c[i]
  OBVIOUS
<1>2. ASSUME NEW i \in 1..Len(c) PROVE Append(c, b)[i + 1] = Append(c, b)[i] + 1
  <2>1. CASE i = Len(c)
    <3>1. c # <<>>
      BY <2>1, <1>1
    <3>q. QED
      BY <1>1, <2>1, <3>1
  <2>2. CASE i \in 1..(Len(c) - 1)
    <3>1. i + 1 \in 1..Len(c)
      BY <1>1, <2>2
    <3>q. QED
      BY <1>1, <2>2, <3>1 DEF Row
  <2>q. QED
    BY <1>1, <2>1, <2>2
<1>3. Len(Append(c, b)) - 1 = Len(c) /\ Append(c, b) # <<>>
  BY <1>1
<1>q. QED
  BY <1>1, <1>2, <1>3 DEF Row

LEMMA EmptyRow == Row(<<>>) /\ <<>> \in Seq(Nat)
BY DEF Row

(* What a packet is continued with: blocks in a row that the block in hand *)
(* follows, or a full packet.                                              *)
LEMMA ContinuedRow ==
    ASSUME PacketInv, NEW n \in Nodes, hand[n] # 0
    PROVE  /\ Continued(n) \in Seq(Nat) /\ Row(Continued(n))
           /\ \/ Continued(n) = <<>> \/ Len(Continued(n)) = PacketFrames
              \/ hand[n] = Continued(n)[Len(Continued(n))] + 1
<1>1. /\ PacketOk(cache[n], expected[n])
      /\ cache[n] \in Seq(Nat) /\ expected[n] \in Nat /\ hand[n] \in Nat
  BY DEF PacketInv, AudioTypeOK
<1>2. CASE Discontinuous(n)
  BY <1>2, EmptyRow DEF Continued
<1>3. CASE ~Discontinuous(n)
  <2>1. Continued(n) = cache[n]
    BY <1>3 DEF Continued
  <2>q. QED
    BY <1>1, <1>3, <2>1 DEF PacketOk, Discontinuous
<1>q. QED
  BY <1>2, <1>3

(* What is begun ends in the block in hand.                                *)
LEMMA BegunRow ==
    ASSUME PacketInv, NEW n \in Nodes, hand[n] # 0
    PROVE  /\ Begun(n) \in Seq(Nat) /\ Row(Begun(n)) /\ Begun(n) # <<>>
           /\ Begun(n)[Len(Begun(n))] = hand[n]
<1>1. hand[n] \in Nat
  BY DEF PacketInv, AudioTypeOK
<1>2. CASE Len(Continued(n)) = PacketFrames
  <2>1. Begun(n) = Append(<<>>, hand[n])
    BY <1>2 DEF Begun
  <2>q. QED
    BY <1>1, <2>1, EmptyRow, RowNext
<1>3. CASE Len(Continued(n)) # PacketFrames
  <2>1. Begun(n) = Append(Continued(n), hand[n])
    BY <1>3 DEF Begun
  <2>2. Continued(n) # <<>> => hand[n] = Continued(n)[Len(Continued(n))] + 1
    BY <1>3, ContinuedRow
  <2>3. Continued(n) \in Seq(Nat) /\ Row(Continued(n))
    BY ContinuedRow
  <2>q. QED
    BY <1>1, <2>1, <2>2, <2>3, RowNext
<1>q. QED
  BY <1>2, <1>3

(* One cache changes, and is right for what is to come.                    *)
LEMMA OneCacheChanges ==
    ASSUME PacketInv, NEW n \in Nodes, NEW c \in Seq(Nat), NEW e \in Nat,
           cache' = [cache EXCEPT ![n] = c], expected' = [expected EXCEPT ![n] = e],
           PacketOk(c, e),
           queue' \in [Nodes -> Seq(Nat)], hand' \in [Nodes -> Nat],
           UNCHANGED <<clock, taken>>
    PROVE  PacketInv'
<1>1. AudioTypeOK'
  BY DEF PacketInv, AudioTypeOK
<1>2. ASSUME NEW m \in Nodes PROVE PacketOk(cache[m], expected[m])'
  <2>1. cache'[m] = (IF m = n THEN c ELSE cache[m])
        /\ expected'[m] = (IF m = n THEN e ELSE expected[m])
    BY DEF PacketInv, AudioTypeOK
  <2>2. PacketOk(cache[m], expected[m])
    BY DEF PacketInv
  <2>q. QED
    BY <2>1, <2>2 DEF PacketOk, Row
<1>q. QED
  BY <1>1, <1>2 DEF PacketInv

LEMMA EncodeKeepsPackets ==
    ASSUME PacketInv, NEW n \in Nodes, EncodeBlock(n) PROVE PacketInv'
<1>1. /\ hand[n] # 0 /\ hand[n] \in Nat /\ hand' = [hand EXCEPT ![n] = 0]
      /\ UNCHANGED <<queue, clock, taken>>
  BY DEF EncodeBlock, PacketInv, AudioTypeOK, capture
<1>2. queue' \in [Nodes -> Seq(Nat)] /\ hand' \in [Nodes -> Nat]
  BY <1>1 DEF PacketInv, AudioTypeOK
<1>3. CASE Cache(n)
  <2>1. PacketOk(Begun(n), hand[n] + 1) /\ hand[n] + 1 \in Nat /\ Begun(n) \in Seq(Nat)
    BY <1>1, BegunRow DEF PacketOk
  <2>q. QED
    BY <1>1, <1>2, <1>3, <2>1, OneCacheChanges DEF Cache
<1>4. CASE EmitAccessUnit(n)
  <2>1. PacketOk(<<>>, hand[n] + 1) /\ hand[n] + 1 \in Nat /\ <<>> \in Seq(Nat)
    BY <1>1, EmptyRow DEF PacketOk
  <2>q. QED
    BY <1>1, <1>2, <1>4, <2>1, OneCacheChanges DEF EmitAccessUnit
<1>5. CASE EncodeFails(n)
  <2> DEFINE c == IF Len(Continued(n)) = PacketFrames THEN Continued(n) ELSE Begun(n)
  <2>1. cache' = [cache EXCEPT ![n] = c] /\ expected' = [expected EXCEPT ![n] = 0]
        /\ Len(cache'[n]) = PacketFrames
    BY <1>5 DEF EncodeFails
  <2>2. c \in Seq(Nat) /\ Row(c)
    BY <1>1, ContinuedRow, BegunRow
  <2>3. cache'[n] = c
    BY <2>1 DEF PacketInv, AudioTypeOK
  <2>4. PacketOk(c, 0)
    BY <2>1, <2>2, <2>3 DEF PacketOk
  <2> HIDE DEF c
  <2>q. QED
    BY <1>1, <1>2, <2>1, <2>2, <2>4, OneCacheChanges
<1>6. CASE RecreateFails(n)
  <2> DEFINE e == expected[n]
  <2>1. /\ e \in Nat /\ <<>> \in Seq(Nat) /\ PacketOk(<<>>, e)
    BY <1>6, EmptyRow DEF PacketInv, AudioTypeOK, PacketOk, RecreateFails, Discontinuous
  <2>2. cache' = [cache EXCEPT ![n] = <<>>] /\ expected' = [expected EXCEPT ![n] = e]
    BY <1>6 DEF RecreateFails, PacketInv, AudioTypeOK
  <2> HIDE DEF e
  <2>q. QED
    BY <1>1, <1>2, <2>1, <2>2, OneCacheChanges
<1>q. QED
  BY <1>3, <1>4, <1>5, <1>6 DEF EncodeBlock

LEMMA JoinKeepsPackets ==
    ASSUME PacketInv, NEW t \in Threads, JoinNode(t) PROVE PacketInv'
<1> DEFINE n == Head(todo[t])
<1>1. /\ cache' = [cache EXCEPT ![n] = <<>>] /\ expected' = [expected EXCEPT ![n] = 0]
      /\ UNCHANGED <<queue, hand, clock, taken>>
  BY DEF JoinNode, capture
<1>2. PacketOk(<<>>, 0) /\ <<>> \in Seq(Nat)
  BY EmptyRow DEF PacketOk
<1>3. CASE n \in Nodes
  <2>1. queue' \in [Nodes -> Seq(Nat)] /\ hand' \in [Nodes -> Nat]
    BY <1>1 DEF PacketInv, AudioTypeOK
  <2> HIDE DEF n
  <2>q. QED
    BY <1>1, <1>2, <1>3, <2>1, OneCacheChanges
<1>4. CASE n \notin Nodes
  <2>1. cache' = cache /\ expected' = expected
    BY <1>1, <1>4 DEF PacketInv, AudioTypeOK
  <2>q. QED
    BY <1>1, <2>1 DEF PacketInv, AudioTypeOK
<1>q. QED
  BY <1>3, <1>4

(* What is published stays in queues of blocks.                            *)
LEMMA PublishedType ==
    ASSUME PacketInv, NEW hub, NEW block \in Nat
    PROVE  Published(hub, block) \in [Nodes -> Seq(Nat)]
<1>1. ASSUME NEW n \in Nodes PROVE Enqueued(n, block) \in Seq(Nat) /\ queue[n] \in Seq(Nat)
  <2>1. queue[n] \in Seq(Nat)
    BY DEF PacketInv, AudioTypeOK
  <2>2. Len(queue[n]) = QueueLimit => Tail(queue[n]) \in Seq(Nat)
    <3>1. Len(queue[n]) = QueueLimit => queue[n] # <<>>
      BY AudioAssumption
    <3>q. QED
      BY <2>1, <3>1
  <2>q. QED
    BY <2>1, <2>2 DEF Enqueued
<1>q. QED
  BY <1>1 DEF Published

(* Of the rest only the queues change, and what is in hand.                *)
LEMMA OthersKeepPackets ==
    ASSUME PacketInv, UNCHANGED <<cache, expected>>,
           clock' \in Nat, taken' \in Nat,
           queue' \in [Nodes -> Seq(Nat)], hand' \in [Nodes -> Nat]
    PROVE  PacketInv'
BY DEF PacketInv, AudioTypeOK

LEMMA WorkKeepsPackets ==
    ASSUME PacketInv, Work PROVE PacketInv'
<1>1. /\ clock \in Nat /\ taken \in Nat /\ queue \in [Nodes -> Seq(Nat)]
      /\ hand \in [Nodes -> Nat]
  BY DEF PacketInv, AudioTypeOK
<1>2. ASSUME NEW n \in Nodes, TakeBlock(n) PROVE PacketInv'
  <2>1. /\ queue[n] # <<>> /\ hand' = [hand EXCEPT ![n] = Head(queue[n])]
        /\ queue' = [queue EXCEPT ![n] = Tail(queue[n])]
        /\ UNCHANGED <<cache, expected, clock, taken>>
    BY <1>2 DEF TakeBlock, capture
  <2>2. Head(queue[n]) \in Nat /\ Tail(queue[n]) \in Seq(Nat)
    BY <1>1, <2>1
  <2>q. QED
    BY <1>1, <2>1, <2>2, OthersKeepPackets
<1>3. ASSUME NEW n \in Nodes, ProcessBlock(n) PROVE PacketInv'
  <2>1. /\ hand[n] \in Nat /\ hand' = [hand EXCEPT ![n] = 0]
        /\ UNCHANGED <<cache, expected, clock, taken>>
    BY <1>1, <1>3 DEF ProcessBlock, capture
  <2>2. queue' = queue \/ queue' = Published(n, hand[n])
    BY <1>3 DEF ProcessBlock, Processed, Copied
  <2>3. queue' \in [Nodes -> Seq(Nat)]
    BY <1>1, <2>1, <2>2, PublishedType
  <2>q. QED
    BY <1>1, <2>1, <2>3, OthersKeepPackets
<1>q. QED
  BY <1>2, <1>3, EncodeKeepsPackets DEF Work

LEMMA StopsKeepPackets ==
    ASSUME PacketInv, StopNodes PROVE PacketInv'
<1>1. ASSUME NEW t \in Threads, RequestStop(t) PROVE PacketInv'
  <2>1. /\ UNCHANGED <<cache, expected, clock, taken, hand>>
        /\ queue' = queue \/ queue' = [queue EXCEPT ![Head(todo[t])] = <<>>]
    BY <1>1 DEF RequestStop, capture
  <2>2. queue' \in [Nodes -> Seq(Nat)]
    BY <2>1, EmptyRow DEF PacketInv, AudioTypeOK
  <2>3. clock' \in Nat /\ taken' \in Nat /\ hand' \in [Nodes -> Nat]
    BY <2>1 DEF PacketInv, AudioTypeOK
  <2>q. QED
    BY <2>1, <2>2, <2>3, OthersKeepPackets
<1>q. QED
  BY <1>1, JoinKeepsPackets DEF StopNodes

(* The microphone.                                                         *)
LEMMA CaptureKeepsPackets ==
    ASSUME PacketInv, Capture PROVE PacketInv'
<1>1. /\ clock \in Nat /\ taken \in Nat /\ queue \in [Nodes -> Seq(Nat)]
      /\ hand \in [Nodes -> Nat]
  BY DEF PacketInv, AudioTypeOK
<1>2. CASE Read
  <2>1. UNCHANGED <<cache, expected, queue, hand>>
    BY <1>2 DEF Read, workers
  <2>2. clock' \in Nat /\ taken' \in Nat
    BY <1>1, <1>2 DEF Read, Copied
  <2>q. QED
    BY <1>1, <2>1, <2>2, OthersKeepPackets
<1>3. CASE PublishCapturedPcm
  <2>1. /\ UNCHANGED <<cache, expected, hand, clock>> /\ taken' = 0
        /\ queue' = Published("raw", taken)
    BY <1>3 DEF PublishCapturedPcm
  <2>2. queue' \in [Nodes -> Seq(Nat)]
    BY <1>1, <2>1, PublishedType
  <2>q. QED
    BY <1>1, <2>1, <2>2, OthersKeepPackets
<1>q. QED
  BY <1>2, <1>3 DEF Capture

(* Nobody else touches a block.                                            *)
LEMMA GraphKeepsPackets ==
    ASSUME PacketInv, Discard \/ Listen \/ Serve \/ Share \/ Run \/ UNCHANGED vars
    PROVE  PacketInv'
<1>1. UNCHANGED <<cache, expected, queue, hand, clock, taken>>
  <2>1. CASE Discard \/ UNCHANGED vars
    BY <2>1 DEF Discard, vars, capture, workers
  <2>2. CASE Listen
    BY <2>2 DEF Listen, StreamPlays, StreamEnds, capture, workers
  <2>3. CASE Serve
    BY <2>3 DEF Serve, Decide, SinkSubscribes, Keep, LetGo, Left, capture, workers
  <2>4. CASE Share
    BY <2>4 DEF Share, OtherSubscribes, OtherResets, capture, workers
  <2>5. CASE Run
    BY <2>5 DEF Run, StartCapture, StopCapture, JoinCapture, CaptureStopped, capture, workers
  <2>q. QED
    BY <2>1, <2>2, <2>3, <2>4, <2>5
<1>q. QED
  BY <1>1 DEF PacketInv, AudioTypeOK

LEMMA PacketInit == Init => PacketInv
<1> SUFFICES ASSUME Init PROVE PacketInv
  OBVIOUS
<1>1. /\ clock = 0 /\ taken = 0
      /\ queue = [n \in Nodes |-> <<>>] /\ hand = [n \in Nodes |-> 0]
      /\ cache = [n \in Nodes |-> <<>>] /\ expected = [n \in Nodes |-> 0]
  BY DEF Init
<1>2. AudioTypeOK
  BY <1>1, EmptyRow DEF AudioTypeOK
<1>q. QED
  BY <1>1, <1>2, EmptyRow DEF PacketInv, PacketOk

LEMMA PacketNext == PacketInv /\ [Next]_vars => PacketInv'
<1> SUFFICES ASSUME PacketInv, [Next]_vars PROVE PacketInv'
  OBVIOUS
<1>q. QED
  BY WorkKeepsPackets, StopsKeepPackets, CaptureKeepsPackets, GraphKeepsPackets DEF Next

(* What waits in an encoder to be completed is made of blocks that follow  *)
(* each other, whatever queues, pools and XRUNs lost, whoever stopped and  *)
(* started the node and whichever call of the codec failed.                *)
THEOREM PacketsHaveNoGap == Spec => []NoPacketAcrossGap
<1>1. PacketInv => NoPacketAcrossGap
  BY DEF PacketInv, PacketOk, Row, NoPacketAcrossGap
<1>q. QED
  BY <1>1, PacketInit, PacketNext, PTL DEF Spec
-----------------------------------------------------------------------------
(* Who stops what: nodes that are let go of, and the stop of the capture.  *)

LEMMA EveryOneListed ==
    ASSUME NEW S, IsFiniteSet(S)
    PROVE  SetToSeq(S) \in Seq(S) /\ ToSet(SetToSeq(S)) = S
<1> DEFINE c == Cardinality(S)
<1>1. c \in Nat /\ ExistsBijection(1..c, S)
  BY FS_CardinalityType
<1>2. PICK f \in [1..c -> S] : IsInjective(f)
  BY <1>1 DEF ExistsBijection, Bijection, Injection
<1>3. SetToSeq(S) \in [1..c -> S] /\ IsInjective(SetToSeq(S))
  BY <1>2 DEF SetToSeq
<1>4. Cardinality(1..c) = c /\ IsFiniteSet(1..c)
  BY <1>1, FS_Interval
<1>5. SetToSeq(S) \in Injection(1..c, S)
  BY <1>3 DEF Injection
<1>6. SetToSeq(S) \in Surjection(1..c, S)
  BY <1>4, <1>5, FS_Injection
<1>7. SetToSeq(S) \in Seq(S)
  BY <1>1, <1>3
<1>8. DOMAIN SetToSeq(S) = 1..c /\ \A x \in S : \E i \in 1..c : SetToSeq(S)[i] = x
  BY <1>3, <1>6 DEF Surjection
<1>9. ToSet(SetToSeq(S)) = S
  BY <1>3, <1>8 DEF ToSet
<1>q. QED
  BY <1>7, <1>9

LEMMA BothListed ==
    ASSUME NEW S, NEW p \in Seq(S), NEW q \in Seq(S)
    PROVE  p \o q \in Seq(S) /\ ToSet(p \o q) = ToSet(p) \union ToSet(q)
<1>1. /\ p \o q \in Seq(S) /\ Len(p \o q) = Len(p) + Len(q)
      /\ Len(p) \in Nat /\ Len(q) \in Nat
      /\ \A i \in 1..(Len(p) + Len(q)) :
            (p \o q)[i] = IF i <= Len(p) THEN p[i] ELSE q[i - Len(p)]
  BY ConcatProperties
<1>2. /\ ToSet(p \o q) = {(p \o q)[i] : i \in 1..(Len(p) + Len(q))}
      /\ ToSet(p) = {p[i] : i \in 1..Len(p)} /\ ToSet(q) = {q[i] : i \in 1..Len(q)}
  BY <1>1 DEF ToSet
<1>3. ASSUME NEW x \in ToSet(p \o q) PROVE x \in ToSet(p) \union ToSet(q)
  <2>1. PICK i \in 1..(Len(p) + Len(q)) : x = (p \o q)[i]
    BY <1>2, <1>3
  <2>2. CASE i <= Len(p)
    BY <1>1, <1>2, <2>1, <2>2
  <2>3. CASE ~(i <= Len(p))
    <3>1. i - Len(p) \in 1..Len(q) /\ x = q[i - Len(p)]
      BY <1>1, <2>1, <2>3
    <3>q. QED
      BY <1>2, <3>1
  <2>q. QED
    BY <2>2, <2>3
<1>4. ASSUME NEW x \in ToSet(p) PROVE x \in ToSet(p \o q)
  <2>1. PICK i \in 1..Len(p) : x = p[i]
    BY <1>2, <1>4
  <2>2. i \in 1..(Len(p) + Len(q)) /\ (p \o q)[i] = x
    BY <1>1, <2>1
  <2>q. QED
    BY <1>2, <2>2
<1>5. ASSUME NEW x \in ToSet(q) PROVE x \in ToSet(p \o q)
  <2>1. PICK i \in 1..Len(q) : x = q[i]
    BY <1>2, <1>5
  <2>2. i + Len(p) \in 1..(Len(p) + Len(q)) /\ (p \o q)[i + Len(p)] = x
    BY <1>1, <2>1
  <2>q. QED
    BY <1>2, <2>2
<1>q. QED
  BY <1>1, <1>3, <1>4, <1>5

(* Whatever comes first: everybody in the set is stopped.                  *)
LEMMA OrderedListsAll ==
    ASSUME NEW S \in SUBSET Nodes, NEW first
    PROVE  Ordered(S, first) \in Seq(Nodes) /\ ToSet(Ordered(S, first)) = S
<1> DEFINE A == {n \in S : kind[n] = first}
           B == {n \in S : kind[n] # first}
<1>1. IsFiniteSet(A) /\ IsFiniteSet(B)
  BY AudioAssumption, FS_Subset
<1>2. /\ SetToSeq(A) \in Seq(A) /\ ToSet(SetToSeq(A)) = A
      /\ SetToSeq(B) \in Seq(B) /\ ToSet(SetToSeq(B)) = B
  BY <1>1, EveryOneListed
<1>3. SetToSeq(A) \in Seq(Nodes) /\ SetToSeq(B) \in Seq(Nodes)
  BY <1>2
<1>4. Ordered(S, first) = SetToSeq(A) \o SetToSeq(B)
  BY DEF Ordered
<1>5. A \union B = S
  OBVIOUS
<1> HIDE DEF A, B
<1>q. QED
  <2>1. /\ SetToSeq(A) \o SetToSeq(B) \in Seq(Nodes)
        /\ ToSet(SetToSeq(A) \o SetToSeq(B)) = ToSet(SetToSeq(A)) \union ToSet(SetToSeq(B))
    BY <1>3, BothListed
  <2>q. QED
    BY <1>2, <1>4, <1>5, <2>1, Zenon

LEMMA TailLists ==
    ASSUME NEW S, NEW q \in Seq(S), q # <<>>
    PROVE  /\ Tail(q) \in Seq(S) /\ Head(q) \in S
           /\ \A x \in ToSet(q) : x = Head(q) \/ x \in ToSet(Tail(q))
<1>1. /\ Tail(q) \in Seq(S) /\ Head(q) = q[1] /\ Head(q) \in S /\ Len(q) \in Nat
      /\ Len(Tail(q)) = Len(q) - 1
      /\ \A i \in 1..Len(Tail(q)) : Tail(q)[i] = q[i + 1]
  OBVIOUS
<1>2. /\ ToSet(q) = {q[i] : i \in 1..Len(q)}
      /\ ToSet(Tail(q)) = {Tail(q)[i] : i \in 1..Len(Tail(q))}
  <2>1. DOMAIN q = 1..Len(q) /\ DOMAIN Tail(q) = 1..Len(Tail(q))
    BY <1>1, LenProperties
  <2>q. QED
    BY <2>1, Zenon DEF ToSet
<1>3. ASSUME NEW x \in ToSet(q), x # Head(q) PROVE x \in ToSet(Tail(q))
  <2>1. PICK i \in 1..Len(q) : x = q[i]
    BY <1>2, <1>3
  <2>2. i # 1
    BY <1>1, <1>3, <2>1
  <2>3. i - 1 \in 1..Len(Tail(q)) /\ Tail(q)[i - 1] = x
    BY <1>1, <2>1, <2>2
  <2>q. QED
    BY <1>2, <2>3
<1>q. QED
  BY <1>1, <1>3

LEMMA NobodyListed == ToSet(<<>>) = {}
BY DEF ToSet

LEMMA ThreadsAreApart == Rtsp \in Subscribers /\ "app" \in Threads /\ "app" \notin Subscribers
                         /\ Subscribers \subseteq Threads /\ Rtsp \notin Others
                         /\ Others \subseteq Subscribers
BY AudioAssumption DEF Subscribers, Threads

(* What a step leaves of the graph; the capture thread is looked at apart. *)
LEMMA SameGraph ==
    ASSUME GraphInv, ThreadJoined', alsa' \in {"none", "reading", "dead"},
           UNCHANGED <<app, capturing, collected, running, holds, todo>>,
           \/ sink' = sink
           \/ /\ todo[Rtsp] = <<>>
              /\ sink' = "subscribing" => holds[Rtsp] = {}
           \/ sink' \notin {"subscribing", "checking", "leaving"}
    PROVE  GraphInv'
<1>1. GraphTypeOK' /\ RunningIsAnswered'
  BY DEF GraphInv, GraphTypeOK, RunningIsAnswered, Answerable, Held
<1>2. OneSubscription'
  BY DEF GraphInv, OneSubscription
<1>q. QED
  BY <1>1, <1>2 DEF GraphInv

(* Nodes are taken on: who runs afterwards ran before, or is held while    *)
(* the capture runs.                                                       *)
LEMMA GrowKeepsGraph ==
    ASSUME GraphInv, NEW s \in Subscribers, todo[s] = <<>>, holds[s] = {},
           NEW chosen \in SUBSET Nodes, Grow(s, chosen),
           UNCHANGED <<app, capturing, alsa, taken, collected, todo>>,
           \/ s = Rtsp /\ sink' = "checking"
           \/ s # Rtsp /\ sink' = sink
    PROVE  GraphInv'
<1>1. /\ holds' = [holds EXCEPT ![s] = chosen]
      /\ running' = [n \in Nodes |-> running[n] \/ n \in {m \in chosen : kind[m] = "none" /\ capturing}]
  BY DEF Grow, StartNodes
<1>2. /\ holds \in [Subscribers -> SUBSET Nodes] /\ collected \in SUBSET Nodes
      /\ \A n \in Nodes : running[n] \in BOOLEAN
      /\ \A n \in Nodes : running[n] => Answerable(n)
      /\ capturing => app = "running"
  BY DEF GraphInv, GraphTypeOK, RunningIsAnswered, ThreadJoined
<1>3. running' \in [Nodes -> BOOLEAN]
  BY <1>1, Zenon
<1>4. holds' \in [Subscribers -> SUBSET Nodes]
  BY <1>1, <1>2
<1>5. GraphTypeOK' /\ ThreadJoined'
  BY <1>3, <1>4 DEF GraphInv, GraphTypeOK, ThreadJoined
<1>6. OneSubscription'
  BY <1>1, <1>2, ThreadsAreApart DEF GraphInv, OneSubscription
<1>7. Held \subseteq Held' /\ chosen \subseteq Held'
  BY <1>1, <1>2 DEF Held
<1>8. ASSUME NEW n \in Nodes, running'[n] PROVE Answerable(n)'
  <2>1. running[n] \/ (n \in chosen /\ capturing)
    BY <1>1, <1>8
  <2>2. CASE running[n]
    <3>1. Answerable(n)
      BY <1>2, <2>2
    <3>q. QED
      BY <1>7, <3>1 DEF Answerable
  <2>3. CASE n \in chosen /\ capturing
    BY <1>2, <1>7, <2>3 DEF Answerable
  <2>q. QED
    BY <2>1, <2>2, <2>3
<1>q. QED
  BY <1>5, <1>6, <1>8 DEF GraphInv, RunningIsAnswered

LEMMA SubscribeGrows ==
    ASSUME GraphInv, NEW s \in Subscribers, Subscribe(s)
    PROVE  \E chosen \in SUBSET Nodes : Grow(s, chosen)
<1>1. Held \in SUBSET Nodes
  BY DEF GraphInv, GraphTypeOK, Held
<1>2. ASSUME NEW k, NEW hub PROVE Found(k, hub) \subseteq Nodes
  BY <1>1 DEF Found, Alive
<1>3. CASE SubscribeToRaw(s)
  <2>1. PICK n \in Found(Chain[s][1], "raw") : Grow(s, {n})
    BY <1>3 DEF SubscribeToRaw
  <2>2. n \in Nodes
    BY <1>2, <2>1
  <2>3. {n} \in SUBSET Nodes
    BY <2>2
  <2>q. QED
    BY <2>1, <2>3
<1>4. CASE SubscribeToProcessed(s)
  <2>1. PICK n \in Found("apm", "raw") : \E e \in Found("encoder", n) \ {n} : Grow(s, {n, e})
    BY <1>4 DEF SubscribeToProcessed
  <2>2. PICK e \in Found("encoder", n) : Grow(s, {n, e})
    BY <2>1
  <2>3. n \in Nodes /\ e \in Nodes
    BY <1>2, <2>1, <2>2
  <2>4. {n, e} \in SUBSET Nodes
    BY <2>3
  <2>q. QED
    BY <2>2, <2>4
<1>q. QED
  BY <1>3, <1>4 DEF Subscribe

(* Nodes are let go of: nobody is forgotten.                               *)
LEMMA ResetKeepsGraph ==
    ASSUME GraphInv, NEW s \in Subscribers, todo[s] = <<>>, Reset(s),
           UNCHANGED <<app, capturing, alsa, taken, collected, running>>,
           \/ s # Rtsp /\ sink' = sink
           \/ sink' \in {"waiting", "left"}
    PROVE  GraphInv'
<1>1. /\ holds \in [Subscribers -> SUBSET Nodes] /\ collected \in SUBSET Nodes
      /\ todo \in [Threads -> Seq(Nodes)] /\ s \in Threads
  BY ThreadsAreApart DEF GraphInv, GraphTypeOK
<1>2. Orphans(s) \in SUBSET Nodes
  BY <1>1 DEF Orphans
<1>3. /\ todo' = [todo EXCEPT ![s] = Ordered(Orphans(s), "apm")]
      /\ holds' = [holds EXCEPT ![s] = {}]
      /\ Ordered(Orphans(s), "apm") \in Seq(Nodes)
      /\ ToSet(Ordered(Orphans(s), "apm")) = Orphans(s)
  BY <1>2, OrderedListsAll DEF Reset
<1>4. todo' \in [Threads -> Seq(Nodes)] /\ holds' \in [Subscribers -> SUBSET Nodes]
  BY <1>1, <1>3
<1>5. GraphTypeOK' /\ ThreadJoined'
  BY <1>4 DEF GraphInv, GraphTypeOK, ThreadJoined
<1>6. OneSubscription'
  <2>1. ASSUME NEW r \in Subscribers, holds'[r] # {} PROVE todo'[r] = <<>>
    <3>1. r # s
      BY <1>1, <1>3, <2>1
    <3>2. r \in Threads /\ holds[r] # {}
      BY <1>1, <1>3, <2>1, <3>1, ThreadsAreApart
    <3>q. QED
      BY <1>1, <1>3, <2>1, <3>1, <3>2 DEF GraphInv, OneSubscription
  <2>2. s # Rtsp => todo'[Rtsp] = todo[Rtsp] /\ holds'[Rtsp] = holds[Rtsp]
    BY <1>1, <1>3, ThreadsAreApart
  <2>q. QED
    BY <2>1, <2>2 DEF GraphInv, OneSubscription
<1>7. ASSUME NEW n \in Nodes, running'[n] PROVE Answerable(n)'
  <2>1. Answerable(n)
    BY <1>7 DEF GraphInv, RunningIsAnswered
  <2>2. todo'["app"] = todo["app"]
    BY <1>1, <1>3, ThreadsAreApart
  <2>3. ASSUME NEW r \in Subscribers, n \in ToSet(todo[r]) PROVE Answerable(n)'
    <3>1. r # s
      BY <2>3, NobodyListed
    <3>2. todo'[r] = todo[r]
      BY <1>1, <1>3, <3>1, ThreadsAreApart
    <3>q. QED
      BY <2>3, <3>2 DEF Answerable
  <2>4. ASSUME n \in Held, app \in {"running", "failed"} PROVE Answerable(n)'
    <3>1. CASE n \in Orphans(s)
      <4>1. n \in ToSet(todo'[s])
        BY <1>1, <1>3, <3>1
      <4>q. QED
        BY <4>1 DEF Answerable
    <3>2. CASE n \notin Orphans(s)
      <4>1. n \in collected \/ \E r \in Subscribers \ {s} : n \in holds[r]
        BY <2>4, <3>2 DEF Held, Orphans
      <4>2. \A r \in Subscribers \ {s} : holds'[r] = holds[r]
        BY <1>1, <1>3
      <4>3. n \in Held'
        BY <4>1, <4>2 DEF Held
      <4>q. QED
        BY <2>4, <4>3 DEF Answerable
    <3>q. QED
      BY <3>1, <3>2
  <2>q. QED
    BY <2>1, <2>2, <2>3, <2>4 DEF Answerable
<1>q. QED
  BY <1>5, <1>6, <1>7 DEF GraphInv, RunningIsAnswered

(* A node is struck off a list when it has stopped.                        *)
LEMMA StopKeepsGraph ==
    ASSUME GraphInv, NEW t \in Threads, todo[t] # <<>>,
           todo' = [todo EXCEPT ![t] = Tail(todo[t])],
           running' \in [Nodes -> BOOLEAN],
           \A n \in Nodes : running'[n] => running[n] /\ n # Head(todo[t]),
           UNCHANGED <<app, capturing, alsa, taken, collected, holds, sink>>
    PROVE  GraphInv'
<1>1. todo \in [Threads -> Seq(Nodes)] /\ todo[t] \in Seq(Nodes)
  BY DEF GraphInv, GraphTypeOK
<1>2. /\ Tail(todo[t]) \in Seq(Nodes)
      /\ \A x \in ToSet(todo[t]) : x = Head(todo[t]) \/ x \in ToSet(Tail(todo[t]))
  BY <1>1, TailLists
<1>3. /\ todo' \in [Threads -> Seq(Nodes)]
      /\ \A r \in Threads : todo'[r] = IF r = t THEN Tail(todo[t]) ELSE todo[r]
  BY <1>1, <1>2
<1>4. GraphTypeOK' /\ ThreadJoined'
  BY <1>3 DEF GraphInv, GraphTypeOK, ThreadJoined
<1>5. OneSubscription'
  <2>1. \A r \in Threads : todo[r] = <<>> => todo'[r] = <<>>
    BY <1>3
  <2>q. QED
    BY <2>1, ThreadsAreApart DEF GraphInv, OneSubscription
<1>6. ASSUME NEW n \in Nodes, running'[n] PROVE Answerable(n)'
  <2>1. Answerable(n) /\ n # Head(todo[t])
    BY <1>6 DEF GraphInv, RunningIsAnswered
  <2>2. \A r \in Threads : n \in ToSet(todo[r]) => n \in ToSet(todo'[r])
    BY <1>2, <1>3, <2>1
  <2>q. QED
    BY <2>1, <2>2, ThreadsAreApart DEF Answerable, Held
<1>q. QED
  BY <1>4, <1>5, <1>6 DEF GraphInv, RunningIsAnswered

LEMMA WorkKeepsGraph ==
    ASSUME GraphInv, Work \/ Discard \/ Listen \/ Capture \/ UNCHANGED vars
    PROVE  GraphInv'
<1>1. UNCHANGED <<app, capturing, collected, running, holds, todo, sink>>
  <2>1. CASE Work
    BY <2>1 DEF Work, TakeBlock, ProcessBlock, EncodeBlock, capture, graph, publish
  <2>2. CASE Discard
    BY <2>2 DEF Discard, capture, workers, publish
  <2>3. CASE Listen
    BY <2>3 DEF Listen, StreamPlays, StreamEnds, capture, graph, workers, publish
  <2>4. CASE Capture
    BY <2>4 DEF Capture, Read, PublishCapturedPcm, graph, workers, publish
  <2>5. CASE UNCHANGED vars
    BY <2>5 DEF vars, capture, graph, workers, publish
  <2>q. QED
    BY <2>1, <2>2, <2>3, <2>4, <2>5
<1>2. \/ alsa' = alsa /\ (taken' = taken \/ taken' = 0 \/ alsa = "reading")
      \/ alsa = "reading" /\ taken = 0 /\ alsa' = "dead" /\ taken' = taken
  <2>1. CASE Work \/ Discard \/ Listen \/ UNCHANGED vars
    BY <2>1 DEF Work, TakeBlock, ProcessBlock, EncodeBlock, Discard, Listen, StreamPlays,
                StreamEnds, capture, vars
  <2>2. CASE Capture
    BY <2>2 DEF Capture, Read, PublishCapturedPcm
  <2>q. QED
    BY <2>1, <2>2
<1>3. ThreadJoined' /\ alsa' \in {"none", "reading", "dead"}
  BY <1>1, <1>2 DEF GraphInv, GraphTypeOK, ThreadJoined
<1>q. QED
  BY <1>1, <1>3, SameGraph

LEMMA StopNodesKeepsGraph ==
    ASSUME GraphInv, StopNodes PROVE GraphInv'
<1>1. running \in [Nodes -> BOOLEAN] /\ todo \in [Threads -> Seq(Nodes)]
  BY DEF GraphInv, GraphTypeOK
<1>2. ASSUME NEW t \in Threads, RequestStop(t) PROVE GraphInv'
  <2>1. /\ UNCHANGED <<app, capturing, alsa, taken, collected, holds, sink, running>>
        /\ todo[t] # <<>>
        /\ \/ UNCHANGED todo
           \/ ~running[Head(todo[t])] /\ todo' = [todo EXCEPT ![t] = Tail(todo[t])]
    BY <1>2 DEF RequestStop, capture, graph, publish
  <2>2. CASE UNCHANGED todo
    <3>1. ThreadJoined' /\ alsa' \in {"none", "reading", "dead"}
      BY <2>1 DEF GraphInv, GraphTypeOK, ThreadJoined
    <3>q. QED
      BY <2>1, <2>2, <3>1, SameGraph
  <2>3. CASE /\ ~running[Head(todo[t])]
             /\ todo' = [todo EXCEPT ![t] = Tail(todo[t])]
    <3>1. \A n \in Nodes : running'[n] => running[n] /\ n # Head(todo[t])
      BY <2>1, <2>3
    <3>2. running' \in [Nodes -> BOOLEAN]
      BY <1>1, <2>1
    <3>q. QED
      BY <2>1, <2>3, <3>1, <3>2, StopKeepsGraph
  <2>q. QED
    BY <2>1, <2>2, <2>3
<1>3. ASSUME NEW t \in Threads, JoinNode(t) PROVE GraphInv'
  <2>1. /\ UNCHANGED <<app, capturing, alsa, taken, collected, holds, sink>>
        /\ todo[t] # <<>> /\ todo' = [todo EXCEPT ![t] = Tail(todo[t])]
        /\ running' = [running EXCEPT ![Head(todo[t])] = FALSE]
    BY <1>3 DEF JoinNode, capture, graph, publish
  <2>2. running' \in [Nodes -> BOOLEAN]
    BY <1>1, <2>1
  <2>3. \A n \in Nodes : running'[n] => running[n] /\ n # Head(todo[t])
    BY <1>1, <2>1
  <2>q. QED
    BY <2>1, <2>2, <2>3, StopKeepsGraph
<1>q. QED
  BY <1>2, <1>3 DEF StopNodes

LEMMA ServeKeepsGraph ==
    ASSUME GraphInv, Serve PROVE GraphInv'
<1>1. ThreadJoined /\ alsa \in {"none", "reading", "dead"}
  BY DEF GraphInv, GraphTypeOK
<1>2. sink \in {"subscribing", "checking", "leaving"} => todo[Rtsp] = <<>>
  BY DEF GraphInv, OneSubscription
<1>3. ASSUME UNCHANGED <<app, capture, collected, running, holds, todo>>,
             \/ /\ todo[Rtsp] = <<>>
                /\ sink' = "subscribing" => holds[Rtsp] = {}
             \/ sink' \notin {"subscribing", "checking", "leaving"}
      PROVE  GraphInv'
  <2>1. UNCHANGED <<app, capturing, alsa, taken, collected, running, holds, todo>>
    BY <1>3 DEF capture
  <2>2. ThreadJoined' /\ alsa' \in {"none", "reading", "dead"}
    BY <1>1, <2>1 DEF ThreadJoined
  <2>q. QED
    BY <1>3, <2>1, <2>2, SameGraph
<1>4. CASE Decide
  BY <1>3, <1>4 DEF Decide, Subscribed, capture, graph, workers
<1>5. CASE Keep \/ Left
  BY <1>3, <1>5 DEF Keep, Left, capture, graph, workers
<1>6. CASE SinkSubscribes
  <2>1. todo[Rtsp] = <<>> /\ holds[Rtsp] = {}
    BY <1>2, <1>6 DEF SinkSubscribes, GraphInv, OneSubscription
  <2>2. UNCHANGED <<app, capturing, alsa, taken, collected, todo>>
    BY <1>6 DEF SinkSubscribes, capture
  <2>3. CASE Subscribe(Rtsp) /\ sink' = "checking"
    <3>1. PICK chosen \in SUBSET Nodes : Grow(Rtsp, chosen)
      BY <2>3, ThreadsAreApart, SubscribeGrows
    <3>q. QED
      BY <2>1, <2>2, <2>3, <3>1, ThreadsAreApart, GrowKeepsGraph
  <2>4. CASE sink' = "waiting" /\ UNCHANGED <<graph, running>>
    BY <1>3, <1>6, <2>4 DEF SinkSubscribes, graph, capture
  <2>q. QED
    BY <1>6, <2>3, <2>4 DEF SinkSubscribes
<1>7. CASE LetGo
  <2>1. /\ Reset(Rtsp) /\ sink' \in {"waiting", "left"} /\ todo[Rtsp] = <<>>
        /\ UNCHANGED <<app, capturing, alsa, taken, collected, running>>
    BY <1>2, <1>7 DEF LetGo, capture, workers
  <2>q. QED
    BY <2>1, ThreadsAreApart, ResetKeepsGraph
<1>q. QED
  BY <1>4, <1>5, <1>6, <1>7 DEF Serve

LEMMA ShareKeepsGraph ==
    ASSUME GraphInv, Share PROVE GraphInv'
<1>1. ASSUME NEW s \in Others, OtherSubscribes(s) PROVE GraphInv'
  <2>1. /\ s \in Subscribers /\ s # Rtsp /\ Subscribe(s)
        /\ holds[s] = {} /\ todo[s] = <<>> /\ sink' = sink
        /\ UNCHANGED <<app, capturing, alsa, taken, collected, todo>>
    BY <1>1, ThreadsAreApart DEF OtherSubscribes, capture, publish
  <2>2. PICK chosen \in SUBSET Nodes : Grow(s, chosen)
    BY <2>1, SubscribeGrows
  <2>q. QED
    BY <2>1, <2>2, GrowKeepsGraph
<1>2. ASSUME NEW s \in Others, OtherResets(s) PROVE GraphInv'
  <2>1. /\ s \in Subscribers /\ s # Rtsp /\ Reset(s) /\ todo[s] = <<>> /\ sink' = sink
        /\ UNCHANGED <<app, capturing, alsa, taken, collected, running>>
    BY <1>2, ThreadsAreApart
    DEF OtherResets, capture, workers, publish, GraphInv, OneSubscription
  <2>q. QED
    BY <2>1, ResetKeepsGraph
<1>q. QED
  BY <1>1, <1>2 DEF Share

(* A start: all that are held may run, whether it succeeds or fails.       *)
LEMMA StartKeepsGraph ==
    ASSUME GraphInv, StartCapture PROVE GraphInv'
<1>1. /\ app \in {"stopped", "failed"} /\ alsa = "none" /\ taken = 0 /\ capturing = FALSE
      /\ \A n \in Nodes : running[n] \in BOOLEAN
      /\ running \in [Nodes -> BOOLEAN]
      /\ \A n \in Nodes : running[n] => Answerable(n)
  BY DEF StartCapture, GraphInv, GraphTypeOK, ThreadJoined, RunningIsAnswered
<1>2. UNCHANGED <<taken, collected, holds, todo, sink>>
  BY DEF StartCapture, graph, publish
<1>3. /\ running' \in [Nodes -> BOOLEAN]
      /\ \A n \in Nodes : running'[n] => running[n] \/ n \in Held
  <2>1. CASE StartNodes(Held)
    BY <2>1, Zenon DEF StartNodes
  <2>2. CASE OpenFails
    BY <1>1, <2>2 DEF OpenFails
  <2>3. ASSUME NEW k, NodeFails(k)
        PROVE  /\ running' \in [Nodes -> BOOLEAN]
               /\ \A n \in Nodes : running'[n] => running[n] \/ n \in Held
    <3>1. PICK begun \in SUBSET Alive(k) :
             running' = [n \in Nodes |->
                IF n \in Alive(k) THEN running[n] \/ n \in begun
                ELSE running[n] /\ ~(k = "encoder" /\ n \in Held)]
      BY <2>3 DEF NodeFails
    <3>2. Alive(k) \subseteq Held
      BY DEF Alive
    <3>3. ASSUME NEW n \in Nodes
          PROVE  (IF n \in Alive(k) THEN running[n] \/ n \in begun
                  ELSE running[n] /\ ~(k = "encoder" /\ n \in Held)) \in BOOLEAN
      BY Zenon
    <3>4. running' \in [Nodes -> BOOLEAN]
      BY <3>1, <3>3, Zenon
    <3>5. ASSUME NEW n \in Nodes, running'[n] PROVE running[n] \/ n \in Held
      BY <3>1, <3>2, <3>5
    <3>q. QED
      BY <3>4, <3>5
  <2>4. CASE ThreadFails
    BY <2>4, Zenon DEF ThreadFails
  <2>q. QED
    BY <2>1, <2>2, <2>3, <2>4 DEF StartCapture
<1>4. \/ app' = "running" /\ capturing' = TRUE /\ alsa' = "reading"
      \/ app' = "failed" /\ UNCHANGED <<capturing, alsa>>
  BY DEF StartCapture
<1>5. app' \in {"running", "failed"}
  BY <1>4
<1>6. capturing' \in BOOLEAN
  BY <1>1, <1>4, Zenon
<1>7. GraphTypeOK' /\ ThreadJoined' /\ OneSubscription'
  BY <1>1, <1>2, <1>3, <1>4, <1>6 DEF GraphInv, GraphTypeOK, ThreadJoined, OneSubscription
<1>8. ASSUME NEW n \in Nodes, running'[n] PROVE Answerable(n)'
  <2>1. Held' = Held
    BY <1>2 DEF Held
  <2>2. n \in Held \/ \E s \in Subscribers : n \in ToSet(todo[s])
    BY <1>1, <1>3, <1>8 DEF Answerable
  <2>q. QED
    BY <1>2, <1>5, <2>1, <2>2 DEF Answerable
<1>q. QED
  BY <1>7, <1>8 DEF GraphInv, RunningIsAnswered

(* A stop: all that were held when it began.                               *)
LEMMA StopCaptureKeepsGraph ==
    ASSUME GraphInv, StopCapture \/ JoinCapture \/ CaptureStopped PROVE GraphInv'
<1>1. /\ UNCHANGED <<running, holds, sink>>
      /\ Held \in SUBSET Nodes /\ collected \in SUBSET Nodes
  BY DEF StopCapture, JoinCapture, CaptureStopped, graph, workers, publish,
         GraphInv, GraphTypeOK, Held
<1>2. \A n \in Nodes : running'[n] => Answerable(n)
  BY <1>1 DEF GraphInv, RunningIsAnswered
<1>3. CASE StopCapture
  <2>1. /\ app \in {"running", "failed"} /\ app' = "joining" /\ capturing' = FALSE
        /\ collected' = Held /\ UNCHANGED <<alsa, taken, todo>>
    BY <1>3 DEF StopCapture
  <2>2. capturing' \in BOOLEAN
    BY <2>1, Zenon
  <2>3. GraphTypeOK' /\ ThreadJoined' /\ OneSubscription'
    BY <1>1, <2>1, <2>2 DEF GraphInv, GraphTypeOK, ThreadJoined, OneSubscription
  <2>4. RunningIsAnswered'
    BY <1>2, <2>1 DEF RunningIsAnswered, Answerable
  <2>q. QED
    BY <2>3, <2>4 DEF GraphInv
<1>4. CASE JoinCapture
  <2>1. /\ app = "joining" /\ app' = "stopping" /\ taken = 0 /\ alsa' = "none"
        /\ todo' = [todo EXCEPT !["app"] = Ordered(collected, "encoder")]
        /\ UNCHANGED <<capturing, taken, collected>>
    BY <1>4 DEF JoinCapture
  <2>2. /\ Ordered(collected, "encoder") \in Seq(Nodes)
        /\ ToSet(Ordered(collected, "encoder")) = collected
    BY <1>1, OrderedListsAll
  <2>3. /\ todo' \in [Threads -> Seq(Nodes)]
        /\ todo'["app"] = Ordered(collected, "encoder")
        /\ \A s \in Subscribers : todo'[s] = todo[s]
    BY <2>1, <2>2, ThreadsAreApart DEF GraphInv, GraphTypeOK
  <2>4. GraphTypeOK' /\ ThreadJoined'
    BY <1>1, <2>1, <2>3 DEF GraphInv, GraphTypeOK, ThreadJoined
  <2>5. OneSubscription'
    BY <1>1, <2>3, ThreadsAreApart DEF GraphInv, OneSubscription
  <2>6. ASSUME NEW n \in Nodes, running'[n] PROVE Answerable(n)'
    <3>1. n \in collected \/ \E s \in Subscribers : n \in ToSet(todo[s])
      BY <1>2, <2>1, <2>6 DEF Answerable
    <3>q. QED
      BY <2>1, <2>2, <2>3, <3>1 DEF Answerable
  <2>q. QED
    BY <2>4, <2>5, <2>6 DEF GraphInv, RunningIsAnswered
<1>5. CASE CaptureStopped
  <2>1. /\ app = "stopping" /\ todo["app"] = <<>> /\ app' = "stopped" /\ collected' = {}
        /\ UNCHANGED <<capturing, alsa, taken, todo>>
    BY <1>5 DEF CaptureStopped
  <2>2. GraphTypeOK' /\ ThreadJoined' /\ OneSubscription'
    BY <1>1, <2>1 DEF GraphInv, GraphTypeOK, ThreadJoined, OneSubscription
  <2>3. RunningIsAnswered'
    BY <1>2, <2>1, NobodyListed DEF RunningIsAnswered, Answerable
  <2>q. QED
    BY <2>2, <2>3 DEF GraphInv
<1>q. QED
  BY <1>3, <1>4, <1>5

LEMMA GraphInit == Init => GraphInv
<1> SUFFICES ASSUME Init PROVE GraphInv
  OBVIOUS
<1>1. /\ app = "stopped" /\ capturing = FALSE /\ alsa = "none" /\ taken = 0 /\ collected = {}
      /\ running = [n \in Nodes |-> FALSE] /\ holds = [s \in Subscribers |-> {}]
      /\ todo = [t \in Threads |-> <<>>] /\ sink = "waiting"
  BY DEF Init
<1>2. capturing \in BOOLEAN /\ running \in [Nodes -> BOOLEAN]
  BY <1>1, Zenon
<1>3. GraphTypeOK
  BY <1>1, <1>2, EmptyRow DEF GraphTypeOK
<1>4. ThreadJoined /\ OneSubscription /\ RunningIsAnswered
  BY <1>1, ThreadsAreApart DEF ThreadJoined, OneSubscription, RunningIsAnswered
<1>q. QED
  BY <1>3, <1>4 DEF GraphInv

LEMMA GraphNext == GraphInv /\ [Next]_vars => GraphInv'
<1> SUFFICES ASSUME GraphInv, [Next]_vars PROVE GraphInv'
  OBVIOUS
<1>q. QED
  BY WorkKeepsGraph, StopNodesKeepsGraph, ServeKeepsGraph, ShareKeepsGraph,
     StartKeepsGraph, StopCaptureKeepsGraph
  DEF Next, Run

(* When stopCapture() has returned the capture thread is gone, and a node  *)
(* that still works is being stopped by the subscriber that let go of it,  *)
(* however subscriptions were made and dropped meanwhile.                  *)
THEOREM CaptureStopsWhole == Spec => []StopIsComplete
<1>1. GraphInv => StopIsComplete
  BY DEF GraphInv, ThreadJoined, RunningIsAnswered, Answerable, StopIsComplete
<1>q. QED
  BY <1>1, GraphInit, GraphNext, PTL DEF Spec
-----------------------------------------------------------------------------
(* AudioPlaybackPipeline.                                                  *)

(* What a sequence lasts up to its n-th item.                              *)
Lasts(s, q) ==
    s = [n \in 0..Len(q) |-> IF n = 0 THEN 0 ELSE s[n - 1] + q[n].duration]

PlaybackInv ==
    /\ playQueue \in Seq(Items) /\ queuedDuration = Duration(playQueue)
    /\ Len(playQueue) <= MaxQueuedItems
    /\ queuedDuration <= MaxQueued \/ Len(playQueue) = 1
    /\ owner \in {"idle", "joining", "draining"}
    /\ owner # "idle" => stopRequested /\ playQueue = <<>>
    /\ DeviceOutlivesWorker

(* What holds of 0 and of the number after each, holds of all of them.     *)
LEMMA Counting ==
    ASSUME NEW T \in SUBSET Nat, 0 \in T, \A n \in T : n + 1 \in T
    PROVE  T = Nat
<1> DEFINE I == Nat \ T
<1> SUFFICES ASSUME I # {} PROVE FALSE
  OBVIOUS
<1>1. PICK x \in I : \A y \in I : ~ (<<y, x>> \in OpToRel(<, Nat))
  BY NatLessThanWellFounded, WFMin
<1>2. x \in Nat /\ x # 0 /\ x - 1 \in Nat
  OBVIOUS
<1>3. <<x - 1, x>> \in {p \in Nat \X Nat : p[1] < p[2]}
  BY <1>2
<1>4. x - 1 \in T
  BY <1>1, <1>2, <1>3, Zenon DEF OpToRel
<1>q. QED
  BY <1>2, <1>4

(* Each item of a queue lasts for some time.                               *)
LEMMA ItemsLast ==
    ASSUME NEW q \in Seq(Items)
    PROVE  Len(q) \in Nat /\ \A i \in 1..Len(q) : q[i] \in Items /\ q[i].duration \in Nat \ {0}
<1>1. Len(q) \in Nat /\ \A i \in 1..Len(q) : q[i] \in Items
  BY ElementOfSeq, LenProperties
<1>q. QED
  BY <1>1, PlaybackAssumption

(* What q lasts up to its item n exists.                                   *)
Partial(s, q, n) ==
    s[0] = 0 /\ \A k \in 1..n : s[k] = s[k - 1] + q[k].duration

LEMMA SumExists ==
    ASSUME NEW q \in Seq(Items)
    PROVE  \E s \in [0..Len(q) -> Nat] : Lasts(s, q)
<1> DEFINE Summable(n) == \E s \in [0..n -> Nat] : Partial(s, q, n)
           T == {n \in Nat : n =< Len(q) => Summable(n)}
<1>l. Len(q) \in Nat
  BY ItemsLast
<1>1. 0 \in T
  <2>1. [k \in 0..0 |-> 0] \in [0..0 -> Nat] /\ Partial([k \in 0..0 |-> 0], q, 0)
    BY DEF Partial
  <2>q. QED
    BY <2>1
<1>2. ASSUME NEW n \in T PROVE n + 1 \in T
  <2>1. CASE n + 1 > Len(q)
    BY <2>1, ItemsLast
  <2>2. CASE n + 1 =< Len(q)
    <3>1. PICK s \in [0..n -> Nat] : Partial(s, q, n)
      BY <2>2, ItemsLast
    <3>2. q[n + 1].duration \in Nat /\ s[n] \in Nat
      BY <2>2, ItemsLast
    <3> DEFINE t == [k \in 0..(n + 1) |-> IF k = n + 1 THEN s[n] + q[n + 1].duration ELSE s[k]]
    <3>3. t \in [0..(n + 1) -> Nat]
      BY <3>2
    <3>4. \A k \in 0..n : t[k] = s[k]
      OBVIOUS
    <3>5. t[n + 1] = s[n] + q[n + 1].duration
      OBVIOUS
    <3>6. Partial(t, q, n + 1)
      <4> HIDE DEF t
      <4>1. ASSUME NEW k \in 1..(n + 1) PROVE t[k] = t[k - 1] + q[k].duration
        <5>1. CASE k = n + 1
          BY <5>1, <3>4, <3>5
        <5>2. CASE k # n + 1
          <6>1. k \in 1..n /\ k \in 0..n /\ k - 1 \in 0..n
            BY <5>2
          <6>q. QED
            BY <6>1, <3>1, <3>4 DEF Partial
        <5>q. QED
          BY <5>1, <5>2
      <4>2. t[0] = 0
        <5>1. 0 \in 0..n
          OBVIOUS
        <5>q. QED
          BY <5>1, <3>1, <3>4 DEF Partial
      <4>q. QED
        BY <4>1, <4>2 DEF Partial
    <3> HIDE DEF t
    <3>7. Summable(n + 1)
      BY <3>3, <3>6
    <3> HIDE DEF Summable
    <3>q. QED
      BY <3>7
  <2>3. n \in Nat
    OBVIOUS
  <2> HIDE DEF T
  <2>q. QED
    BY <2>1, <2>2, <2>3, <1>l
<1>3. T = Nat
  <2> HIDE DEF T
  <2>1. T \subseteq Nat
    BY DEF T
  <2>q. QED
    BY <1>1, <1>2, <2>1, Counting
<1>4. PICK s \in [0..Len(q) -> Nat] : Partial(s, q, Len(q))
  BY <1>3, ItemsLast
<1>5. \A n \in 0..Len(q) : s[n] = IF n = 0 THEN 0 ELSE s[n - 1] + q[n].duration
  BY <1>4, ItemsLast DEF Partial
<1>6. Lasts(s, q)
  BY <1>5 DEF Lasts
<1>q. QED
  BY <1>6

(* And what is buffered is the last of it.                                 *)
LEMMA DurationIsSum ==
    ASSUME NEW q \in Seq(Items)
    PROVE  \E s \in [0..Len(q) -> Nat] : Lasts(s, q) /\ Duration(q) = s[Len(q)]
<1> DEFINE sum == CHOOSE s : Lasts(s, q)
<1>1. Lasts(sum, q)
  BY SumExists
<1>2. PICK t \in [0..Len(q) -> Nat] : Lasts(t, q)
  BY SumExists
<1>3. Duration(q) = sum[Len(q)]
  BY Zenon DEF Duration, Lasts
<1>q. QED
  BY <1>1, <1>3

LEMMA DurationUnfolds ==
    ASSUME NEW q \in Seq(Items), NEW s \in [0..Len(q) -> Nat], Lasts(s, q)
    PROVE  s[0] = 0 /\ \A n \in 1..Len(q) : s[n] = s[n - 1] + q[n].duration
<1>1. \A n \in 0..Len(q) : s[n] = IF n = 0 THEN 0 ELSE s[n - 1] + q[n].duration
  BY DEF Lasts
<1>q. QED
  BY <1>1, ItemsLast

(* The buffered duration is a number, none for the empty queue.            *)
LEMMA DurationIsNat ==
    ASSUME NEW q \in Seq(Items) PROVE Duration(q) \in Nat /\ (q = <<>> => Duration(q) = 0)
<1>1. PICK s \in [0..Len(q) -> Nat] : Lasts(s, q) /\ Duration(q) = s[Len(q)]
  BY DurationIsSum
<1>2. Len(q) \in Nat /\ (q = <<>> => Len(q) = 0)
  BY ItemsLast, EmptySeq
<1>3. s[0] = 0
  BY <1>1, DurationUnfolds
<1>q. QED
  BY <1>1, <1>2, <1>3

(* Two queues one after the other last as long as both.                    *)
LEMMA DurationOfConcat ==
    ASSUME NEW p \in Seq(Items), NEW r \in Seq(Items)
    PROVE  Duration(p \o r) = Duration(p) + Duration(r)
<1> DEFINE q == p \o r
           m == Len(p)
           k == Len(r)
<1>1. PICK a \in [0..m -> Nat] : Lasts(a, p) /\ Duration(p) = a[m]
  BY DurationIsSum
<1>2. PICK b \in [0..k -> Nat] : Lasts(b, r) /\ Duration(r) = b[k]
  BY DurationIsSum
<1>q1. q \in Seq(Items) /\ Len(q) = m + k
  BY ConcatProperties
<1>q2. \A i \in 1..(m + k) : q[i] = IF i =< m THEN p[i] ELSE r[i - m]
  BY ConcatProperties
<1>3. PICK s \in [0..(m + k) -> Nat] : Lasts(s, q) /\ Duration(q) = s[m + k]
  BY <1>q1, DurationIsSum
<1>4. m \in Nat /\ k \in Nat
  BY ItemsLast
<1>5. a[0] = 0 /\ \A n \in 1..m : a[n] = a[n - 1] + p[n].duration
  BY <1>1, DurationUnfolds
<1>6. b[0] = 0 /\ \A n \in 1..k : b[n] = b[n - 1] + r[n].duration
  BY <1>2, DurationUnfolds
<1>7. s[0] = 0 /\ \A n \in 1..(m + k) : s[n] = s[n - 1] + q[n].duration
  BY <1>3, <1>q1, DurationUnfolds
<1> HIDE DEF q, m, k
<1>8. {n \in Nat : n =< m => s[n] = a[n]} = Nat
  <2> DEFINE T == {n \in Nat : n =< m => s[n] = a[n]}
  <2>1. 0 \in T
    BY <1>5, <1>7
  <2>2. ASSUME NEW n \in T, n + 1 =< m PROVE s[n + 1] = a[n + 1]
    <3>1. n =< m /\ n + 1 \in 1..m /\ n + 1 \in 1..(m + k)
      BY <2>2, <1>4
    <3>2. s[n] = a[n] /\ (n + 1) - 1 = n
      BY <3>1
    <3>3. q[n + 1] = p[n + 1]
      BY <3>1, <1>q2
    <3>q. QED
      BY <3>1, <3>2, <3>3, <1>5, <1>7
  <2>3. ASSUME NEW n \in T PROVE n + 1 \in T
    BY <2>2, n \in Nat, n + 1 \in Nat
  <2>4. T \in SUBSET Nat
    OBVIOUS
  <2> HIDE DEF T
  <2>5. T = Nat
    BY <2>1, <2>3, <2>4, Counting
  <2>q. QED
    BY <2>5 DEF T
<1>9. {n \in Nat : n =< k => s[m + n] = a[m] + b[n]} = Nat
  <2> DEFINE T == {n \in Nat : n =< k => s[m + n] = a[m] + b[n]}
  <2>0. s[m] = a[m] /\ a[m] \in Nat
    <3>1. m \in {n \in Nat : n =< m => s[n] = a[n]}
      BY <1>8, <1>4
    <3>q. QED
      BY <3>1, <1>4
  <2>1. 0 \in T
    BY <2>0, <1>6, <1>4
  <2>2. ASSUME NEW n \in T, n + 1 =< k PROVE s[m + (n + 1)] = a[m] + b[n + 1]
    <3>1. /\ n =< k /\ n + 1 \in 1..k /\ m + n + 1 \in 1..(m + k)
          /\ ~(m + n + 1 =< m) /\ (m + n + 1) - m = n + 1
          /\ (m + n + 1) - 1 = m + n /\ (n + 1) - 1 = n /\ m + (n + 1) = m + n + 1
      BY <2>2, <1>4
    <3>2. s[m + n] = a[m] + b[n]
      BY <3>1
    <3>3. q[m + n + 1] = r[n + 1]
      BY <3>1, <1>q2
    <3>4. r[n + 1].duration \in Nat /\ b[n] \in Nat
      BY <3>1, ItemsLast DEF k
    <3>5. s[m + n + 1] = (a[m] + b[n]) + r[n + 1].duration
      BY <3>1, <3>2, <3>3, <1>7
    <3>6. b[n + 1] = b[n] + r[n + 1].duration
      BY <3>1, <1>6
    <3>7. (a[m] + b[n]) + r[n + 1].duration = a[m] + (b[n] + r[n + 1].duration)
      BY <3>4, <2>0
    <3>8. m + (n + 1) = m + n + 1
      BY <3>1
    <3>q. QED
      BY <3>5, <3>6, <3>7, <3>8
  <2>3. ASSUME NEW n \in T PROVE n + 1 \in T
    BY <2>2, n \in Nat, n + 1 \in Nat
  <2>4. T \in SUBSET Nat
    OBVIOUS
  <2> HIDE DEF T
  <2>5. T = Nat
    BY <2>1, <2>3, <2>4, Counting
  <2>q. QED
    BY <2>5 DEF T
<1>10. s[m + k] = a[m] + b[k]
  <2>1. k \in {n \in Nat : n =< k => s[m + n] = a[m] + b[n]}
    BY <1>9, <1>4
  <2>q. QED
    BY <2>1, <1>4
<1>q. QED
  BY <1>10, <1>1, <1>2, <1>3 DEF q, m, k

(* One item more, or one less at the front.                                *)
LEMMA DurationOfOne ==
    ASSUME NEW i \in Items PROVE <<i>> \in Seq(Items) /\ Duration(<<i>>) = i.duration
<1>1. <<i>> \in Seq(Items) /\ Len(<<i>>) = 1 /\ <<i>>[1] = i
  OBVIOUS
<1>2. PICK s \in [0..Len(<<i>>) -> Nat] : Lasts(s, <<i>>) /\ Duration(<<i>>) = s[Len(<<i>>)]
  BY <1>1, DurationIsSum
<1>3. s[0] = 0 /\ \A n \in 1..Len(<<i>>) : s[n] = s[n - 1] + <<i>>[n].duration
  BY <1>1, <1>2, DurationUnfolds
<1>4. s[1] = i.duration
  BY <1>1, <1>3, PlaybackAssumption
<1>q. QED
  BY <1>1, <1>2, <1>4

LEMMA DurationOfAppend ==
    ASSUME NEW q \in Seq(Items), NEW i \in Items
    PROVE  Duration(Append(q, i)) = Duration(q) + i.duration
<1>1. Append(q, i) = q \o <<i>>
  BY AppendIsConcat
<1>q. QED
  BY <1>1, DurationOfOne, DurationOfConcat

LEMMA DurationOfTail ==
    ASSUME NEW q \in Seq(Items), q # <<>>
    PROVE  Duration(q) = q[1].duration + Duration(Tail(q))
<1>1. Tail(q) \in Seq(Items) /\ q[1] \in Items
  BY HeadTailProperties, ItemsLast, EmptySeq
<1>2. q = <<q[1]>> \o Tail(q)
  <2>1. 1 \in 1..Len(q) /\ Len(q) \in 1..Len(q)
    BY EmptySeq, ItemsLast
  <2>2. SubSeq(q, 1, Len(q)) = <<q[1]>> \o SubSeq(q, 1 + 1, Len(q))
    BY <2>1, SubSeqRecursiveFirst
  <2>q. QED
    BY <2>2, SubSeqFull, TailIsSubSeq
<1>q. QED
  BY <1>1, <1>2, DurationOfOne, DurationOfConcat

(* What is evicted and what is kept.                                       *)
LEMMA DurationOfSplit ==
    ASSUME NEW q \in Seq(Items), NEW n \in 0..Len(q)
    PROVE  /\ SubSeq(q, n + 1, Len(q)) \in Seq(Items)
           /\ Len(SubSeq(q, n + 1, Len(q))) = Len(q) - n
           /\ Duration(q) = Duration(SubSeq(q, 1, n)) + Duration(SubSeq(q, n + 1, Len(q)))
<1>1. Len(q) \in Nat /\ \A i \in 1..Len(q) : q[i] \in Items
  BY ItemsLast
<1>2. /\ SubSeq(q, n + 1, Len(q)) \in Seq(Items)
      /\ Len(SubSeq(q, n + 1, Len(q))) = IF n + 1 =< Len(q) THEN Len(q) - (n + 1) + 1 ELSE 0
  <2>1. n + 1 \in Int /\ Len(q) \in Int /\ \A i \in (n + 1)..Len(q) : q[i] \in Items
    BY <1>1
  <2>q. QED
    BY <2>1, SubSeqProperties
<1>3. SubSeq(q, 1, n) \in Seq(Items)
  <2>1. 1 \in Int /\ n \in Int /\ \A i \in 1..n : q[i] \in Items
    BY <1>1
  <2>q. QED
    BY <2>1, SubSeqProperties
<1>4. SubSeq(q, 1, n) \o SubSeq(q, n + 1, Len(q)) = q
  <2>1. 1 \in 1..Len(q) + 1 /\ n \in 1 - 1..Len(q) /\ Len(q) \in n..Len(q)
    BY <1>1
  <2>q. QED
    BY <2>1, ConcatAdjacentSubSeq, SubSeqFull
<1>5. Duration(SubSeq(q, 1, n) \o SubSeq(q, n + 1, Len(q)))
        = Duration(SubSeq(q, 1, n)) + Duration(SubSeq(q, n + 1, Len(q)))
  BY <1>2, <1>3, DurationOfConcat
<1>6. Len(SubSeq(q, n + 1, Len(q))) = Len(q) - n
  BY <1>1, <1>2
<1>q. QED
  BY <1>2, <1>4, <1>5, <1>6
-----------------------------------------------------------------------------
(* There is always something to evict that makes room: all of it.          *)
LEMMA EvictedMakesRoom ==
    ASSUME playQueue \in Seq(Items), NEW i \in Items
    PROVE  Evicted(i) \in 0..Len(playQueue) /\ Makes(i, Evicted(i))
<1> DEFINE I == {n \in 0..Len(playQueue) : Makes(i, n)}
<1>l. Len(playQueue) \in Nat
  BY ItemsLast
<1>1. Len(playQueue) \in I
  BY <1>l, SubSeqEmpty DEF Makes
<1>2. I \subseteq Nat /\ I # {}
  BY <1>1, <1>l
<1>3. PICK x \in I : \A y \in I : ~ (<<y, x>> \in OpToRel(<, Nat))
  BY <1>2, NatLessThanWellFounded, WFMin
<1>4. \A m \in 0..(x - 1) : ~Makes(i, m)
  <2> SUFFICES ASSUME NEW m \in 0..(x - 1), Makes(i, m) PROVE FALSE
    OBVIOUS
  <2>1. m \in I
    BY <1>l
  <2>2. <<m, x>> \in {p \in Nat \X Nat : p[1] < p[2]}
    BY <1>2
  <2>q. QED
    BY <1>3, <2>1, <2>2, Zenon DEF OpToRel
<1>5. \E n \in 0..Len(playQueue) : Makes(i, n) /\ \A m \in 0..(n - 1) : ~Makes(i, m)
  BY <1>3, <1>4
<1>q. QED
  BY <1>5, Zenon DEF Evicted

LEMMA PlaybackStarts == PlaybackInit => PlaybackInv
<1> SUFFICES ASSUME PlaybackInit PROVE PlaybackInv
  OBVIOUS
<1>1. playQueue \in Seq(Items) /\ Len(playQueue) = 0 /\ Duration(playQueue) = 0
  BY EmptySeq, DurationIsNat DEF PlaybackInit
<1>q. QED
  BY <1>1, PlaybackAssumption DEF PlaybackInit, PlaybackInv, DeviceOutlivesWorker

(* push() keeps the queue within its limits.                               *)
LEMMA PushKeeps ==
    ASSUME PlaybackInv, NEW i \in Items, Push(i) PROVE PlaybackInv'
<1> DEFINE n == Evicted(i)
           rest == SubSeq(playQueue, n + 1, Len(playQueue))
<1>1. n \in 0..Len(playQueue) /\ Makes(i, n)
  BY EvictedMakesRoom DEF PlaybackInv
<1>2. /\ rest \in Seq(Items) /\ Len(rest) \in Nat /\ Duration(rest) \in Nat
      /\ (rest = <<>> => Len(rest) = 0 /\ Duration(rest) = 0)
      /\ Duration(playQueue) = Duration(SubSeq(playQueue, 1, n)) + Duration(rest)
  BY <1>1, DurationOfSplit, DurationIsNat, ItemsLast, EmptySeq DEF PlaybackInv
<1>3. /\ playQueue' = Append(rest, i)
      /\ queuedDuration' = queuedDuration + i.duration - Duration(SubSeq(playQueue, 1, n))
  BY DEF Push, Kept
<1>4. rest = <<>> \/ (Len(rest) < MaxQueuedItems /\ Duration(rest) + i.duration <= MaxQueued)
  BY <1>1 DEF Makes
<1>5. Duration(SubSeq(playQueue, 1, n)) \in Nat
  <2>1. SubSeq(playQueue, 1, n) \in Seq(Items)
    <3>1. 1 \in Int /\ n \in Int /\ \A k \in 1..n : playQueue[k] \in Items
      BY <1>1, ItemsLast DEF PlaybackInv
    <3>q. QED
      BY <3>1, SubSeqProperties
  <2>q. QED
    BY <2>1, DurationIsNat
<1>6. i.duration \in Nat \ {0}
  BY PlaybackAssumption
<1> HIDE DEF n, rest
<1>7. /\ playQueue' \in Seq(Items) /\ Len(playQueue') = Len(rest) + 1
      /\ Duration(playQueue') = Duration(rest) + i.duration
  BY <1>2, <1>3, AppendProperties, DurationOfAppend
<1>8. queuedDuration' = Duration(rest) + i.duration
  BY <1>2, <1>3, <1>5, <1>6 DEF PlaybackInv
<1>9. /\ Len(playQueue') <= MaxQueuedItems
      /\ queuedDuration' <= MaxQueued \/ Len(playQueue') = 1
  BY <1>2, <1>4, <1>6, <1>7, <1>8, PlaybackAssumption
<1>10. /\ owner' = owner /\ owner = "idle" /\ UNCHANGED <<pc, device>>
  BY DEF Push, PlaybackInv, control, worker, card
<1>q. QED
  BY <1>7, <1>8, <1>9, <1>10 DEF PlaybackInv, DeviceOutlivesWorker

(* The worker takes the oldest item.                                       *)
LEMMA TakeKeeps ==
    ASSUME PlaybackInv, Take PROVE PlaybackInv'
<1>1. CASE stopRequested
  BY <1>1 DEF Take, PlaybackInv, DeviceOutlivesWorker, pushed, control, card
<1>2. CASE ~stopRequested
  <2>1. /\ playQueue # <<>> /\ playQueue' = Tail(playQueue)
        /\ queuedDuration' = queuedDuration - playQueue[1].duration
        /\ UNCHANGED <<owner, device>> /\ pc = "wait"
    BY <1>2 DEF Take, Buffered, control, card
  <2>2. /\ playQueue' \in Seq(Items) /\ Len(playQueue') = Len(playQueue) - 1
        /\ Len(playQueue) \in Nat \ {0} /\ playQueue[1].duration \in Nat \ {0}
    BY <2>1, HeadTailProperties, EmptySeq, ItemsLast DEF PlaybackInv
  <2>3. /\ Duration(playQueue) = playQueue[1].duration + Duration(playQueue')
        /\ Duration(playQueue) \in Nat /\ Duration(playQueue') \in Nat
        /\ (playQueue' = <<>> => Duration(playQueue') = 0)
    BY <2>1, <2>2, DurationOfTail, DurationIsNat DEF PlaybackInv
  <2>4. queuedDuration' = Duration(playQueue')
    BY <2>1, <2>2, <2>3 DEF PlaybackInv
  <2>5. Len(playQueue) = 1 => playQueue' = <<>>
    BY <2>2, EmptySeq
  <2>6. Len(playQueue') <= MaxQueuedItems /\ queuedDuration' <= MaxQueued
    BY <2>2, <2>3, <2>4, <2>5, PlaybackAssumption DEF PlaybackInv
  <2>7. owner = "idle" \/ owner = "joining"
    BY <2>1 DEF PlaybackInv, DeviceOutlivesWorker
  <2>8. owner = "idle"
    BY <1>2 DEF PlaybackInv
  <2>q. QED
    BY <2>1, <2>2, <2>4, <2>6, <2>8 DEF PlaybackInv, DeviceOutlivesWorker
<1>q. QED
  BY <1>1, <1>2

(* start() and stop() empty the queue with the duration.                   *)
LEMMA OwnerKeeps ==
    ASSUME PlaybackInv, Start \/ Stop \/ Join \/ Drained PROVE PlaybackInv'
<1>e. <<>> \in Seq(Items) /\ Len(<<>>) = 0 /\ Duration(<<>>) = 0
  BY EmptySeq, DurationIsNat
<1>1. CASE Start
  <2>1. CASE playQueue' = <<>> /\ queuedDuration' = 0 /\ device' = "prepared" /\ owner' = "idle"
    BY <1>e, <2>1, PlaybackAssumption DEF PlaybackInv, DeviceOutlivesWorker
  <2>2. CASE UNCHANGED <<owner, stopRequested, playQueue, queuedDuration, pc, device>>
    BY <2>2 DEF PlaybackInv, DeviceOutlivesWorker
  <2>q. QED
    BY <1>1, <2>1, <2>2 DEF Start, OpenAuto, pushed, card
<1>2. CASE Stop
  BY <1>2, <1>e, PlaybackAssumption DEF Stop, PlaybackInv, DeviceOutlivesWorker, worker, card
<1>3. CASE Join
  BY <1>3 DEF Join, PlaybackInv, DeviceOutlivesWorker, pushed
<1>4. CASE Drained
  BY <1>4, <1>e, PlaybackAssumption DEF Drained, PlaybackInv, DeviceOutlivesWorker, worker
<1>q. QED
  BY <1>1, <1>2, <1>3, <1>4

(* Decoding, writing and the card touch neither the queue nor the owner,   *)
(* and nobody but stop() closes the device.                                *)
LEMMA OthersKeep ==
    ASSUME PlaybackInv,
           \/ Decode \/ Refuse \/ WritePeriod \/ Recover \/ WriteFails \/ Written
           \/ DevicePlays \/ UNCHANGED playbackVars
    PROVE  PlaybackInv'
<1>1. /\ UNCHANGED <<owner, stopRequested, playQueue, queuedDuration>>
      /\ pc' # "off" => pc # "off"
      /\ device' = "closed" => device = "closed"
  BY DEF Decode, Refuse, WritePeriod, Recover, WriteFails, Written, DevicePlays, playbackVars,
         Skip, control, pushed, worker, card
<1>q. QED
  BY <1>1 DEF PlaybackInv, DeviceOutlivesWorker

LEMMA PlaybackSteps == PlaybackInv /\ [PlaybackNext]_playbackVars => PlaybackInv'
BY PushKeeps, TakeKeeps, OwnerKeeps, OthersKeep DEF PlaybackNext, PushAny, Worker

(* The duration the prebuffer test reads is that of the queue, the queue   *)
(* keeps its limits, and the worker never works on what stop() has closed. *)
THEOREM WorkerKnowsItsQueue == PlaybackSpec => []WorkerIsNotMisled
<1>1. PlaybackInv => WorkerIsNotMisled
  <2> SUFFICES ASSUME PlaybackInv PROVE WorkerIsNotMisled
    OBVIOUS
  <2>1. playQueue = <<>> => queuedDuration = 0
    BY DurationIsNat DEF PlaybackInv
  <2>q. QED
    BY <2>1 DEF PlaybackInv, WorkerIsNotMisled, QueueIsWithinLimits
<1>q. QED
  BY <1>1, PlaybackStarts, PlaybackSteps, PTL DEF PlaybackSpec
=============================================================================
