---------------------- MODULE StreamDecodeWorkerProofs ----------------------
(***************************************************************************)
(* Safety of StreamDecodeWorker, for any codec, queue limit and number of  *)
(* NALUs: only sendPacket() can lose a NALU on the way to MPP, and the     *)
(* gate is watched.                                                        *)
(***************************************************************************)
EXTENDS StreamDecodeWorker, Integers, SequenceTheorems, TLAPS

N == Len(ParameterSets)

(* What sendPacket() got once it had the first k parameter sets.           *)
First(k) == {ParameterSets[i] : i \in 1 .. k}

(* From the i-th on, what is in q came in a row, up to the number r.       *)
InARow(q, r, i) ==
    /\ \A j \in i .. Len(q) - 1 : q[j + 1].seq = q[j].seq + 1
    /\ q[Len(q)].seq = r

(* q begins with a boundary of which k parameter sets are gone.            *)
BoundaryLeft(q, r, k) ==
    /\ Len(q) > N - k
    /\ \A i \in 1 .. N - k : q[i].kind = ParameterSets[k + i]
    /\ q[N - k + 1].kind = "randomAccess"
    /\ InARow(q, r, N - k + 1)

(* What is in q, or comes after it, follows number la without a gap.       *)
Follows(q, r, la) ==
    IF q = <<>> THEN la = r ELSE q[1].seq = la + 1 /\ InARow(q, r, 1)

(* What is queued, or comes next, continues what sendPacket() got: pa-     *)
(* rameter sets pr, and pictures up to number la.                          *)
Continues(q, r, pr, la) ==
    IF la = 0
    THEN \E k \in 0 .. N : pr = First(k) /\ BoundaryLeft(q, r, k)
    ELSE Follows(q, r, la)

(* The same, where it is yet to get what the worker has in hand.           *)
QueueContinues ==
    CASE worker = "init" -> Continues(queue, received, {packet.kind}, 0)
      [] worker = "send" ->
            IF last = 0 /\ packet.kind \in ParameterKinds
            THEN Continues(queue, received, primed \cup {packet.kind}, 0)
            ELSE Continues(queue, received, primed, packet.seq)
      [] OTHER -> initialized /\ Continues(queue, received, primed, last)

(* A closed gate has nothing behind it; one that was closed meanwhile has  *)
(* a whole boundary, for a new MPP; otherwise the queue goes on from MPP.  *)
GateInv ==
    /\ waiting => queue = <<>> /\ ~resetFirst
    /\ resetFirst => BoundaryLeft(queue, received, 0)
    /\ ~waiting /\ ~resetFirst /\ ~stopRequested => QueueContinues

(* What the worker has in hand continues what sendPacket() got.            *)
HandInv ==
    /\ worker \in {"init", "send"} => packet \in Packets
    /\ worker = "init" => packet.kind \in ParameterKinds
    /\ worker = "send" => initialized /\ Continuing(packet)

(* Whoever leaves something in the queue of a sleeping worker wakes it.    *)
WakeInv ==
    worker \in {"asleep", "timed"} /\ queue # <<>> =>
        receiver \in {"notify", "reportRecovered"}
-----------------------------------------------------------------------------
(* The constants, as the provers need them.                                *)
LEMMA ConstantFacts ==
    /\ N \in Nat /\ N > 0 /\ N < QueueLimit /\ QueueLimit \in Nat
    /\ MaxPackets \in Nat /\ MaxFailures \in Nat
    /\ DOMAIN ParameterSets = 1 .. N
    /\ \A i \in 1 .. N : ParameterSets[i] \in ParameterKinds
    /\ ParameterKinds \subseteq Kinds
    /\ "randomAccess" \in Kinds /\ "randomAccess" \notin ParameterKinds
BY StreamDecodeWorkerAssumption DEF N, ParameterKinds, Kinds

(* Parameter sets are counted by the largest that sendPacket() got.        *)
LEMMA FirstSets ==
    /\ First(0) = {}
    /\ First(N) = ParameterKinds
    /\ \A k \in 0 .. N - 1 :
          First(k) \cup {ParameterSets[k + 1]} = First(k + 1)
<1>1. First(0) = {}
  BY DEF First
<1>2. First(N) = ParameterKinds
  BY ConstantFacts DEF First, ParameterKinds
<1>3. ASSUME NEW k \in 0 .. N - 1
      PROVE  First(k) \cup {ParameterSets[k + 1]} = First(k + 1)
  <2>1. k \in Int /\ 1 .. k + 1 = (1 .. k) \cup {k + 1}
    BY ConstantFacts
  <2> QED
    BY <2>1, Zenon DEF First
<1> QED
  BY <1>1, <1>2, <1>3

(* The boundary that opens the gate.                                       *)
LEMMA BoundaryParts ==
    ASSUME NEW s \in [ParameterKinds -> 0 .. MaxPackets], Complete(s),
           NEW p \in Packets
    PROVE  /\ Boundary(s, p) \in Seq(Packets)
           /\ Len(Boundary(s, p)) = N + 1
           /\ \A i \in 1 .. N : Boundary(s, p)[i].kind = ParameterSets[i]
           /\ Boundary(s, p)[N + 1] = p
<1> DEFINE b == [i \in 1 .. N |->
                   [kind |-> ParameterSets[i], seq |-> s[ParameterSets[i]]]]
<1>1. \A i \in 1 .. N : b[i] \in Packets
  BY ConstantFacts DEF Complete, Packets
<1>2. b \in [1 .. N -> Packets]
  BY <1>1
<1>3. b \in Seq(Packets)
  BY <1>2, SeqDef, ConstantFacts
<1>4. Len(b) = N
  <2>1. DOMAIN b = 1 .. N /\ DOMAIN b = 1 .. Len(b) /\ Len(b) \in Nat
    BY <1>3, LenProperties
  <2> HIDE DEF b
  <2> QED
    BY <2>1, ConstantFacts
<1>5. \A i \in 1 .. N : b[i].kind = ParameterSets[i]
  OBVIOUS
<1>6. Boundary(s, p) = Append(b, p)
  BY DEF Boundary, N
<1> HIDE DEF b
<1> QED
  BY <1>3, <1>4, <1>5, <1>6, ConstantFacts
-----------------------------------------------------------------------------
(* The type invariant.                                                     *)
LEMMA TypeInit == Init => TypeOK
<1> SUFFICES ASSUME Init PROVE TypeOK
  OBVIOUS
<1>1. 0 \in 0 .. MaxPackets /\ MaxFailures \in 0 .. MaxFailures
  BY ConstantFacts
<1>2. saved \in [ParameterKinds -> 0 .. MaxPackets]
  BY <1>1 DEF Init, Nothing
<1>3. queue \in Seq(Packets) /\ Len(queue) <= QueueLimit
  BY ConstantFacts DEF Init
<1>4. primed \in SUBSET ParameterKinds
  BY DEF Init
<1> QED
  BY <1>1, <1>2, <1>3, <1>4 DEF Init, TypeOK

LEMMA GateType ==
    ASSUME TypeOK, NEW p \in Packets,
           NEW s \in [ParameterKinds -> 0 .. MaxPackets],
           PassGate(p, s)
    PROVE  /\ queue' \in Seq(Packets) /\ Len(queue') <= QueueLimit
           /\ waiting' \in BOOLEAN /\ resetFirst' \in BOOLEAN
           /\ saved' \in [ParameterKinds -> 0 .. MaxPackets]
           /\ ~waiting' => timeoutReported' = FALSE
<1>1. CASE p.kind = "randomAccess" /\ Complete(s)
  <2>1. /\ queue' = Boundary(s, p) /\ saved' = Nothing
        /\ waiting' = FALSE /\ timeoutReported' = FALSE /\ resetFirst' = TRUE
    BY <1>1 DEF PassGate
  <2>2. queue' \in Seq(Packets) /\ Len(queue') <= QueueLimit
    BY <1>1, <2>1, BoundaryParts, ConstantFacts
  <2>3. saved' \in [ParameterKinds -> 0 .. MaxPackets]
    BY <2>1, ConstantFacts DEF Nothing
  <2> QED
    BY <2>1, <2>2, <2>3
<1>2. CASE ~(p.kind = "randomAccess" /\ Complete(s))
  <2>1. /\ queue' = <<>> /\ waiting' = TRUE /\ resetFirst' = FALSE
        /\ saved' = IF p.kind \in ParameterKinds
                    THEN [s EXCEPT ![p.kind] = p.seq] ELSE s
    BY <1>2 DEF PassGate
  <2>2. p.seq \in 0 .. MaxPackets
    BY ConstantFacts DEF Packets
  <2>3. saved' \in [ParameterKinds -> 0 .. MaxPackets]
    BY <2>1, <2>2
  <2>4. <<>> \in Seq(Packets) /\ Len(<<>>) <= QueueLimit
    BY ConstantFacts
  <2> QED
    BY <2>1, <2>3, <2>4
<1> QED
  BY <1>1, <1>2

(* One step for each action that changes more than where a thread is.      *)
LEMMA TypeNext == TypeOK /\ [Next]_vars => TypeOK'
<1> SUFFICES ASSUME TypeOK, [Next]_vars PROVE TypeOK'
  OBVIOUS
<1> USE DEF TypeOK, gate, mpp
<1>1. ASSUME NEW kind \in Kinds, Enqueue(kind)
      PROVE  TypeOK'
  <2> USE <1>1
  <2>1. /\ receiver = "receiving" /\ received < MaxPackets
        /\ received' = received + 1
        /\ UNCHANGED <<stopRequested, worker, packet, mpp, client, health,
                       failuresLeft>>
    BY DEF Enqueue
  <2>2. Arrives(kind) \in Packets /\ received' \in 0 .. MaxPackets
    BY <2>1, ConstantFacts DEF Arrives, Packets
  <2>3. CASE EnqueueNormal(kind)
    <3>1. queue' \in Seq(Packets) /\ Len(queue') <= QueueLimit
      BY <2>2, <2>3, ConstantFacts DEF EnqueueNormal
    <3> QED
      BY <2>1, <2>2, <2>3, <3>1 DEF EnqueueNormal
  <2>4. CASE EnqueueWaiting(kind)
    <3>1. PassGate(Arrives(kind), saved)
      BY <2>4 DEF EnqueueWaiting
    <3>2. timeoutReported' \in BOOLEAN
      BY <2>2, <2>4, <3>1, GateType DEF EnqueueWaiting
    <3>3. receiver' \in {"receiving", "reportRecovered", "notify"}
      BY <2>1, <2>4 DEF EnqueueWaiting
    <3>4. /\ queue' \in Seq(Packets) /\ Len(queue') <= QueueLimit
          /\ waiting' \in BOOLEAN /\ resetFirst' \in BOOLEAN
          /\ saved' \in [ParameterKinds -> 0 .. MaxPackets]
      BY <2>2, <3>1, GateType
    <3> QED
      BY <2>1, <2>2, <3>2, <3>3, <3>4
  <2>5. CASE EnqueueOverflow(kind)
    <3>1. Nothing \in [ParameterKinds -> 0 .. MaxPackets]
      BY ConstantFacts DEF Nothing
    <3>2. PassGate(Arrives(kind), Nothing)
      BY <2>5 DEF EnqueueOverflow
    <3> QED
      BY <2>1, <2>2, <2>5, <3>1, <3>2, GateType DEF EnqueueOverflow
  <2> QED
    BY <2>3, <2>4, <2>5 DEF Enqueue
<1>2. /\ Nothing \in [ParameterKinds -> 0 .. MaxPackets]
      /\ <<>> \in Seq(Packets) /\ Len(<<>>) <= QueueLimit
  BY ConstantFacts DEF Nothing
<1>3. CASE ConnectionFails
  BY <1>2, <1>3 DEF ConnectionFails, EnterRecovery
<1>4. CASE Play \/ ReportRecovered \/ NotifyWorker \/ ReportFailed
  BY <1>4 DEF Play, ReportRecovered, NotifyWorker, ReportFailed, Notify
<1>5. CASE Sleep \/ TimesOut \/ ReportTimeout \/ ReportMppFailed \/ Exit
  <2>1. CASE Sleep
    BY <2>1 DEF Sleep
  <2>2. CASE TimesOut
    <3>1. /\ worker' \in {"reportTimeout", "test"}
          /\ timeoutReported' \in BOOLEAN
      BY <2>2 DEF TimesOut
    <3> QED
      BY <2>2, <3>1 DEF TimesOut
  <2>3. CASE ReportTimeout \/ ReportMppFailed
    BY <2>3 DEF ReportTimeout, ReportMppFailed
  <2>4. CASE Exit
    BY <2>4 DEF Exit
  <2> QED
    BY <1>5, <2>1, <2>2, <2>3, <2>4
<1>6. CASE TakePacket
  <2>1. queue # <<>> /\ packet' = Head(queue) /\ queue' = Tail(queue)
    BY <1>6 DEF TakePacket
  <2>2. /\ packet' \in Packets /\ queue' \in Seq(Packets)
        /\ Len(queue') <= QueueLimit
    BY <2>1, ConstantFacts
  <2>3. initialized' \in BOOLEAN /\ worker' \in {"send", "init"}
    BY <1>6 DEF TakePacket
  <2> QED
    BY <1>6, <2>2, <2>3 DEF TakePacket
<1>7. CASE StartMpp
  <2>1. 0 \in 0 .. MaxPackets
    BY ConstantFacts
  <2>2. /\ initialized' = TRUE /\ primed' = {} /\ last' = 0 /\ lost' = FALSE
        /\ worker' = "send"
        /\ UNCHANGED <<received, queue, waiting, saved, timeoutReported,
                       resetFirst, stopRequested, packet, receiver, client,
                       health, failuresLeft>>
    BY <1>7 DEF StartMpp
  <2> QED
    BY <2>1, <2>2
<1>8. CASE MppFails
  <2>1. failuresLeft' \in 0 .. MaxFailures
    BY <1>8, ConstantFacts DEF MppFails
  <2> QED
    BY <1>2, <1>8, <2>1 DEF MppFails, EnterRecovery
<1>9. CASE Send
  <2>1. worker = "send" => packet \in Packets \/ packet = NoPacket
    OBVIOUS
  <2>2. packet.seq \in 0 .. MaxPackets
    BY ConstantFacts DEF Packets, NoPacket
  <2>3. last' \in 0 .. MaxPackets /\ primed' \in SUBSET ParameterKinds
    BY <1>9, <2>2 DEF Send
  <2>4. failuresLeft' \in 0 .. MaxFailures /\ lost' \in BOOLEAN
    <3>1. CASE UNCHANGED <<lost, failuresLeft>>
      BY <3>1
    <3>2. CASE /\ failuresLeft > 0 /\ failuresLeft' = failuresLeft - 1
               /\ lost' = TRUE
      BY <3>2, ConstantFacts
    <3> QED
      BY <1>9, <3>1, <3>2 DEF Send
  <2>5. /\ packet' = NoPacket /\ worker' = "test"
        /\ UNCHANGED <<received, queue, waiting, saved, timeoutReported,
                       resetFirst, stopRequested, initialized, receiver,
                       client, health>>
    BY <1>9 DEF Send
  <2> QED
    BY <2>3, <2>4, <2>5
<1>10. CASE Stop
  <2>1. CASE RequestStop
    BY <1>2, <2>1 DEF RequestStop
  <2>2. CASE NotifyStop
    BY <2>2 DEF NotifyStop, Notify
  <2>3. CASE JoinWorker
    BY <2>3 DEF JoinWorker
  <2> QED
    BY <1>10, <2>1, <2>2, <2>3 DEF Stop
<1>11. CASE UNCHANGED vars
  BY <1>11 DEF vars
<1> QED
  BY <1>1, <1>3, <1>4, <1>5, <1>6, <1>7, <1>8, <1>9, <1>10, <1>11
     DEF Next, Receiver, Reports, Worker

(* The type invariant holds, for every codec, queue limit and bound.       *)
THEOREM TypeCorrect == Spec => []TypeOK
<1>1. Init => TypeOK
  BY TypeInit
<1>2. TypeOK /\ [Next]_vars => TypeOK'
  BY TypeNext
<1> QED
  BY <1>1, <1>2, PTL DEF Spec
-----------------------------------------------------------------------------
(* The gate is watched.                                                    *)
LEMMA WatchNext ==
    TypeOK /\ WakeInv /\ GateIsWatched /\ [Next]_vars
        => WakeInv' /\ GateIsWatched'
<1> SUFFICES ASSUME TypeOK, WakeInv, GateIsWatched, [Next]_vars
             PROVE  WakeInv' /\ GateIsWatched'
  OBVIOUS
<1> USE DEF WakeInv, GateIsWatched, gate, mpp
<1>1. ASSUME NEW kind \in Kinds, Enqueue(kind)
      PROVE  WakeInv' /\ GateIsWatched'
  <2> USE <1>1
  <2>1. receiver = "receiving" /\ worker' = worker
    BY DEF Enqueue
  <2>2. CASE EnqueueNormal(kind)
    BY <2>1, <2>2 DEF EnqueueNormal
  <2>3. CASE EnqueueWaiting(kind)
    BY <2>1, <2>3 DEF EnqueueWaiting, PassGate
  <2>4. CASE EnqueueOverflow(kind)
    <3>1. queue # <<>> /\ worker \notin {"asleep", "timed"}
      BY <2>1, <2>4, ConstantFacts DEF EnqueueOverflow
    <3> QED
      BY <2>1, <3>1
  <2> QED
    BY <2>2, <2>3, <2>4 DEF Enqueue
<1>2. CASE Play \/ ReportRecovered \/ NotifyWorker \/ ReportFailed
  BY <1>2 DEF Play, ReportRecovered, NotifyWorker, ReportFailed, Notify
<1>3. CASE ConnectionFails
  BY <1>3 DEF ConnectionFails, EnterRecovery
<1>4. CASE Sleep \/ TimesOut \/ ReportTimeout
  BY <1>4 DEF Sleep, TimesOut, ReportTimeout
<1>5. CASE \/ TakePacket \/ StartMpp \/ MppFails \/ ReportMppFailed
           \/ Send \/ Exit
  <2>1. worker' \notin {"asleep", "timed"}
    BY <1>5
       DEF TakePacket, StartMpp, MppFails, ReportMppFailed, Send, Exit
  <2> QED
    BY <2>1
<1>6. CASE Stop
  BY <1>6 DEF Stop, RequestStop, NotifyStop, JoinWorker, Notify
<1>7. CASE UNCHANGED vars
  BY <1>7 DEF vars
<1> QED
  BY <1>1, <1>2, <1>3, <1>4, <1>5, <1>6, <1>7
     DEF Next, Receiver, Reports, Worker

(* The worker never waits at a closed gate without a deadline while the    *)
(* manager takes the stream for a healthy one.                             *)
THEOREM GateAlwaysWatched == Spec => []GateIsWatched
<1> DEFINE Inv == TypeOK /\ WakeInv /\ GateIsWatched
<1>1. Init => Inv
  BY TypeInit DEF Init, WakeInv, GateIsWatched
<1>2. Inv /\ [Next]_vars => Inv'
  BY TypeNext, WatchNext
<1> QED
  BY <1>1, <1>2, PTL DEF Spec
-----------------------------------------------------------------------------
(* What taking the head of the queue and appending to it make of the parts *)
(* of the invariant.                                                       *)
LEMMA HeadOfBoundary ==
    ASSUME NEW q \in Seq(Packets), NEW r \in Nat, NEW k \in 0 .. N - 1,
           BoundaryLeft(q, r, k)
    PROVE  /\ q # <<>> /\ Head(q).kind = ParameterSets[k + 1]
           /\ BoundaryLeft(Tail(q), r, k + 1)
<1> DEFINE t == Tail(q)
<1> USE ConstantFacts
<1>1. q # <<>> /\ Head(q) = q[1] /\ k \in Nat /\ N - k >= 1
  BY DEF BoundaryLeft
<1>2. /\ t \in Seq(Packets) /\ Len(t) = Len(q) - 1
      /\ \A i \in 1 .. Len(t) : t[i] = q[i + 1]
  BY <1>1
<1>3. Len(q) > N - k /\ Len(q) \in Nat
  BY DEF BoundaryLeft
<1> HIDE DEF t
<1>4. ASSUME NEW i \in 1 .. N - (k + 1)
      PROVE  t[i].kind = ParameterSets[k + 1 + i]
  <2>1. i \in 1 .. Len(t) /\ i + 1 \in 1 .. N - k /\ k + (i + 1) = k + 1 + i
    BY <1>1, <1>2, <1>3
  <2>2. q[i + 1].kind = ParameterSets[k + (i + 1)]
    BY <2>1 DEF BoundaryLeft
  <2> QED
    BY <1>2, <2>1, <2>2
<1>5. t[N - (k + 1) + 1].kind = "randomAccess"
  BY <1>1, <1>2, <1>3 DEF BoundaryLeft
<1>6. InARow(t, r, N - (k + 1) + 1)
  <2>1. /\ \A j \in N - k + 1 .. Len(q) - 1 : q[j + 1].seq = q[j].seq + 1
        /\ q[Len(q)].seq = r
    BY DEF BoundaryLeft, InARow
  <2>2. t[Len(t)] = q[Len(q)]
    BY <1>1, <1>2, <1>3
  <2>3. ASSUME NEW j \in N - (k + 1) + 1 .. Len(t) - 1
        PROVE  t[j + 1].seq = t[j].seq + 1
    <3>1. /\ j \in 1 .. Len(t) /\ j + 1 \in 1 .. Len(t)
          /\ j + 1 \in N - k + 1 .. Len(q) - 1
      BY <1>1, <1>2, <1>3
    <3>2. t[j] = q[j + 1] /\ t[j + 1] = q[j + 1 + 1]
      BY <1>2, <3>1
    <3> QED
      BY <2>1, <3>1, <3>2
  <2> QED
    BY <2>1, <2>2, <2>3 DEF InARow
<1>7. Head(q).kind = ParameterSets[k + 1]
  BY <1>1 DEF BoundaryLeft
<1>8. Len(t) > N - (k + 1)
  BY <1>1, <1>2, <1>3
<1>9. BoundaryLeft(t, r, k + 1)
  BY <1>4, <1>5, <1>6, <1>8 DEF BoundaryLeft
<1> QED
  BY <1>1, <1>7, <1>9 DEF t

LEMMA HeadOfRow ==
    ASSUME NEW q \in Seq(Packets), q # <<>>, NEW r \in Nat, InARow(q, r, 1)
    PROVE  Follows(Tail(q), r, Head(q).seq)
<1> DEFINE t == Tail(q)
<1>1. /\ Head(q) = q[1] /\ Len(q) \in Nat /\ Len(q) >= 1
      /\ t \in Seq(Packets) /\ Len(t) = Len(q) - 1
      /\ \A i \in 1 .. Len(t) : t[i] = q[i + 1]
  OBVIOUS
<1> HIDE DEF t
<1>2. CASE t = <<>>
  <2>1. Len(q) = 1
    BY <1>1, <1>2
  <2> QED
    BY <1>1, <1>2, <2>1 DEF Follows, InARow, t
<1>3. CASE t # <<>>
  <2>1. Len(q) >= 2
    BY <1>1, <1>3
  <2>2. t[1].seq = q[1].seq + 1
    BY <1>1, <2>1 DEF InARow
  <2>3. InARow(t, r, 1)
    BY <1>1, <2>1 DEF InARow
  <2> QED
    BY <1>1, <1>3, <2>2, <2>3 DEF Follows, t
<1> QED
  BY <1>2, <1>3

LEMMA AppendToRow ==
    ASSUME NEW q \in Seq(Packets), NEW r \in Nat,
           NEW p \in Packets, p.seq = r + 1
    PROVE  /\ \A k \in 0 .. N : BoundaryLeft(q, r, k)
                                => BoundaryLeft(Append(q, p), r + 1, k)
           /\ \A la \in Nat : Follows(q, r, la)
                               => Follows(Append(q, p), r + 1, la)
<1> DEFINE a == Append(q, p)
<1>1. /\ a \in Seq(Packets) /\ Len(a) = Len(q) + 1 /\ Len(q) \in Nat
      /\ \A i \in 1 .. Len(q) : a[i] = q[i]
      /\ a[Len(q) + 1] = p
  OBVIOUS
<1> HIDE DEF a
<1>2. ASSUME NEW i \in Nat \ {0}, i <= Len(q), InARow(q, r, i)
      PROVE  InARow(a, r + 1, i)
  <2>1. /\ \A j \in i .. Len(q) - 1 : q[j + 1].seq = q[j].seq + 1
        /\ q[Len(q)].seq = r
    BY <1>2 DEF InARow
  <2>2. ASSUME NEW j \in i .. Len(a) - 1
        PROVE  a[j + 1].seq = a[j].seq + 1
    <3>1. CASE j = Len(q)
      <4>1. a[j] = q[Len(q)] /\ a[j + 1] = p
        BY <1>1, <1>2, <3>1
      <4> QED
        BY <2>1, <4>1
    <3>2. CASE j # Len(q)
      <4>1. /\ j \in i .. Len(q) - 1
            /\ j \in 1 .. Len(q) /\ j + 1 \in 1 .. Len(q)
        BY <1>1, <3>2
      <4>2. a[j] = q[j] /\ a[j + 1] = q[j + 1]
        BY <1>1, <4>1
      <4> QED
        BY <2>1, <4>1, <4>2
    <3> QED
      BY <3>1, <3>2
  <2>3. a[Len(a)].seq = r + 1
    BY <1>1
  <2> QED
    BY <2>2, <2>3 DEF InARow
<1>3. ASSUME NEW k \in 0 .. N, BoundaryLeft(q, r, k)
      PROVE  BoundaryLeft(a, r + 1, k)
  <2>1. N - k + 1 \in Nat \ {0} /\ N - k + 1 <= Len(q) /\ N - k \in Nat
    BY <1>1, <1>3, ConstantFacts DEF BoundaryLeft
  <2>2. InARow(a, r + 1, N - k + 1)
    BY <1>2, <1>3, <2>1 DEF BoundaryLeft
  <2>3. a[N - k + 1].kind = "randomAccess"
    BY <1>1, <1>3, <2>1 DEF BoundaryLeft
  <2>4. ASSUME NEW i \in 1 .. N - k
        PROVE  a[i].kind = ParameterSets[k + i]
    <3>1. i \in 1 .. Len(q) /\ a[i] = q[i]
      BY <1>1, <2>1
    <3> QED
      BY <1>3, <3>1 DEF BoundaryLeft
  <2>5. Len(a) > N - k
    BY <1>1, <2>1
  <2> QED
    BY <2>2, <2>3, <2>4, <2>5 DEF BoundaryLeft
<1>4. ASSUME NEW la \in Nat, Follows(q, r, la)
      PROVE  Follows(a, r + 1, la)
  <2>1. CASE q = <<>>
    <3>1. Len(q) = 0 /\ a[1] = p /\ Len(a) = 1 /\ a # <<>>
      BY <1>1, <2>1
    <3> QED
      BY <1>4, <2>1, <3>1 DEF Follows, InARow
  <2>2. CASE q # <<>>
    <3>1. Len(q) >= 1 /\ a # <<>> /\ a[1] = q[1]
      BY <1>1, <2>2
    <3>2. InARow(a, r + 1, 1)
      BY <1>2, <1>4, <2>2, <3>1 DEF Follows
    <3> QED
      BY <1>4, <2>2, <3>1, <3>2 DEF Follows
  <2> QED
    BY <2>1, <2>2
<1> QED
  BY <1>3, <1>4 DEF a
-----------------------------------------------------------------------------
(* The gate lets no gap through: one lemma for the receiver,               *)
(* one for the worker.                                                     *)
LEMMA GateReceiver ==
    ASSUME TypeOK, GateInv, HandInv, NEW kind \in Kinds, Enqueue(kind)
    PROVE  GateInv' /\ HandInv'
<1> DEFINE p == Arrives(kind)
<1>1. /\ received' = received + 1 /\ received < MaxPackets
      /\ UNCHANGED <<stopRequested, worker, packet, initialized, primed, last>>
  BY DEF Enqueue, mpp
<1>2. p \in Packets /\ p.seq = received + 1 /\ received \in Nat
  BY <1>1, ConstantFacts DEF TypeOK, Arrives, Packets
<1>3. HandInv'
  BY <1>1 DEF HandInv, Continuing
<1> HIDE DEF p
<1>4. CASE EnqueueNormal(kind)
  <2>1. /\ ~waiting /\ queue' = Append(queue, p) /\ UNCHANGED gate
        /\ queue \in Seq(Packets)
    BY <1>4 DEF EnqueueNormal, TypeOK, p
  <2>2. ASSUME NEW pr, NEW la \in Nat, Continues(queue, received, pr, la)
        PROVE  Continues(queue', received', pr, la)
    BY <1>1, <1>2, <2>1, <2>2, AppendToRow DEF Continues
  <2>3. /\ last \in Nat
        /\ worker = "send" => packet.seq \in Nat
    BY ConstantFacts DEF TypeOK, HandInv, Packets
  <2>4. QueueContinues => QueueContinues'
    BY <1>1, <2>2, <2>3 DEF QueueContinues
  <2>5. resetFirst => BoundaryLeft(queue', received', 0)
    BY <1>1, <1>2, <2>1, AppendToRow, ConstantFacts DEF GateInv
  <2> QED
    BY <1>1, <1>3, <2>1, <2>4, <2>5 DEF GateInv, gate
<1>5. CASE PassGate(p, saved) /\ waiting
  <2>1. CASE p.kind = "randomAccess" /\ Complete(saved)
    <3>1. /\ queue' = Boundary(saved, p) /\ waiting' = FALSE
          /\ resetFirst' = TRUE
      BY <1>5, <2>1 DEF PassGate
    <3>2. /\ Len(queue') = N + 1 /\ queue'[N + 1] = p
          /\ \A i \in 1 .. N : queue'[i].kind = ParameterSets[i]
      BY <1>2, <2>1, <3>1, BoundaryParts DEF TypeOK
    <3>3. InARow(queue', received', N - 0 + 1)
      BY <1>1, <1>2, <3>2, ConstantFacts DEF InARow
    <3>4. BoundaryLeft(queue', received', 0)
      BY <2>1, <3>2, <3>3, ConstantFacts DEF BoundaryLeft
    <3> QED
      BY <1>3, <3>1, <3>4 DEF GateInv
  <2>2. CASE ~(p.kind = "randomAccess" /\ Complete(saved))
    <3>1. queue' = <<>> /\ waiting' = TRUE /\ resetFirst' = FALSE
      BY <1>5, <2>2 DEF PassGate
    <3> QED
      BY <1>3, <3>1 DEF GateInv
  <2> QED
    BY <2>1, <2>2
<1>6. CASE PassGate(p, Nothing)
  <2>1. ~Complete(Nothing)
    BY ConstantFacts DEF Complete, Nothing
  <2>2. queue' = <<>> /\ waiting' = TRUE /\ resetFirst' = FALSE
    BY <1>6, <2>1 DEF PassGate
  <2> QED
    BY <1>3, <2>2 DEF GateInv
<1> QED
  BY <1>4, <1>5, <1>6 DEF Enqueue, EnqueueWaiting, EnqueueOverflow, p

LEMMA GateTake ==
    ASSUME TypeOK, GateInv, HandInv, TakePacket
    PROVE  GateInv' /\ HandInv'
<1>1. /\ worker = "test" /\ ~stopRequested /\ queue # <<>>
      /\ packet' = Head(queue) /\ queue' = Tail(queue)
      /\ resetFirst' = FALSE
      /\ initialized' = (initialized /\ ~resetFirst)
      /\ worker' = IF initialized' THEN "send" ELSE "init"
      /\ UNCHANGED <<received, waiting, primed, last>>
  BY DEF TakePacket
<1>2. /\ queue \in Seq(Packets) /\ packet' \in Packets /\ received \in Nat
      /\ last \in Nat
  BY <1>1, ConstantFacts DEF TypeOK
<1>3. ~waiting
  BY <1>1 DEF GateInv
<1>4. CASE resetFirst
  <2>1. BoundaryLeft(queue, received, 0) /\ 0 \in 0 .. N - 1
    BY <1>4, ConstantFacts DEF GateInv
  <2>2. /\ packet'.kind = ParameterSets[0 + 1]
        /\ BoundaryLeft(queue', received, 0 + 1)
    BY <1>1, <1>2, <2>1, HeadOfBoundary
  <2>3. packet'.kind \in ParameterKinds /\ {packet'.kind} = First(1)
    BY <2>2, ConstantFacts, FirstSets DEF First
  <2>4. Continues(queue', received', {packet'.kind}, 0)
    BY <1>1, <2>2, <2>3, ConstantFacts DEF Continues
  <2>5. worker' = "init"
    BY <1>1, <1>4
  <2> QED
    BY <1>1, <1>2, <1>3, <2>3, <2>4, <2>5
       DEF GateInv, HandInv, QueueContinues
<1>5. CASE ~resetFirst
  <2>1. initialized /\ Continues(queue, received, primed, last)
    BY <1>1, <1>3, <1>5 DEF GateInv, QueueContinues
  <2>2. worker' = "send" /\ initialized'
    BY <1>1, <1>5, <2>1
  <2>3. CASE last = 0
    <3>1. PICK k \in 0 .. N :
            primed = First(k) /\ BoundaryLeft(queue, received, k)
      BY <2>1, <2>3 DEF Continues
    <3>2. CASE k # N
      <4>1. k \in 0 .. N - 1
        BY <3>2, ConstantFacts
      <4>2. /\ packet'.kind = ParameterSets[k + 1]
            /\ BoundaryLeft(queue', received, k + 1)
        BY <1>1, <1>2, <3>1, <4>1, HeadOfBoundary
      <4>3. packet'.kind \in ParameterKinds
        BY <4>1, <4>2, ConstantFacts
      <4>4. primed \cup {packet'.kind} = First(k + 1) /\ k + 1 \in 0 .. N
        BY <3>1, <4>1, <4>2, FirstSets, ConstantFacts
      <4>5. Continues(queue', received', primed' \cup {packet'.kind}, 0)
        BY <1>1, <4>2, <4>4 DEF Continues
      <4> QED
        BY <1>1, <1>2, <1>3, <2>2, <2>3, <4>3, <4>5
           DEF GateInv, HandInv, QueueContinues, Continuing
    <3>3. CASE k = N
      <4>1. /\ queue[N - N + 1].kind = "randomAccess"
            /\ InARow(queue, received, N - N + 1)
        BY <3>1, <3>3 DEF BoundaryLeft
      <4>2. N - N + 1 = 1 /\ packet' = queue[1]
        BY <1>1, <1>2, ConstantFacts
      <4>3. packet'.kind = "randomAccess" /\ InARow(queue, received, 1)
        BY <4>1, <4>2
      <4>4. packet'.kind \notin ParameterKinds /\ primed = ParameterKinds
        BY <3>1, <3>3, <4>3, FirstSets, ConstantFacts
      <4>5. Follows(queue', received', packet'.seq)
        BY <1>1, <1>2, <4>3, HeadOfRow
      <4>6. packet'.seq # 0
        BY <1>2, ConstantFacts DEF Packets
      <4>7. Continues(queue', received', primed', packet'.seq)
        BY <4>5, <4>6 DEF Continues
      <4> QED
        BY <1>1, <1>2, <1>3, <2>2, <2>3, <4>3, <4>4, <4>7
           DEF GateInv, HandInv, QueueContinues, Continuing
    <3> QED
      BY <3>2, <3>3
  <2>4. CASE last # 0
    <3>1. queue[1].seq = last + 1 /\ InARow(queue, received, 1)
      BY <1>1, <2>1, <2>4 DEF Continues, Follows
    <3>2. packet'.seq = last + 1
      BY <1>1, <1>2, <3>1
    <3>3. Follows(queue', received', packet'.seq)
      BY <1>1, <1>2, <3>1, HeadOfRow
    <3>4. packet'.seq # 0
      BY <1>2, <3>2
    <3>5. Continues(queue', received', primed', packet'.seq)
      BY <3>3, <3>4 DEF Continues
    <3> QED
      BY <1>1, <1>2, <1>3, <2>2, <2>4, <3>2, <3>5
         DEF GateInv, HandInv, QueueContinues, Continuing
  <2> QED
    BY <2>3, <2>4
<1> QED
  BY <1>4, <1>5

LEMMA GateNext ==
    TypeOK /\ GateInv /\ HandInv /\ [Next]_vars => GateInv' /\ HandInv'
<1> SUFFICES ASSUME TypeOK, GateInv, HandInv, [Next]_vars
             PROVE  GateInv' /\ HandInv'
  OBVIOUS
<1> USE DEF gate, mpp
<1>1. ASSUME NEW kind \in Kinds, Enqueue(kind)
      PROVE  GateInv' /\ HandInv'
  BY <1>1, GateReceiver
<1>2. CASE TakePacket
  BY <1>2, GateTake
<1>3. CASE ConnectionFails \/ MppFails
  <2>1. /\ queue' = <<>> /\ waiting' = TRUE /\ resetFirst' = FALSE
        /\ UNCHANGED <<initialized, primed, last>>
    BY <1>3 DEF ConnectionFails, MppFails, EnterRecovery
  <2>2. \/ UNCHANGED <<worker, packet>>
        \/ worker' = "reportMppFailed"
    BY <1>3 DEF ConnectionFails, MppFails
  <2> QED
    BY <2>1, <2>2 DEF GateInv, HandInv, Continuing
<1>4. CASE \/ Play \/ ReportRecovered \/ NotifyWorker \/ ReportFailed
           \/ Sleep \/ TimesOut \/ ReportTimeout \/ ReportMppFailed \/ Exit
           \/ NotifyStop \/ JoinWorker \/ UNCHANGED vars
  <2>1. /\ UNCHANGED <<received, queue, waiting, resetFirst, stopRequested,
                       packet, initialized, primed, last>>
        /\ \/ worker' = worker
           \/ {worker, worker'} \cap {"init", "send"} = {}
    BY <1>4
       DEF Play, ReportRecovered, NotifyWorker, ReportFailed, Sleep, TimesOut,
           ReportTimeout, ReportMppFailed, Exit, NotifyStop, JoinWorker,
           Notify, vars
  <2>2. QueueContinues => QueueContinues'
    BY <2>1 DEF QueueContinues
  <2> QED
    BY <2>1, <2>2 DEF GateInv, HandInv, Continuing
<1>5. CASE StartMpp
  <2>1. /\ worker = "init" /\ worker' = "send"
        /\ initialized' = TRUE /\ primed' = {} /\ last' = 0
        /\ UNCHANGED <<received, queue, waiting, resetFirst, stopRequested,
                       packet>>
    BY <1>5 DEF StartMpp
  <2>2. packet \in Packets /\ packet.kind \in ParameterKinds
    BY <2>1 DEF HandInv
  <2>3. primed' \cup {packet'.kind} = {packet.kind}
    BY <2>1
  <2>4. QueueContinues => QueueContinues'
    BY <2>1, <2>2, <2>3 DEF QueueContinues
  <2>5. Continuing(packet)'
    BY <2>1, <2>2 DEF Continuing
  <2> QED
    BY <2>1, <2>2, <2>4, <2>5 DEF GateInv, HandInv
<1>6. CASE Send
  <2>1. /\ worker = "send" /\ worker' = "test"
        /\ IF last = 0 /\ packet.kind \in ParameterKinds
           THEN primed' = primed \cup {packet.kind} /\ last' = last
           ELSE last' = packet.seq /\ primed' = primed
        /\ UNCHANGED <<received, queue, waiting, resetFirst, stopRequested,
                       initialized>>
    BY <1>6 DEF Send
  <2>2. initialized
    BY <2>1 DEF HandInv
  <2>3. QueueContinues => QueueContinues'
    BY <2>1, <2>2 DEF QueueContinues
  <2> QED
    BY <2>1, <2>3 DEF GateInv, HandInv
<1>7. CASE RequestStop
  <2>1. /\ queue' = <<>> /\ waiting' = FALSE /\ resetFirst' = FALSE
        /\ stopRequested' = TRUE
        /\ UNCHANGED <<worker, packet, initialized, primed, last>>
    BY <1>7 DEF RequestStop
  <2> QED
    BY <2>1 DEF GateInv, HandInv, Continuing
<1> QED
  BY <1>1, <1>2, <1>3, <1>4, <1>5, <1>6, <1>7
     DEF Next, Receiver, Reports, Worker, Stop

(* No picture gets to sendPacket() without its references, for every       *)
(* codec, queue limit and order of NALUs, overflows and failures, those of *)
(* sendPacket() itself included; what MPP lacks, sendPacket() has lost.    *)
THEOREM OnlySendPacketLoses == Spec => []OnlySendPacketLosesNalus
<1> DEFINE Inv == TypeOK /\ GateInv /\ HandInv
<1>1. Init => Inv
  <2>1. Init => GateInv /\ HandInv
    BY DEF Init, GateInv, HandInv
  <2> QED
    BY <2>1, TypeInit
<1>2. Inv /\ [Next]_vars => Inv'
  BY TypeNext, GateNext
<1>3. Inv => OnlySendPacketLosesNalus
  BY DEF HandInv, OnlySendPacketLosesNalus
<1> QED
  BY <1>1, <1>2, <1>3, PTL DEF Spec
=============================================================================
