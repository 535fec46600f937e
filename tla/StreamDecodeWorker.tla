------------------------- MODULE StreamDecodeWorker -------------------------
(***************************************************************************)
(* Stream::DecodeWorker of src/core/stream/Stream.cpp: the bounded queue   *)
(* of NALUs between the thread that receives them and the decoder, with    *)
(* the gate that lets decoding begin, or begin again, only at a complete   *)
(* set of parameter sets and a random access picture. One run of one       *)
(* stream, from start() to stop().                                         *)
(*                                                                         *)
(* The receiver (the live555 event thread) enqueues, the worker decodes, a *)
(* client stops. m_mutex is held within single steps: a test of the wait   *)
(* condition and the sleep that follows are one.                           *)
(***************************************************************************)
EXTENDS Naturals, Sequences

CONSTANTS ParameterSets,  \* those of the codec, in the order they are queued
          QueueLimit,     \* kMaxCompressedPackets
          MaxPackets,     \* how many NALUs arrive, a bound
          MaxFailures     \* how often a call of MPP fails, a bound

ParameterKinds == {ParameterSets[i] : i \in DOMAIN ParameterSets}

Kinds == ParameterKinds \cup {"randomAccess", "other"}

ASSUME StreamDecodeWorkerAssumption ==
    /\ ParameterSets \in Seq(STRING)
    /\ {"randomAccess", "other"} \cap ParameterKinds = {}
    /\ ParameterSets # <<>>
    /\ QueueLimit \in Nat /\ QueueLimit > Len(ParameterSets)
    /\ MaxPackets \in Nat /\ MaxFailures \in Nat

VARIABLES
    received,         \* NALUs received so far: each has its number
    queue,            \* m_packetQueue
    waiting,          \* m_waitingForRecovery
    saved,            \* m_recoveryVps, -Sps, -Pps: their numbers, 0 if none
    timeoutReported,  \* m_recoveryTimeoutReported
    resetFirst,       \* m_resetDecoderBeforeNextPacket
    stopRequested,    \* m_stopRequested
    worker,           \* where the worker thread is
    packet,           \* the NALU it works on
    initialized,      \* decoderInitialized
    primed,           \* the parameter sets sendPacket() got since MPP started
    last,             \* the number of the last picture NALU it got, or 0
    lost,             \* whether it has failed to put one of these into MPP
    receiver,         \* where the receiver is
    client,           \* how far stop() has come
    health,           \* the last state reported to the manager
    failuresLeft      \* what is left of MaxFailures

gate == <<waiting, saved, timeoutReported, resetFirst>>
mpp  == <<initialized, primed, last, lost>>
vars == <<received, queue, gate, stopRequested, worker, packet, mpp, receiver,
          client, health, failuresLeft>>

Packets == [kind : Kinds, seq : 1 .. MaxPackets]
NoPacket == [kind |-> "none", seq |-> 0]

Nothing == [k \in ParameterKinds |-> 0]

Init ==
    /\ received = 0 /\ queue = <<>>
    /\ waiting = TRUE /\ saved = Nothing
    /\ timeoutReported = FALSE /\ resetFirst = FALSE
    /\ stopRequested = FALSE
    /\ worker = "test" /\ packet = NoPacket
    /\ initialized = FALSE /\ primed = {} /\ last = 0 /\ lost = FALSE
    /\ receiver = "connecting" /\ client = "running"
    /\ health = "Connecting" /\ failuresLeft = MaxFailures
-----------------------------------------------------------------------------
(* The recovery gate.                                                      *)

(* enterRecoveryWaitingLocked()                                            *)
EnterRecovery ==
    /\ queue' = <<>>
    /\ waiting' = TRUE /\ saved' = Nothing
    /\ timeoutReported' = FALSE /\ resetFirst' = FALSE

Notify == worker' = IF worker \in {"asleep", "timed"} THEN "test" ELSE worker

Complete(s) == \A k \in ParameterKinds : s[k] # 0

Boundary(s, p) ==
    Append([i \in 1 .. Len(ParameterSets) |->
               [kind |-> ParameterSets[i], seq |-> s[ParameterSets[i]]]], p)

(* enqueueRecoveryNaluLocked() on a gate that has saved the parameter sets *)
(* s: one more is kept, a picture opens the gate if the set is complete    *)
(* and it is a random access point, and is dropped otherwise.              *)
PassGate(p, s) ==
    IF p.kind = "randomAccess" /\ Complete(s)
    THEN /\ queue' = Boundary(s, p)
         /\ waiting' = FALSE /\ saved' = Nothing
         /\ timeoutReported' = FALSE /\ resetFirst' = TRUE
    ELSE /\ queue' = <<>>
         /\ waiting' = TRUE
         /\ saved' = IF p.kind \in ParameterKinds
                     THEN [s EXCEPT ![p.kind] = p.seq] ELSE s
         /\ resetFirst' = FALSE
-----------------------------------------------------------------------------
(* The receiver.                                                           *)

(* The answer to PLAY.                                                     *)
Play ==
    /\ receiver = "connecting"
    /\ receiver' = "receiving" /\ health' = "Streaming"
    /\ UNCHANGED <<received, queue, gate, stopRequested, worker, packet, mpp,
                   client, failuresLeft>>

Arrives(kind) == [kind |-> kind, seq |-> received + 1]

(* enqueue() of a NALU: into the queue, ...                                *)
EnqueueNormal(kind) ==
    /\ ~waiting /\ Len(queue) < QueueLimit
    /\ queue' = Append(queue, Arrives(kind))
    /\ receiver' = "notify"
    /\ UNCHANGED gate

EnqueueQuietly(kind) ==
    /\ waiting
    /\ PassGate(Arrives(kind), saved)
    /\ IF waiting' THEN UNCHANGED timeoutReported ELSE TRUE
    /\ UNCHANGED receiver

(* ... to the gate, ...                                                    *)
EnqueueWaiting(kind) ==
    /\ waiting
    /\ PassGate(Arrives(kind), saved)
    /\ IF waiting'
       THEN UNCHANGED <<timeoutReported, receiver>>
       ELSE receiver' = IF timeoutReported THEN "reportRecovered" ELSE "notify"

DropNewest(kind) ==
    /\ ~waiting /\ Len(queue) >= QueueLimit
    /\ UNCHANGED <<queue, gate, receiver>>

(* ... or to a gate that the full queue has just closed.                   *)
EnqueueOverflow(kind) ==
    /\ ~waiting /\ Len(queue) >= QueueLimit
    /\ PassGate(Arrives(kind), Nothing)
    /\ timeoutReported' = FALSE
    /\ UNCHANGED receiver

Enqueue(kind) ==
    /\ receiver = "receiving" /\ received < MaxPackets
    /\ received' = received + 1
    /\ \/ EnqueueNormal(kind)
       \/ EnqueueWaiting(kind)
       \/ EnqueueOverflow(kind)
    /\ UNCHANGED <<stopRequested, worker, packet, mpp, client, health,
                   failuresLeft>>

ReportRecovered ==
    /\ receiver = "reportRecovered"
    /\ health' = "Streaming" /\ receiver' = "notify"
    /\ UNCHANGED <<received, queue, gate, stopRequested, worker, packet, mpp,
                   client, failuresLeft>>

NotifyWorker ==
    /\ receiver = "notify"
    /\ Notify /\ receiver' = "receiving"
    /\ UNCHANGED <<received, queue, gate, stopRequested, packet, mpp, client,
                   health, failuresLeft>>

(* onRtspClientState(Error): clearDecodePackets(), which wakes nobody, and *)
(* the report. Nothing is received any more.                               *)
ConnectionFails ==
    /\ receiver \in {"connecting", "receiving"}
    /\ EnterRecovery
    /\ receiver' = "reportFailed"
    /\ UNCHANGED <<received, stopRequested, worker, packet, mpp, client,
                   health, failuresLeft>>

ReportFailed ==
    /\ receiver = "reportFailed"
    /\ health' = "Error" /\ receiver' = "failed"
    /\ UNCHANGED <<received, queue, gate, stopRequested, worker, packet, mpp,
                   client, failuresLeft>>
-----------------------------------------------------------------------------
(* The worker: workLoop().                                                 *)

SleepUntimed ==
    /\ worker = "test" /\ ~stopRequested /\ queue = <<>>
    /\ worker' = "asleep"
    /\ UNCHANGED <<received, queue, gate, stopRequested, packet, mpp,
                   receiver, client, health, failuresLeft>>

(* A closed gate is watched until its timeout has been reported.           *)
Sleep ==
    /\ worker = "test" /\ ~stopRequested /\ queue = <<>>
    /\ worker' = IF waiting /\ ~timeoutReported THEN "timed" ELSE "asleep"
    /\ UNCHANGED <<received, queue, gate, stopRequested, packet, mpp,
                   receiver, client, health, failuresLeft>>

TimesOutUnlessSaved ==
    /\ worker = "timed"
    /\ IF waiting /\ saved = Nothing
       THEN timeoutReported' = TRUE /\ worker' = "reportTimeout"
       ELSE worker' = "test" /\ UNCHANGED timeoutReported
    /\ UNCHANGED <<received, queue, waiting, saved, resetFirst, stopRequested,
                   packet, mpp, receiver, client, health, failuresLeft>>

(* wait_until() returns at its deadline.                                   *)
TimesOut ==
    /\ worker = "timed"
    /\ IF waiting /\ queue = <<>>
       THEN timeoutReported' = TRUE /\ worker' = "reportTimeout"
       ELSE worker' = "test" /\ UNCHANGED timeoutReported
    /\ UNCHANGED <<received, queue, waiting, saved, resetFirst, stopRequested,
                   packet, mpp, receiver, client, health, failuresLeft>>

ReportTimeout ==
    /\ worker = "reportTimeout"
    /\ health' = "Error" /\ worker' = "test"
    /\ UNCHANGED <<received, queue, gate, stopRequested, packet, mpp,
                   receiver, client, failuresLeft>>

TakePacket ==
    /\ worker = "test" /\ ~stopRequested /\ queue # <<>>
    /\ packet' = Head(queue) /\ queue' = Tail(queue)
    /\ resetFirst' = FALSE
    /\ initialized' = (initialized /\ ~resetFirst)
    /\ worker' = IF initialized' THEN "send" ELSE "init"
    /\ UNCHANGED <<received, waiting, saved, timeoutReported, stopRequested,
                   primed, last, lost, receiver, client, health, failuresLeft>>

StartMpp ==
    /\ worker = "init"
    /\ initialized' = TRUE /\ primed' = {} /\ last' = 0 /\ lost' = FALSE
    /\ worker' = "send"
    /\ UNCHANGED <<received, queue, gate, stopRequested, packet, receiver,
                   client, health, failuresLeft>>

MppFails ==
    /\ worker = "init" /\ failuresLeft > 0
    /\ failuresLeft' = failuresLeft - 1
    /\ EnterRecovery
    /\ packet' = NoPacket
    /\ worker' = "reportMppFailed"
    /\ UNCHANGED <<received, stopRequested, mpp, receiver, client, health>>

ReportMppFailed ==
    /\ worker = "reportMppFailed"
    /\ health' = "Error" /\ worker' = "test"
    /\ UNCHANGED <<received, queue, gate, stopRequested, packet, mpp,
                   receiver, client, failuresLeft>>

(* sendPacket(). If it fails the worker takes note of the text and goes on: *)
(* the NALU may be in MPP all the same, or have got lost on the way (no     *)
(* memory for it, or MPP full and not to be emptied).                       *)
Send ==
    /\ worker = "send"
    /\ IF last = 0 /\ packet.kind \in ParameterKinds
       THEN primed' = primed \cup {packet.kind} /\ UNCHANGED last
       ELSE last' = packet.seq /\ UNCHANGED primed
    /\ \/ UNCHANGED <<lost, failuresLeft>>
       \/ /\ failuresLeft > 0 /\ failuresLeft' = failuresLeft - 1
          /\ lost' = TRUE
    /\ packet' = NoPacket /\ worker' = "test"
    /\ UNCHANGED <<received, queue, gate, stopRequested, initialized,
                   receiver, client, health>>

Exit ==
    /\ worker = "test" /\ stopRequested
    /\ worker' = "exited"
    /\ UNCHANGED <<received, queue, gate, stopRequested, packet, mpp,
                   receiver, client, health, failuresLeft>>
-----------------------------------------------------------------------------
(* stop(), once the receiver has ended: Live555RtspClient::stop() joins it.*)
RequestStop ==
    /\ client = "running" /\ receiver \in {"connecting", "receiving", "failed"}
    /\ receiver' = "gone"
    /\ stopRequested' = TRUE /\ queue' = <<>>
    /\ waiting' = FALSE /\ saved' = Nothing
    /\ timeoutReported' = FALSE /\ resetFirst' = FALSE
    /\ client' = "notify"
    /\ UNCHANGED <<received, worker, packet, mpp, health, failuresLeft>>

NotifyStop ==
    /\ client = "notify"
    /\ Notify /\ client' = "join"
    /\ UNCHANGED <<received, queue, gate, stopRequested, packet, mpp,
                   receiver, health, failuresLeft>>

JoinWorker ==
    /\ client = "join" /\ worker = "exited"
    /\ client' = "stopped"
    /\ UNCHANGED <<received, queue, gate, stopRequested, worker, packet, mpp,
                   receiver, health, failuresLeft>>
-----------------------------------------------------------------------------
Worker ==
    \/ Sleep \/ TimesOut \/ ReportTimeout \/ TakePacket
    \/ StartMpp \/ MppFails \/ ReportMppFailed \/ Send \/ Exit

Reports == ReportRecovered \/ NotifyWorker \/ ReportFailed

Receiver == Play \/ (\E kind \in Kinds : Enqueue(kind)) \/ ConnectionFails

Stop == RequestStop \/ NotifyStop \/ JoinWorker

Next == Receiver \/ Reports \/ Worker \/ Stop

Spec == Init /\ [][Next]_vars

(* The worker runs, its wait ends at the deadline, a call under way goes   *)
(* on. Nothing need arrive and nobody need stop the stream.                *)
FairSpec ==
    Spec /\ WF_vars(Worker) /\ WF_vars(Reports)
         /\ WF_vars(NotifyStop \/ JoinWorker)
-----------------------------------------------------------------------------
TypeOK ==
    /\ received \in 0 .. MaxPackets
    /\ queue \in Seq(Packets) /\ Len(queue) <= QueueLimit
    /\ waiting \in BOOLEAN /\ saved \in [ParameterKinds -> 0 .. MaxPackets]
    /\ timeoutReported \in BOOLEAN /\ resetFirst \in BOOLEAN
    /\ stopRequested \in BOOLEAN
    /\ worker \in {"test", "asleep", "timed", "reportTimeout", "init",
                   "reportMppFailed", "send", "exited"}
    /\ packet \in Packets \cup {NoPacket}
    /\ initialized \in BOOLEAN /\ primed \in SUBSET ParameterKinds
    /\ last \in 0 .. MaxPackets /\ lost \in BOOLEAN
    /\ receiver \in {"connecting", "receiving", "reportRecovered", "notify",
                     "reportFailed", "failed", "gone"}
    /\ client \in {"running", "notify", "join", "stopped"}
    /\ health \in {"Connecting", "Streaming", "Error"}
    /\ failuresLeft \in 0 .. MaxFailures

(* What a NALU must be to continue what sendPacket() got since MPP was      *)
(* started: all parameter sets, then a random access picture, then what     *)
(* followed it without a gap.                                               *)
Continuing(p) ==
    IF last = 0
    THEN \/ p.kind \in ParameterKinds
         \/ p.kind = "randomAccess" /\ primed = ParameterKinds
    ELSE p.seq = last + 1

(* No picture gets as far as sendPacket() without its references: not at    *)
(* the start, not after an overflow, a failed start of MPP or a lost        *)
(* connection, wherever the worker was at that moment. What MPP lacks of    *)
(* it, sendPacket() has lost.                                               *)
OnlySendPacketLosesNalus == worker = "send" => Continuing(packet)

(* The comment in enqueue() says more: a NALU must not be dropped, as it    *)
(* may break the chain of references. MPP gets no picture that needs those  *)
(* before it unless it has all of them.                                     *)
NothingUndecodableSent ==
    worker = "send" /\ packet.kind = "other" => Continuing(packet) /\ ~lost

(* The worker does not wait at a closed gate without a deadline, unless the *)
(* manager knows, or is about to be told, that nothing is decoded.          *)
GateIsWatched ==
    worker = "asleep" /\ waiting =>
        timeoutReported \/ receiver \in {"reportFailed", "failed"}

(* What is queued gets to the worker without the help of later NALUs: the   *)
(* picture that opens the gate may be the last for a while.                 *)
QueueIsServed == queue # <<>> ~> queue = <<>>

(* A playing stream whose gate stays closed is reported. (One whose gate is *)
(* open and of which sendPacket() fails with every NALU is not.)            *)
SilenceIsReported ==
    waiting /\ receiver = "receiving" /\ ~timeoutReported
        ~> ~waiting \/ health = "Error"

(* stop() comes to its end wherever the worker was when it began.           *)
StopEnds == client = "notify" ~> client = "stopped"

(* No wakeup is lost: both enqueue() and stop() notify after they have      *)
(* released m_mutex.                                                        *)
WakeupsArrive == QueueIsServed /\ StopEnds

(* What enqueue() and the demo of the recovery say: once the gate is open   *)
(* again, the manager is told that the stream is healthy.                   *)
RecoveryIsReported ==
    ~waiting /\ queue = <<>> /\ worker = "asleep" /\ receiver = "receiving"
        => health # "Error"
=============================================================================
