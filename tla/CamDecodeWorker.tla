-------------------------- MODULE CamDecodeWorker --------------------------
(***************************************************************************)
(* The MJPEG path of one camera: CamManager::DecodeWorker of               *)
(* src/core/cam/CamManager.cpp with its one-place mailbox, its output pool *)
(* and the hub it publishes to, from the first frame until the camera is   *)
(* deleted or the manager destroyed.                                       *)
(*                                                                         *)
(* The poll thread posts frames, the worker decodes and publishes them,    *)
(* sinks keep decoded frames, a client deletes the camera. m_mutex is held *)
(* within single steps and at worker pc "enter", between the test of the   *)
(* wait predicate and the sleep.                                           *)
(***************************************************************************)
EXTENDS DmaBufferPool

CONSTANTS Inputs,         \* camera buffers
          NoInput,
          MaxFrames,      \* how many frames the camera delivers, a bound
          MaxFailures,    \* how many of them cannot be decoded, a bound
          MaxTeardowns    \* 1 if the manager may be destroyed, else 0

ASSUME CamDecodeWorkerAssumption ==
    /\ NoInput \notin Inputs
    /\ MaxFrames \in Nat /\ MaxFailures \in Nat /\ MaxTeardowns \in {0, 1}

VARIABLES
    driver,         \* camera buffers not leased: queued, or on their way back
    frames,         \* frames the camera has delivered
    pending,        \* m_pendingPacket
    stopping,       \* m_stopping
    worker,         \* where the worker thread is
    packet,         \* the packet it works on
    output,         \* the output slot it works on, 0 if none
    outputSeq,      \* the number of the frame in it
    pool,           \* m_outputPool
    leases,         \* output slots that sinks have
    published,      \* the number of the last frame given to the sinks
    hub,            \* the FrameHub: open, closed, or destroyed
    owner,          \* where the thread is that posts and ends the worker
    deletion,       \* how far delCamera() has come
    queues,         \* the members of CamManager declared after m_cameraMap
    failuresLeft    \* what is left of MaxFailures

mailbox == <<pending, stopping>>
work    == <<packet, output, outputSeq>>
vars == <<driver, frames, mailbox, worker, work, pool, leases, published, hub,
          owner, deletion, queues, failuresLeft>>

Packets == [buf : Inputs, seq : 1 .. MaxFrames]
NoPacket == [buf |-> NoInput, seq |-> 0]

WorkerPcs == {"test", "enter", "asleep", "acquire", "decode", "lock",
              "publish", "calling", "exited"}

OwnerPcs == {"idle", "post", "notify", "shutdownNotify", "join", "done"}

Init ==
    /\ driver = Inputs /\ frames = 0
    /\ pending = NoPacket /\ stopping = FALSE
    /\ worker = "test" /\ packet = NoPacket /\ output = 0 /\ outputSeq = 0
    /\ pool = NewPool /\ leases = {} /\ published = 0
    /\ hub = "open" /\ owner = "idle" /\ deletion = "none"
    /\ queues = "alive" /\ failuresLeft = MaxFailures

MutexFree == worker # "enter"

(* The lease of packet p, if it is one, goes: postReturnedFrame().         *)
Return(p) == driver' = driver \cup ({p.buf} \ {NoInput})

(* m_cv.notify_one()                                                       *)
Notify == worker' = IF worker = "asleep" THEN "test" ELSE worker
-----------------------------------------------------------------------------
(* The poll thread, or the thread that ends the worker.                    *)

(* A frame has been dequeued and the camera is found to be streaming. The  *)
(* mutex that was held for the test is released before the frame is        *)
(* posted: delCamera() may come in between.                                *)
FindStillActive ==
    /\ owner = "idle" /\ queues = "alive" /\ deletion = "none"
    /\ driver # {} /\ frames < MaxFrames
    /\ owner' = "post"
    /\ UNCHANGED <<driver, frames, mailbox, worker, work, pool, leases,
                   published, hub, deletion, queues, failuresLeft>>

PostUnlocked(b) ==
    /\ owner = "post" /\ b \in driver
    /\ frames' = frames + 1
    /\ pending' = [buf |-> b, seq |-> frames + 1]
    /\ driver' = (driver \ {b}) \cup ({pending.buf} \ {NoInput})
    /\ owner' = "notify"
    /\ UNCHANGED <<stopping, worker, work, pool, leases, published, hub,
                   deletion, queues, failuresLeft>>

(* postFrame(): only the newest frame waits, the one it replaces is        *)
(* dropped.                                                                *)
PostFrame(b) == MutexFree /\ PostUnlocked(b)

NotifyWorker ==
    /\ owner \in {"notify", "shutdownNotify"}
    /\ Notify
    /\ owner' = IF owner = "notify" THEN "idle" ELSE "join"
    /\ UNCHANGED <<driver, frames, mailbox, work, pool, leases, published,
                   hub, deletion, queues, failuresLeft>>

CloseWithoutWaiting ==
    /\ deletion = "none" /\ queues = "alive"
    /\ hub' = "closed" /\ deletion' = "posted"
    /\ UNCHANGED <<driver, frames, mailbox, worker, work, pool, leases,
                   published, owner, queues, failuresLeft>>

(* delCamera(): the hub is closed, once no publication is in progress, and *)
(* the slot is to be erased.                                               *)
CloseHub ==
    /\ worker # "calling"
    /\ CloseWithoutWaiting

(* ~CamManager(), after shutdownPolling(): members are destroyed in the    *)
(* reverse order of their declaration, m_returnQueue and m_frameHubMap     *)
(* before m_cameraMap.                                                     *)
Teardown ==
    /\ MaxTeardowns = 1
    /\ owner = "idle" /\ deletion = "none" /\ queues = "alive"
    /\ queues' = "destroyed" /\ hub' = "gone"
    /\ UNCHANGED <<driver, frames, mailbox, worker, work, pool, leases,
                   published, owner, deletion, failuresLeft>>

StopUnlocked ==
    /\ owner = "idle"
    /\ deletion = "posted" \/ queues = "destroyed"
    /\ stopping' = TRUE /\ pending' = NoPacket
    /\ Return(pending)
    /\ owner' = "shutdownNotify"
    /\ UNCHANGED <<frames, worker, work, pool, leases, published, hub,
                   deletion, queues, failuresLeft>>

(* ~DecodeWorker() and shutdown(), when the slot of the camera is erased.  *)
Shutdown == MutexFree /\ StopUnlocked

JoinWorker ==
    /\ owner = "join" /\ worker = "exited"
    /\ owner' = "done" /\ hub' = "gone"
    /\ UNCHANGED <<driver, frames, mailbox, worker, work, pool, leases,
                   published, deletion, queues, failuresLeft>>
-----------------------------------------------------------------------------
(* The worker: workerLoop() and processFrame().                            *)

TakeWithoutReset ==
    /\ worker = "test" /\ pending # NoPacket
    /\ packet' = pending
    /\ worker' = "acquire"
    /\ UNCHANGED <<driver, frames, mailbox, output, outputSeq, pool, leases,
                   published, hub, owner, deletion, queues, failuresLeft>>

TakePacket ==
    /\ worker = "test" /\ pending # NoPacket
    /\ packet' = pending /\ pending' = NoPacket
    /\ worker' = "acquire"
    /\ UNCHANGED <<driver, frames, stopping, output, outputSeq, pool, leases,
                   published, hub, owner, deletion, queues, failuresLeft>>

NoPacketToTake ==
    /\ worker = "test" /\ pending = NoPacket
    /\ worker' = IF stopping THEN "exited" ELSE "enter"
    /\ UNCHANGED <<driver, frames, mailbox, work, pool, leases, published,
                   hub, owner, deletion, queues, failuresLeft>>

FallAsleep ==
    /\ worker = "enter"
    /\ worker' = "asleep"
    /\ UNCHANGED <<driver, frames, mailbox, work, pool, leases, published,
                   hub, owner, deletion, queues, failuresLeft>>

AcquireOutput(o) ==
    /\ worker = "acquire" /\ IsFirstFree(pool, o)
    /\ pool' = Acquired(pool, o) /\ output' = o
    /\ worker' = "decode"
    /\ UNCHANGED <<driver, frames, mailbox, packet, outputSeq, leases,
                   published, hub, owner, deletion, queues, failuresLeft>>

ForgetPacket ==
    /\ worker = "acquire" /\ ~CanAcquire(pool)
    /\ pool' = AcquireFailed(pool)
    /\ packet' = NoPacket
    /\ worker' = "test"
    /\ UNCHANGED <<driver, frames, mailbox, output, outputSeq, leases,
                   published, hub, owner, deletion, queues, failuresLeft>>

(* Sinks have all the output slots: the frame is dropped.                  *)
PoolExhausted ==
    /\ worker = "acquire" /\ ~CanAcquire(pool)
    /\ pool' = AcquireFailed(pool)
    /\ Return(packet) /\ packet' = NoPacket
    /\ worker' = "test"
    /\ UNCHANGED <<frames, mailbox, output, outputSeq, leases, published, hub,
                   owner, deletion, queues, failuresLeft>>

(* The input goes back before the decoded frame is published.              *)
Decode ==
    /\ worker = "decode"
    /\ Return(packet) /\ packet' = NoPacket
    /\ outputSeq' = packet.seq
    /\ worker' = "lock"
    /\ UNCHANGED <<frames, mailbox, output, pool, leases, published, hub,
                   owner, deletion, queues, failuresLeft>>

DecodeFails ==
    /\ worker = "decode" /\ failuresLeft > 0
    /\ failuresLeft' = failuresLeft - 1
    /\ Return(packet) /\ packet' = NoPacket
    /\ pool' = Released(pool, output) /\ output' = 0
    /\ worker' = "test"
    /\ UNCHANGED <<frames, mailbox, outputSeq, leases, published, hub, owner,
                   deletion, queues>>

(* The decoded frame is dropped: its lease, the only one, frees the slot.  *)
DropOutput ==
    /\ pool' = Released(pool, output)
    /\ output' = 0 /\ outputSeq' = 0
    /\ worker' = "test"
    /\ UNCHANGED <<packet, leases>>

(* m_hub.lock()                                                            *)
LockHub ==
    /\ worker = "lock"
    /\ IF hub = "gone"
       THEN DropOutput
       ELSE worker' = "publish" /\ UNCHANGED <<work, pool, leases>>
    /\ UNCHANGED <<driver, frames, mailbox, published, hub, owner, deletion,
                   queues, failuresLeft>>

(* publishFrame(): a closed hub drops the frame, an open one calls the     *)
(* sinks. A hub whose last other reference has gone is still open.         *)
Publish ==
    /\ worker = "publish"
    /\ IF hub = "closed"
       THEN DropOutput /\ UNCHANGED published
       ELSE /\ worker' = "calling"
            /\ published' = outputSeq
            /\ UNCHANGED <<work, pool, leases>>
    /\ UNCHANGED <<driver, frames, mailbox, hub, owner, deletion, queues,
                   failuresLeft>>

KeepTwice ==
    /\ leases' = leases \cup {output}
    /\ pool' = Released(pool, output)
    /\ output' = 0 /\ outputSeq' = 0 /\ worker' = "test"
    /\ UNCHANGED packet

SinkKeeps ==
    /\ leases' = leases \cup {output}
    /\ output' = 0 /\ outputSeq' = 0 /\ worker' = "test"
    /\ UNCHANGED <<pool, packet>>

(* The sinks return; one keeps its copy of the lease, or none does.        *)
SinksReturn ==
    /\ worker = "calling"
    /\ SinkKeeps \/ DropOutput
    /\ UNCHANGED <<driver, frames, mailbox, published, hub, owner, deletion,
                   queues, failuresLeft>>

SinkReleases(o) ==
    /\ o \in leases
    /\ leases' = leases \ {o}
    /\ pool' = Released(pool, o)
    /\ UNCHANGED <<driver, frames, mailbox, worker, work, published, hub,
                   owner, deletion, queues, failuresLeft>>
-----------------------------------------------------------------------------
Worker ==
    \/ TakePacket \/ NoPacketToTake \/ FallAsleep
    \/ (\E o \in Outputs : AcquireOutput(o)) \/ PoolExhausted
    \/ Decode \/ DecodeFails \/ LockHub \/ Publish \/ SinksReturn

Owner == NotifyWorker \/ Shutdown \/ JoinWorker

Next ==
    \/ FindStillActive
    \/ \E b \in Inputs : PostFrame(b)
    \/ CloseHub \/ Teardown
    \/ Owner \/ Worker
    \/ \E o \in Outputs : SinkReleases(o)

Spec == Init /\ [][Next]_vars

(* The worker and the thread that ends it keep running; sinks return from  *)
(* onFrame(). Sinks need not release what they keep.                       *)
FairSpec == Spec /\ WF_vars(Worker) /\ WF_vars(Owner)
-----------------------------------------------------------------------------
TypeOK ==
    /\ driver \in SUBSET Inputs /\ frames \in 0 .. MaxFrames
    /\ pending \in Packets \cup {NoPacket} /\ stopping \in BOOLEAN
    /\ worker \in WorkerPcs
    /\ packet \in Packets \cup {NoPacket}
    /\ output \in Outputs \cup {0} /\ outputSeq \in 0 .. MaxFrames
    /\ pool \in Pools
    /\ leases \in SUBSET Outputs /\ published \in 0 .. MaxFrames
    /\ hub \in {"open", "closed", "gone"}
    /\ owner \in OwnerPcs /\ deletion \in {"none", "posted"}
    /\ queues \in {"alive", "destroyed"}
    /\ failuresLeft \in 0 .. MaxFailures

(* Every camera buffer is in one place: with the driver, in the mailbox or  *)
(* with the worker. Replaced and undecodable frames, an exhausted pool and  *)
(* a shutdown give it back once and lose none.                              *)
InputsAccounted ==
    /\ driver \cup ({pending.buf, packet.buf} \ {NoInput}) = Inputs
    /\ {pending.buf, packet.buf} \cap driver = {}
    /\ pending.buf = packet.buf => pending = NoPacket

(* The slots in use are those sinks have and the one the worker writes,     *)
(* never both: no sink reads a frame being written.                         *)
OutputsAccounted ==
    /\ pool.inUse = leases \cup ({output} \ {0})
    /\ output \notin leases
    /\ pool = PoolOf(pool.inUse)

(* No buffer, camera's or decoder's, is lost or has two owners.             *)
BuffersAccounted == InputsAccounted /\ OutputsAccounted

(* Sinks get the frames in the order of their capture, none twice.          *)
FramesInOrder ==
    [][worker' = "calling" /\ worker # "calling"
           => published' > published]_vars

(* The thread that erases a deleted camera and waits for the worker to end  *)
(* has m_camChangeMutex. It does not wait for a sink, which may itself be   *)
(* waiting for that mutex in a call to the manager.                         *)
JoinFindsNoCallback ==
    deletion = "posted" => worker # "calling"

(* shutdown() ends: the worker sees m_stopping whatever it is at.           *)
ShutdownEnds == owner = "join" ~> owner = "done"

(* A posted frame does not stay in the mailbox: the worker takes it, or a   *)
(* newer frame or the shutdown replaces it.                                 *)
MailboxIsEmptied ==
    \A n \in 1 .. MaxFrames : pending.seq = n ~> pending.seq # n

(* The worker wakes up for both, although the notification comes after      *)
(* m_mutex is released.                                                     *)
WorkerWakes == MailboxIsEmptied /\ ShutdownEnds

(* What the log says of the destructor: no background thread works on the   *)
(* manager's queues and its eventfd once they are destroyed.                *)
ReturnsReachTheManager ==
    [][queues = "destroyed" => driver' = driver]_vars
=============================================================================
