----------------------- MODULE CamDecodeWorkerProofs -----------------------
(***************************************************************************)
(* The safety properties of CamDecodeWorker, for any number of camera      *)
(* buffers, output slots and frames.                                       *)
(***************************************************************************)
EXTENDS CamDecodeWorker, TLAPS

(* Where the worker thread is says what it has in hand.                    *)
InHand ==
    /\ packet # NoPacket <=> worker \in {"acquire", "decode"}
    /\ output # 0 <=> worker \in {"decode", "lock", "publish", "calling"}

(* A deleted camera's hub is closed for as long as the worker may publish. *)
DeletedIsSilent ==
    deletion = "posted" =>
        /\ worker # "calling"
        /\ hub = "closed" \/ worker = "exited"

(* What is nearer to the sinks is older, and there is a number left for    *)
(* the frame that is about to be posted.                                   *)
NewestWaits ==
    /\ owner = "post" => frames < MaxFrames
    /\ pending.seq <= frames
    /\ packet.seq <= frames /\ outputSeq <= frames /\ published <= frames
    /\ pending # NoPacket => /\ packet.seq < pending.seq
                             /\ outputSeq < pending.seq
                             /\ published < pending.seq
    /\ packet # NoPacket => published < packet.seq
    /\ worker \in {"lock", "publish"} => published < outputSeq

WorkerInv ==
    /\ TypeOK
    /\ InHand
    /\ InputsAccounted
    /\ OutputsAccounted
    /\ DeletedIsSilent
    /\ NewestWaits
-----------------------------------------------------------------------------
(* A packet has a buffer and a number, or neither.                         *)
LEMMA PacketParts ==
    ASSUME NEW p \in Packets \cup {NoPacket}
    PROVE  /\ p.buf \in Inputs \cup {NoInput} /\ p.seq \in 0 .. MaxFrames
           /\ p.buf = NoInput <=> p = NoPacket
           /\ p.seq = 0 <=> p = NoPacket
<1>1. CASE p \in Packets
  BY <1>1, CamDecodeWorkerAssumption DEF Packets, NoPacket
<1>2. CASE p = NoPacket
  BY <1>2, CamDecodeWorkerAssumption DEF NoPacket
<1> QED
  BY <1>1, <1>2

(* What taking a slot, failing to, and releasing one make of a pool whose  *)
(* state agrees with its slots.                                            *)
LEMMA PoolParts ==
    ASSUME NEW p \in Pools, NEW o \in Outputs
    PROVE  /\ Acquired(p, o) = PoolOf(p.inUse \cup {o})
           /\ Acquired(p, o) \in Pools
           /\ AcquireFailed(p) \in Pools /\ AcquireFailed(p).inUse = p.inUse
           /\ o \in p.inUse => Released(p, o) = PoolOf(p.inUse \ {o})
           /\ Released(p, o) \in Pools
BY DEF Acquired, AcquireFailed, Released, PoolOf, Pools

LEMMA PoolOfType ==
    ASSUME NEW S \in SUBSET Outputs
    PROVE  PoolOf(S) \in Pools /\ PoolOf(S).inUse = S
BY DEF PoolOf, Pools

(* 0 stands for no slot and is none.                                       *)
LEMMA NoSlot == 0 \notin Outputs
BY PoolSizeAssumption DEF Outputs

(* The initial state satisfies the invariant.                              *)
LEMMA WorkerInit == Init => WorkerInv
<1> SUFFICES ASSUME Init PROVE WorkerInv
  OBVIOUS
<1> USE DEF Init
<1>1. 0 \in 0 .. MaxFrames /\ MaxFailures \in 0 .. MaxFailures
  BY CamDecodeWorkerAssumption
<1>2. NewPool = PoolOf({}) /\ {} \in SUBSET Outputs
  BY PoolSizeAssumption DEF NewPool, PoolOf, Outputs
<1>3. NewPool \in Pools /\ NewPool.inUse = {}
  BY <1>2, PoolOfType
<1>4. TypeOK
  BY <1>1, <1>2, <1>3 DEF TypeOK, WorkerPcs, OwnerPcs
<1>5. InputsAccounted
  BY CamDecodeWorkerAssumption DEF InputsAccounted, NoPacket
<1>6. OutputsAccounted
  BY <1>2, <1>3 DEF OutputsAccounted
<1> QED
  BY <1>1, <1>4, <1>5, <1>6
     DEF WorkerInv, InHand, DeletedIsSilent, NewestWaits, NoPacket
-----------------------------------------------------------------------------
(* One lemma for each part of the invariant, one step for each action that *)
(* disturbs it.                                                            *)

(* Steps of the poll thread and of the threads that end the worker.        *)
LEMMA TypeOwner ==
    ASSUME TypeOK, NewestWaits,
           \/ FindStillActive \/ \E b \in Inputs : PostFrame(b)
           \/ CloseHub \/ Teardown \/ Owner
    PROVE  TypeOK'
<1> USE CamDecodeWorkerAssumption DEF TypeOK, mailbox, work, OwnerPcs
<1>1. ASSUME NEW b \in Inputs, PostFrame(b)
      PROVE  TypeOK'
  <2> USE <1>1 DEF PostFrame, PostUnlocked
  <2>1. frames + 1 \in 1 .. MaxFrames /\ frames + 1 \in 0 .. MaxFrames
    BY DEF NewestWaits
  <2>2. pending' \in Packets
    BY <2>1 DEF Packets
  <2>3. driver' \in SUBSET Inputs
    BY PacketParts
  <2> QED
    BY <2>1, <2>2, <2>3
<1>2. CASE CloseHub
  BY <1>2 DEF CloseHub, CloseWithoutWaiting
<1>3. CASE Teardown
  BY <1>3 DEF Teardown
<1>4. CASE NotifyWorker
  BY <1>4 DEF NotifyWorker, Notify, WorkerPcs
<1>5. CASE Shutdown
  BY <1>5, PacketParts DEF Shutdown, StopUnlocked, Return
<1>6. CASE JoinWorker
  BY <1>6 DEF JoinWorker
<1>7. CASE FindStillActive
  BY <1>7 DEF FindStillActive
<1> QED
  BY <1>1, <1>2, <1>3, <1>4, <1>5, <1>6, <1>7 DEF Owner

(* Steps of the worker and of the sinks.                                   *)
LEMMA TypeWorker ==
    ASSUME TypeOK, InHand, OutputsAccounted,
           Worker \/ \E o \in Outputs : SinkReleases(o)
    PROVE  TypeOK'
<1> USE CamDecodeWorkerAssumption DEF TypeOK, InHand, mailbox, work, WorkerPcs
<1>0. 0 \in 0 .. MaxFrames /\ packet.seq \in 0 .. MaxFrames
      /\ packet.buf \in Inputs \cup {NoInput}
  BY PacketParts
<1>1. CASE TakePacket
  BY <1>1 DEF TakePacket
<1>2. CASE NoPacketToTake \/ FallAsleep
  BY <1>2 DEF NoPacketToTake, FallAsleep
<1>3. ASSUME NEW o \in Outputs, AcquireOutput(o)
      PROVE  TypeOK'
  <2>1. pool' \in Pools
    BY <1>3, PoolParts DEF AcquireOutput
  <2> QED
    BY <1>3, <2>1 DEF AcquireOutput
<1>4. CASE PoolExhausted
  <2>1. AcquireFailed(pool) \in Pools
    BY DEF AcquireFailed, Pools
  <2> QED
    BY <1>0, <1>4, <2>1 DEF PoolExhausted, Return
<1>5. CASE Decode
  BY <1>0, <1>5 DEF Decode, Return
<1>6. ASSUME output \in Outputs
      PROVE  Released(pool, output) \in Pools
  BY <1>6, PoolParts
<1>7. CASE DecodeFails
  <2>1. failuresLeft - 1 \in 0 .. MaxFailures
    BY <1>7 DEF DecodeFails
  <2> QED
    BY <1>0, <1>6, <1>7, <2>1 DEF DecodeFails, Return
<1>8. CASE LockHub
  BY <1>0, <1>6, <1>8 DEF LockHub, DropOutput
<1>9. CASE Publish
  BY <1>0, <1>6, <1>9 DEF Publish, DropOutput
<1>10. CASE SinksReturn
  BY <1>0, <1>6, <1>10 DEF SinksReturn, DropOutput, SinkKeeps
<1>11. ASSUME NEW o \in Outputs, SinkReleases(o)
       PROVE  TypeOK'
  BY <1>11, PoolParts DEF SinkReleases
<1> QED
  BY <1>1, <1>2, <1>3, <1>4, <1>5, <1>7, <1>8, <1>9, <1>10, <1>11 DEF Worker

(* What the worker has in hand follows it.                                 *)
LEMMA InHandNext ==
    ASSUME TypeOK, InHand, OutputsAccounted, Next
    PROVE  InHand'
<1> USE NoSlot DEF TypeOK, InHand, mailbox, work
<1>1. ASSUME NEW b \in Inputs, PostFrame(b)
      PROVE  InHand'
  BY <1>1 DEF PostFrame, PostUnlocked
<1>2. CASE FindStillActive \/ CloseHub \/ Teardown
  BY <1>2 DEF FindStillActive, CloseHub, CloseWithoutWaiting, Teardown
<1>3. CASE Owner
  BY <1>3 DEF Owner, NotifyWorker, Notify, Shutdown, StopUnlocked, JoinWorker
<1>4. CASE TakePacket \/ NoPacketToTake \/ FallAsleep
  BY <1>4 DEF TakePacket, NoPacketToTake, FallAsleep
<1>5. ASSUME NEW o \in Outputs, AcquireOutput(o)
      PROVE  InHand'
  BY <1>5 DEF AcquireOutput
<1>6. CASE PoolExhausted \/ Decode \/ DecodeFails
  BY <1>6 DEF PoolExhausted, Decode, DecodeFails
<1>7. CASE LockHub \/ Publish \/ SinksReturn
  BY <1>7 DEF LockHub, Publish, SinksReturn, SinkKeeps, DropOutput
<1>8. ASSUME NEW o \in Outputs, SinkReleases(o)
      PROVE  InHand'
  BY <1>8 DEF SinkReleases
<1> QED
  BY <1>1, <1>2, <1>3, <1>4, <1>5, <1>6, <1>7, <1>8 DEF Next, Worker

(* Each step moves a camera buffer from one place to another or none.      *)
LEMMA InputsNext ==
    ASSUME TypeOK, InHand, InputsAccounted, Next
    PROVE  InputsAccounted'
<1> USE CamDecodeWorkerAssumption DEF TypeOK, mailbox, work
<1>0. /\ pending.buf \in Inputs \cup {NoInput}
      /\ packet.buf \in Inputs \cup {NoInput}
      /\ pending.buf = NoInput <=> pending = NoPacket
      /\ packet.buf = NoInput <=> packet = NoPacket
      /\ NoPacket.buf = NoInput
  BY PacketParts DEF NoPacket
<1>1. ASSUME NEW b \in Inputs, PostFrame(b)
      PROVE  InputsAccounted'
  <2>1. pending'.buf = b /\ packet' = packet
        /\ driver' = (driver \ {b}) \cup ({pending.buf} \ {NoInput})
        /\ b \in driver
    BY <1>1 DEF PostFrame, PostUnlocked
  <2> QED
    BY <1>0, <2>1 DEF InputsAccounted
<1>2. CASE Shutdown
  BY <1>0, <1>2 DEF Shutdown, StopUnlocked, Return, InputsAccounted
<1>3. CASE TakePacket
  <2>1. packet = NoPacket
    BY <1>3 DEF TakePacket, InHand
  <2> QED
    BY <1>0, <1>3, <2>1 DEF TakePacket, InputsAccounted
<1>4. CASE PoolExhausted \/ Decode \/ DecodeFails
  <2>1. driver' = driver \cup ({packet.buf} \ {NoInput})
        /\ packet' = NoPacket /\ pending' = pending
    BY <1>4 DEF PoolExhausted, Decode, DecodeFails, Return
  <2> QED
    BY <1>0, <2>1 DEF InputsAccounted
<1>5. ASSUME UNCHANGED <<driver, pending, packet>>
      PROVE  InputsAccounted'
  BY <1>5 DEF InputsAccounted
<1>6. CASE FindStillActive \/ CloseHub \/ Teardown \/ NotifyWorker
           \/ JoinWorker
  BY <1>5, <1>6
     DEF FindStillActive, CloseHub, CloseWithoutWaiting, Teardown, NotifyWorker, JoinWorker
<1>7. CASE NoPacketToTake \/ FallAsleep \/ \E o \in Outputs : AcquireOutput(o)
  BY <1>5, <1>7 DEF NoPacketToTake, FallAsleep, AcquireOutput
<1>8. CASE LockHub \/ Publish \/ SinksReturn
  BY <1>5, <1>8 DEF LockHub, Publish, SinksReturn, SinkKeeps, DropOutput
<1>9. CASE \E o \in Outputs : SinkReleases(o)
  BY <1>5, <1>9 DEF SinkReleases
<1> QED
  BY <1>1, <1>2, <1>3, <1>4, <1>6, <1>7, <1>8, <1>9 DEF Next, Owner, Worker

(* A slot is taken when it is free, passes from the worker to the sinks,   *)
(* and is released by the one that has it.                                 *)
LEMMA OutputsNext ==
    ASSUME TypeOK, InHand, OutputsAccounted, Next
    PROVE  OutputsAccounted'
<1> USE NoSlot DEF TypeOK, mailbox, work
<1>0. ASSUME NEW used \in SUBSET Outputs, pool' = PoolOf(used),
             used = leases' \cup ({output'} \ {0}), output' \notin leases'
      PROVE  OutputsAccounted'
  BY <1>0, PoolOfType DEF OutputsAccounted
<1>1. ASSUME NEW o \in Outputs, AcquireOutput(o)
      PROVE  OutputsAccounted'
  <2> USE <1>1 DEF AcquireOutput, OutputsAccounted, InHand
  <2>1. pool' = PoolOf(pool.inUse \cup {o})
    BY PoolParts
  <2>2. o \notin pool.inUse /\ output = 0
    BY DEF IsFirstFree
  <2> QED
    BY <1>0, <2>1, <2>2
<1>2. CASE PoolExhausted
  <2> USE <1>2 DEF PoolExhausted, OutputsAccounted
  <2>1. pool.inUse = Outputs
    BY DEF CanAcquire
  <2>2. pool' = pool
    BY <2>1 DEF AcquireFailed, PoolOf
  <2> QED
    BY <2>2
<1>3. ASSUME output \in Outputs, pool' = Released(pool, output),
             output' = 0, leases' = leases
      PROVE  OutputsAccounted'
  <2> USE <1>3 DEF OutputsAccounted
  <2>1. pool' = PoolOf(pool.inUse \ {output})
    BY PoolParts
  <2> QED
    BY <1>0, <2>1
<1>4. ASSUME UNCHANGED <<pool, leases, output>>
      PROVE  OutputsAccounted'
  BY <1>4 DEF OutputsAccounted
<1>5. CASE DecodeFails
  BY <1>3, <1>5 DEF DecodeFails, InHand
<1>6. CASE LockHub
  BY <1>3, <1>4, <1>6 DEF LockHub, DropOutput, InHand
<1>7. CASE Publish
  BY <1>3, <1>4, <1>7 DEF Publish, DropOutput, InHand
<1>8. CASE SinksReturn
  <2>1. CASE SinkKeeps
    BY <1>8, <2>1 DEF SinksReturn, SinkKeeps, OutputsAccounted, InHand
  <2>2. CASE DropOutput
    BY <1>3, <1>8, <2>2 DEF SinksReturn, DropOutput, InHand
  <2> QED
    BY <1>8, <2>1, <2>2 DEF SinksReturn
<1>9. ASSUME NEW o \in Outputs, SinkReleases(o)
      PROVE  OutputsAccounted'
  <2> USE <1>9 DEF SinkReleases, OutputsAccounted
  <2>1. pool' = PoolOf(pool.inUse \ {o})
    BY PoolParts
  <2> QED
    BY <1>0, <2>1
<1>10. CASE \/ FindStillActive \/ \E b \in Inputs : PostFrame(b)
            \/ CloseHub \/ Teardown \/ Owner
  BY <1>4, <1>10
     DEF FindStillActive, CloseHub, CloseWithoutWaiting, Teardown, Owner, NotifyWorker,
         Shutdown, StopUnlocked, JoinWorker, PostFrame, PostUnlocked
<1>11. CASE TakePacket \/ NoPacketToTake \/ FallAsleep \/ Decode
  BY <1>4, <1>11 DEF TakePacket, NoPacketToTake, FallAsleep, Decode
<1> QED
  BY <1>1, <1>2, <1>5, <1>6, <1>7, <1>8, <1>9, <1>10, <1>11 DEF Next, Worker

(* A closed hub is opened by nobody, and a worker that ended has ended.    *)
LEMMA SilentNext ==
    ASSUME TypeOK, InHand, DeletedIsSilent, Next
    PROVE  DeletedIsSilent'
<1> USE DEF TypeOK, DeletedIsSilent, mailbox, work
<1>1. CASE FindStillActive \/ CloseHub \/ Teardown
  BY <1>1 DEF FindStillActive, CloseHub, CloseWithoutWaiting, Teardown
<1>2. CASE Owner
  BY <1>2 DEF Owner, NotifyWorker, Notify, Shutdown, StopUnlocked, JoinWorker
<1>3. CASE \E b \in Inputs : PostFrame(b)
  BY <1>3 DEF PostFrame, PostUnlocked
<1>4. CASE TakePacket \/ NoPacketToTake \/ FallAsleep
  BY <1>4 DEF TakePacket, NoPacketToTake, FallAsleep
<1>5. CASE PoolExhausted \/ Decode \/ DecodeFails
  BY <1>5 DEF PoolExhausted, Decode, DecodeFails
<1>6. CASE \E o \in Outputs : AcquireOutput(o)
  BY <1>6 DEF AcquireOutput
<1>7. CASE LockHub \/ Publish
  BY <1>7 DEF LockHub, Publish, DropOutput
<1>8. CASE SinksReturn
  BY <1>8 DEF SinksReturn, SinkKeeps, DropOutput
<1>9. CASE \E o \in Outputs : SinkReleases(o)
  BY <1>9 DEF SinkReleases
<1> QED
  BY <1>1, <1>2, <1>3, <1>4, <1>5, <1>6, <1>7, <1>8, <1>9 DEF Next, Worker

(* A new frame is the newest; a frame passes on only after those before it *)
(* have, or have been dropped.                                             *)
LEMMA OrderNext ==
    ASSUME TypeOK, InHand, NewestWaits, Next
    PROVE  NewestWaits'
<1> USE DEF NewestWaits, mailbox, work
<1>0. /\ frames \in Nat /\ published \in Nat /\ outputSeq \in Nat
      /\ pending.seq \in Nat /\ packet.seq \in Nat
      /\ pending.seq = 0 <=> pending = NoPacket
      /\ packet.seq = 0 <=> packet = NoPacket
      /\ NoPacket.seq = 0
  BY PacketParts, CamDecodeWorkerAssumption DEF TypeOK, NoPacket
<1>1. ASSUME NEW b \in Inputs, PostFrame(b)
      PROVE  NewestWaits'
  <2>1. pending'.seq = frames + 1 /\ frames' = frames + 1
    BY <1>1 DEF PostFrame, PostUnlocked
  <2>2. UNCHANGED <<worker, packet, outputSeq, published>> /\ owner' # "post"
    BY <1>1 DEF PostFrame, PostUnlocked
  <2> QED
    BY <1>0, <2>1, <2>2
<1>2. ASSUME UNCHANGED <<pending, frames, packet, outputSeq, published>>,
             owner' = "post" => owner = "post",
             worker' \in {"lock", "publish"} => worker \in {"lock", "publish"}
      PROVE  NewestWaits'
  BY <1>2
<1>11. CASE FindStillActive
  BY <1>11 DEF FindStillActive
<1>3. CASE CloseHub \/ Teardown \/ NotifyWorker \/ JoinWorker
  BY <1>2, <1>3 DEF CloseHub, CloseWithoutWaiting, Teardown, NotifyWorker,
                    Notify, JoinWorker
<1>4. CASE Shutdown
  BY <1>0, <1>4 DEF Shutdown, StopUnlocked
<1>5. CASE TakePacket
  BY <1>0, <1>5 DEF TakePacket, InHand
<1>6. CASE NoPacketToTake \/ FallAsleep \/ \E o \in Outputs : AcquireOutput(o)
  BY <1>2, <1>6 DEF NoPacketToTake, FallAsleep, AcquireOutput
<1>7. CASE PoolExhausted \/ Decode \/ DecodeFails
  BY <1>0, <1>7 DEF PoolExhausted, Decode, DecodeFails, InHand
<1>8. CASE LockHub \/ SinksReturn
  BY <1>0, <1>8 DEF LockHub, SinksReturn, SinkKeeps, DropOutput, InHand
<1>9. CASE Publish
  BY <1>0, <1>9 DEF Publish, DropOutput, InHand
<1>10. CASE \E o \in Outputs : SinkReleases(o)
  BY <1>2, <1>10 DEF SinkReleases
<1> QED
  BY <1>1, <1>3, <1>4, <1>5, <1>6, <1>7, <1>8, <1>9, <1>10, <1>11
     DEF Next, Owner, Worker

LEMMA WorkerNext == WorkerInv /\ [Next]_vars => WorkerInv'
<1> SUFFICES ASSUME WorkerInv, [Next]_vars PROVE WorkerInv'
  OBVIOUS
<1>1. CASE Next
  <2>1. TypeOK'
    BY <1>1, TypeOwner, TypeWorker DEF WorkerInv, Next
  <2> QED
    BY <1>1, <2>1, InHandNext, InputsNext, OutputsNext, SilentNext, OrderNext
       DEF WorkerInv
<1>2. CASE UNCHANGED vars
  BY <1>2 DEF vars, mailbox, work, WorkerInv, TypeOK, InHand, InputsAccounted,
              OutputsAccounted, DeletedIsSilent, NewestWaits
<1> QED
  BY <1>1, <1>2

(* The invariant holds in every behaviour.                                 *)
LEMMA WorkerInvariant == Spec => []WorkerInv
BY WorkerInit, WorkerNext, PTL DEF Spec
-----------------------------------------------------------------------------
(* However many frames are replaced, dropped for want of a slot or found   *)
(* undecodable, no camera buffer is lost or given back twice.              *)
THEOREM NoInputLost == Spec => []InputsAccounted
<1>1. WorkerInv => InputsAccounted
  BY DEF WorkerInv
<1> QED
  BY <1>1, WorkerInvariant, PTL

(* No output slot leaks, and the worker never writes one a sink has.       *)
THEOREM NoOutputShared == Spec => []OutputsAccounted
<1>1. WorkerInv => OutputsAccounted
  BY DEF WorkerInv
<1> QED
  BY <1>1, WorkerInvariant, PTL

(* Camera buffers and output slots together.                               *)
THEOREM BuffersStayAccounted == Spec => []BuffersAccounted
<1>1. InputsAccounted /\ OutputsAccounted => BuffersAccounted
  BY DEF BuffersAccounted
<1> QED
  BY <1>1, NoInputLost, NoOutputShared, PTL

(* The thread that erases a deleted camera waits for no sink.              *)
THEOREM JoinWaitsForNoSink == Spec => []JoinFindsNoCallback
<1>1. WorkerInv => JoinFindsNoCallback
  BY DEF WorkerInv, DeletedIsSilent, JoinFindsNoCallback
<1> QED
  BY <1>1, WorkerInvariant, PTL

(* Frames reach the sinks in the order of their capture.                   *)
THEOREM CaptureOrder == Spec => FramesInOrder
<1>1. WorkerInv /\ [Next]_vars =>
          [worker' = "calling" /\ worker # "calling"
               => published' > published]_vars
  <2> SUFFICES ASSUME WorkerInv, Next, worker' = "calling",
                      worker # "calling"
               PROVE  published' > published
    OBVIOUS
  <2>1. Publish
    BY DEF Next, Owner, Worker, FindStillActive, PostFrame, PostUnlocked, CloseHub,
       CloseWithoutWaiting, Teardown, NotifyWorker, Notify, Shutdown,
       StopUnlocked, JoinWorker, TakePacket, NoPacketToTake, FallAsleep,
       AcquireOutput, PoolExhausted, Decode, DecodeFails, LockHub, DropOutput,
       SinksReturn, SinkKeeps, SinkReleases
  <2>2. published' = outputSeq /\ worker = "publish"
    BY <2>1 DEF Publish, DropOutput
  <2>3. published < outputSeq /\ published \in Nat /\ outputSeq \in Nat
    BY <2>2, CamDecodeWorkerAssumption DEF WorkerInv, NewestWaits, TypeOK
  <2> QED
    BY <2>2, <2>3
<1> QED
  BY <1>1, WorkerInvariant, PTL DEF Spec, FramesInOrder
=============================================================================
