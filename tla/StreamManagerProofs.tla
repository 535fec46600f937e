------------------------ MODULE StreamManagerProofs ------------------------
(***************************************************************************)
(* Theorems about the manager of a stream: every output slot in use is in  *)
(* one place, and a stream that was stopped or deleted is silent, whatever *)
(* the client, the event thread, the decode worker and the publisher do.   *)
(***************************************************************************)
EXTENDS StreamManager, TLAPS, SequenceTheorems

One(b) == IF b THEN 1 ELSE 0

(* What the type invariant needs: a call is paid for before it raises the  *)
(* generation and the number of the worker, ...                            *)
Budget ==
    /\ gen + callsLeft + One(at = "lock") <= MaxCalls
    /\ run + callsLeft
           + One(at = "lock" \/ (call = "start" /\ at \in {"stopWorker", "joinWorker"}))
           <= MaxCalls

(* ... and the worker and the publisher have what they work on.            *)
Holding ==
    /\ worker # "none" => run >= 1
    /\ worker = "copying" <=> output # 0
    /\ publisher \in {"apply", "applying"} <=> batch # <<>>
    /\ publisher \notin {"publish", "calling"} => held = NoFrame

TypeInv == TypeOK /\ Budget /\ Holding
-----------------------------------------------------------------------------
(* The pool and the queues.                                                *)

LEMMA PoolValues ==
    ASSUME NEW p \in Pools, NEW o \in Outputs \cup {0}
    PROVE  /\ AcquireFailed(p) \in Pools /\ AcquireFailed(p).inUse = p.inUse
           /\ Released(p, o) \in Pools /\ Released(p, o).inUse = p.inUse \ {o}
           /\ o # 0 => /\ Acquired(p, o) \in Pools
                       /\ Acquired(p, o).inUse = p.inUse \cup {o}
<1>1. AcquireFailed(p) \in Pools /\ AcquireFailed(p).inUse = p.inUse
  BY DEF AcquireFailed, Pools
<1>2. Released(p, o) \in Pools /\ Released(p, o).inUse = p.inUse \ {o}
  BY DEF Released, PoolOf, Pools
<1>3. o # 0 => /\ Acquired(p, o) \in Pools
               /\ Acquired(p, o).inUse = p.inUse \cup {o}
  BY DEF Acquired, PoolOf, Pools
<1> QED
  BY <1>1, <1>2, <1>3

LEMMA ClearedReady ==
    ASSUME TypeOK, ClearReady
    PROVE  /\ ready' = <<>> /\ pool' \in Pools
           /\ pool'.inUse = pool.inUse \ SlotsOf(ready)
<1>1. CASE ready = <<>>
  <2>1. SlotsOf(ready) = {}
    BY <1>1 DEF SlotsOf
  <2> QED
    BY <1>1, <2>1 DEF ClearReady, TypeOK
<1>2. CASE ready # <<>>
  BY <1>2 DEF ClearReady, TypeOK, PoolOf, Pools
<1> QED
  BY <1>1, <1>2

(* A report wakes the publisher or leaves it where it is.                  *)
LEMMA Reported ==
    ASSUME TypeOK, NEW s \in {"Connecting", "Streaming", "Stopped", "Error"},
           Report(s)
    PROVE  /\ reports' \in Seq(Reports) /\ pending' \in BOOLEAN
           /\ publisher' = publisher \/ (publisher = "asleep" /\ publisher' = "test")
<1>1. [gen |-> gen, state |-> s] \in Reports
  BY DEF TypeOK, Reports
<1>2. /\ reports \in Seq(Reports) /\ pending \in BOOLEAN
      /\ Append(reports, [gen |-> gen, state |-> s]) \in Seq(Reports)
  BY <1>1 DEF TypeOK
<1> QED
  BY <1>2 DEF Report, Wake

LEMMA HeadAndTail ==
    ASSUME NEW S, NEW q \in Seq(S), q # <<>>
    PROVE  /\ Head(q) \in S /\ Tail(q) \in Seq(S)
           /\ Len(q) \in Nat /\ Len(q) >= 1 /\ Len(Tail(q)) = Len(q) - 1
<1>1. Head(q) \in S /\ Tail(q) \in Seq(S)
  OBVIOUS
<1>2. Len(q) \in Nat /\ Len(q) >= 1
  BY EmptySeq
<1>3. Len(Tail(q)) = Len(q) - 1
  BY <1>2
<1> QED
  BY <1>1, <1>2, <1>3
-----------------------------------------------------------------------------
LEMMA TypeInit == Init => TypeInv
<1> SUFFICES ASSUME Init PROVE TypeInv
  OBVIOUS
<1> USE StreamManagerAssumption DEF Init
<1>1. pool \in Pools /\ held \in [run : 0 .. MaxCalls, slot : Outputs \cup {0}]
  BY DEF NewPool, Pools, NoFrame
<1>2. /\ reports \in Seq(Reports) /\ batch \in Seq(Reports) /\ ready \in Seq(Frames)
      /\ Len(ready) = 0
  OBVIOUS
<1>3. /\ pending \in BOOLEAN /\ stopping \in BOOLEAN /\ started \in BOOLEAN
      /\ endedByStop \in BOOLEAN /\ workerStop \in BOOLEAN /\ stalled \in BOOLEAN
      /\ fed \in BOOLEAN
  BY Zenon
<1>4. TypeOK
  BY <1>1, <1>2, <1>3 DEF TypeOK
<1>5. Budget /\ Holding
  BY DEF Budget, Holding, One
<1> QED
  BY <1>4, <1>5 DEF TypeInv

(* A step of the client keeps the invariant.                               *)
LEMMA TypeCalls ==
    ASSUME TypeInv, (\E c \in Calls : CallStart(c) \/ CallStop(c)) \/ CallShutdown
    PROVE  TypeInv'
<1> USE StreamManagerAssumption
        DEF TypeInv, TypeOK, Budget, Holding, One, manager, mailbox, control, rtsp,
            decoder, frames, publish, Spend, Wake
<1>1. ASSUME NEW c \in Calls, CallStart(c) PROVE TypeInv'
  <2>1. /\ stopping' \in BOOLEAN /\ pending' \in BOOLEAN
        /\ publisher' = publisher \/ (publisher = "none" /\ publisher' = "test")
    BY <1>1 DEF CallStart
  <2>2. TypeOK'
    BY <1>1, <2>1 DEF CallStart
  <2>3. Budget'
    BY <1>1 DEF CallStart
  <2>4. Holding'
    BY <1>1, <2>1 DEF CallStart
  <2> QED
    BY <2>2, <2>3, <2>4
<1>2. ASSUME NEW c \in Calls, CallStop(c) PROVE TypeInv'
  <2>1. TypeOK'
    BY <1>2 DEF CallStop
  <2>2. Budget'
    BY <1>2 DEF CallStop
  <2>3. Holding'
    BY <1>2 DEF CallStop
  <2> QED
    BY <2>1, <2>2, <2>3
<1>3. ASSUME CallShutdown PROVE TypeInv'
  <2>1. TypeOK'
    BY <1>3 DEF CallShutdown, Calls
  <2>2. Budget'
    BY <1>3 DEF CallShutdown
  <2>3. Holding'
    BY <1>3 DEF CallShutdown
  <2> QED
    BY <2>1, <2>2, <2>3
<1> QED
  BY <1>1, <1>2, <1>3

LEMMA TypeClient ==
    ASSUME TypeInv, Client
    PROVE  TypeInv'
<1> USE StreamManagerAssumption
        DEF TypeInv, TypeOK, Budget, Holding, One, manager, mailbox, control, rtsp,
            decoder, frames, publish, Return
<1>1. CASE Refused
  <2>1. TypeOK'
    BY <1>1 DEF Refused
  <2>2. Budget'
    BY <1>1 DEF Refused
  <2>3. Holding'
    BY <1>1 DEF Refused
  <2> QED
    BY <2>1, <2>2, <2>3
<1>2. CASE LockStart \/ StartAll
  <2>1. ready' = <<>> /\ pool' \in Pools
    BY <1>2, ClearedReady DEF LockStart, StartAll, BeginRun
  <2>2. TypeOK'
    BY SMTT(40), <1>2, <2>1 DEF LockStart, StartAll, BeginRun, Calls
  <2>3. Budget'
    BY <1>2, <2>1 DEF LockStart, StartAll, BeginRun
  <2>4. Holding'
    BY <1>2, <2>1 DEF LockStart, StartAll, BeginRun
  <2> QED
    BY <2>2, <2>3, <2>4
<1>3. CASE LockStop
  <2>1. TypeOK'
    BY <1>3 DEF LockStop
  <2>2. Budget'
    BY <1>3 DEF LockStop
  <2>3. Holding'
    BY <1>3 DEF LockStop
  <2> QED
    BY <2>1, <2>2, <2>3
<1>4. CASE StopAll
  <2>1. TypeOK'
    BY <1>4 DEF StopAll, Calls
  <2>2. Budget'
    BY <1>4 DEF StopAll
  <2>3. Holding'
    BY <1>4 DEF StopAll
  <2> QED
    BY <2>1, <2>2, <2>3
<1>5. CASE StopWorker
  <2>1. TypeOK'
    BY <1>5 DEF StopWorker
  <2>2. Budget'
    BY <1>5 DEF StopWorker
  <2>3. Holding'
    BY <1>5 DEF StopWorker
  <2> QED
    BY <2>1, <2>2, <2>3
<1>6. CASE JoinWorker
  <2>1. /\ workerStop' \in BOOLEAN /\ stalled' \in BOOLEAN /\ started' \in BOOLEAN
        /\ fed' \in BOOLEAN
    BY <1>6, Zenon DEF JoinWorker
  <2>2. /\ worker' \in {"none", "running"} /\ at' \in {"signal", "finish"}
        /\ output = 0 /\ run' \in 0 .. MaxCalls
    BY <1>6 DEF JoinWorker
  <2>3. TypeOK'
    BY <1>6, <2>1, <2>2 DEF JoinWorker
  <2>4. Budget'
    BY <1>6 DEF JoinWorker
  <2>5. Holding'
    BY <1>6, <2>2 DEF JoinWorker
  <2> QED
    BY <2>3, <2>4, <2>5
<1>7. CASE SignalEvent
  <2>1. TypeOK'
    BY <1>7 DEF SignalEvent
  <2>2. Budget'
    BY <1>7 DEF SignalEvent
  <2>3. Holding'
    BY <1>7 DEF SignalEvent
  <2> QED
    BY <2>1, <2>2, <2>3
<1>8. CASE JoinEvent
  <2>1. /\ reports' \in Seq(Reports) /\ pending' \in BOOLEAN
        /\ publisher' = publisher \/ (publisher = "asleep" /\ publisher' = "test")
    BY <1>8, Reported DEF JoinEvent
  <2>2. /\ event' \in {"none", "connecting"} /\ endedByStop' \in BOOLEAN
        /\ call' \in {call, "none"} /\ at' \in {"idle", "stopWorker"}
        /\ reports' \in Seq(Reports) /\ pending' \in BOOLEAN
        /\ publisher' = publisher \/ (publisher = "asleep" /\ publisher' = "test")
    BY <1>8, <2>1 DEF JoinEvent
  <2>3. TypeOK'
    BY <1>8, <2>1, <2>2 DEF JoinEvent
  <2>4. Budget'
    BY <1>8, <2>1 DEF JoinEvent
  <2>5. Holding'
    BY <1>8, <2>1, <2>2 DEF JoinEvent
  <2> QED
    BY <2>3, <2>4, <2>5
<1>9. CASE FinishStop
  <2>1. ready' = <<>> /\ pool' \in Pools
    BY <1>9, ClearedReady DEF FinishStop
  <2>2. /\ reports' \in Seq(Reports) /\ pending' \in BOOLEAN
        /\ publisher' = publisher \/ (publisher = "asleep" /\ publisher' = "test")
    BY <1>9, Reported DEF FinishStop
  <2>3. TypeOK'
    BY <1>9, <2>1, <2>2 DEF FinishStop
  <2>4. Budget'
    BY <1>9, <2>1, <2>2 DEF FinishStop
  <2>5. Holding'
    BY <1>9, <2>1, <2>2 DEF FinishStop
  <2> QED
    BY <2>3, <2>4, <2>5
<1>10. CASE FinishDelete
  <2>1. ready' = <<>> /\ pool' \in Pools
    BY <1>10, ClearedReady DEF FinishDelete
  <2>2. TypeOK'
    BY <1>10, <2>1 DEF FinishDelete
  <2>3. Budget'
    BY <1>10, <2>1 DEF FinishDelete
  <2>4. Holding'
    BY <1>10, <2>1 DEF FinishDelete
  <2> QED
    BY <2>2, <2>3, <2>4
<1>11. CASE CloseHub
  <2>1. TypeOK'
    BY <1>11 DEF CloseHub
  <2>2. Budget'
    BY <1>11 DEF CloseHub
  <2>3. Holding'
    BY <1>11 DEF CloseHub
  <2> QED
    BY <2>1, <2>2, <2>3
<1>12. CASE JoinPublisher
  <2>1. stopping' \in BOOLEAN /\ pending' \in BOOLEAN
    BY <1>12, Zenon DEF JoinPublisher
  <2>2. TypeOK'
    BY <1>12, <2>1 DEF JoinPublisher
  <2>3. Budget'
    BY <1>12 DEF JoinPublisher
  <2>4. Holding'
    BY <1>12 DEF JoinPublisher
  <2> QED
    BY <2>2, <2>3, <2>4
<1> QED
  BY <1>1, <1>2, <1>3, <1>4, <1>5, <1>6, <1>7, <1>8, <1>9, <1>10, <1>11, <1>12
     DEF Client

LEMMA TypeEvents ==
    ASSUME TypeInv, Plays \/ Fails \/ Event \/ Stalls \/ Recovers
    PROVE  TypeInv'
<1> USE StreamManagerAssumption
        DEF TypeInv, TypeOK, Budget, Holding, manager, mailbox, control, rtsp,
            decoder, frames, publish, Spend
<1>1. CASE Plays
  <2>1. /\ reports' \in Seq(Reports) /\ pending' \in BOOLEAN
        /\ publisher' = publisher \/ (publisher = "asleep" /\ publisher' = "test")
    BY <1>1, Reported DEF Plays
  <2>2. TypeOK'
    BY <1>1, <2>1 DEF Plays
  <2>3. Budget'
    BY <1>1, <2>1 DEF Plays
  <2>4. Holding'
    BY <1>1, <2>1 DEF Plays
  <2> QED
    BY <2>2, <2>3, <2>4
<1>2. CASE Fails
  <2>1. started' \in BOOLEAN /\ stalled' \in BOOLEAN
    BY <1>2, Zenon DEF Fails
  <2>2. TypeOK'
    BY <1>2, <2>1 DEF Fails
  <2>3. Budget'
    BY <1>2 DEF Fails
  <2>4. Holding'
    BY <1>2 DEF Fails
  <2> QED
    BY <2>2, <2>3, <2>4
<1>3. CASE ReportFailure
  <2>1. /\ reports' \in Seq(Reports) /\ pending' \in BOOLEAN
        /\ publisher' = publisher \/ (publisher = "asleep" /\ publisher' = "test")
    BY <1>3, Reported DEF ReportFailure
  <2>2. TypeOK'
    BY <1>3, <2>1 DEF ReportFailure
  <2>3. Budget'
    BY <1>3, <2>1 DEF ReportFailure
  <2>4. Holding'
    BY <1>3, <2>1 DEF ReportFailure
  <2> QED
    BY <2>2, <2>3, <2>4
<1>4. CASE LeaveLoop
  <2>1. TypeOK'
    BY <1>4 DEF LeaveLoop
  <2>2. Budget'
    BY <1>4 DEF LeaveLoop
  <2>3. Holding'
    BY <1>4 DEF LeaveLoop
  <2> QED
    BY <2>1, <2>2, <2>3
<1>5. CASE EndEvent
  <2>1. /\ reports' \in Seq(Reports) /\ pending' \in BOOLEAN
        /\ publisher' = publisher \/ (publisher = "asleep" /\ publisher' = "test")
    BY <1>5, Reported DEF EndEvent
  <2>2. started' \in BOOLEAN
    BY <1>5, Zenon DEF EndEvent
  <2>3. TypeOK'
    BY <1>5, <2>1, <2>2 DEF EndEvent
  <2>4. Budget'
    BY <1>5 DEF EndEvent
  <2>5. Holding'
    BY <1>5, <2>1 DEF EndEvent
  <2> QED
    BY <2>3, <2>4, <2>5
<1>6. CASE Stalls
  <2>1. /\ reports' \in Seq(Reports) /\ pending' \in BOOLEAN
        /\ publisher' = publisher \/ (publisher = "asleep" /\ publisher' = "test")
    BY <1>6, Reported DEF Stalls
  <2>2. TypeOK'
    BY <1>6, <2>1 DEF Stalls
  <2>3. Budget'
    BY <1>6, <2>1 DEF Stalls
  <2>4. Holding'
    BY <1>6, <2>1 DEF Stalls
  <2> QED
    BY <2>2, <2>3, <2>4
<1>7. CASE Recovers
  <2>1. /\ reports' \in Seq(Reports) /\ pending' \in BOOLEAN
        /\ publisher' = publisher \/ (publisher = "asleep" /\ publisher' = "test")
    BY <1>7, Reported DEF Recovers
  <2>2. stalled' \in BOOLEAN
    BY <1>7, Zenon DEF Recovers
  <2>3. TypeOK'
    BY <1>7, <2>1, <2>2 DEF Recovers
  <2>4. Budget'
    BY <1>7 DEF Recovers
  <2>5. Holding'
    BY <1>7, <2>1 DEF Recovers
  <2> QED
    BY <2>3, <2>4, <2>5
<1> QED
  BY <1>1, <1>2, <1>3, <1>4, <1>5, <1>6, <1>7 DEF Event

(* The worker: pictures take and release slots.                            *)
LEMMA TypeWorker ==
    ASSUME TypeInv, ReplacePool \/ (\E o \in Outputs : AcquireOutput(o)) \/ StealOldest
                    \/ DropPicture \/ Worker
    PROVE  TypeInv'
<1> USE StreamManagerAssumption
        DEF TypeInv, TypeOK, Budget, Holding, manager, mailbox, control, rtsp,
            decoder, frames, publish, Decoding
<1>0. pool \in Pools /\ ready \in Seq(Frames) /\ output \in Outputs \cup {0}
  OBVIOUS
<1>1. CASE ReplacePool
  <2>1. pool' \in Pools /\ ready' \in Seq(Frames) /\ Len(ready') = 0 /\ leases' \in SUBSET Outputs
    BY <1>1 DEF ReplacePool, NewPool, Pools
  <2>2. held' = [held EXCEPT !.slot = 0]
    BY <1>1 DEF ReplacePool
  <2>3. held' \in [run : 0 .. MaxCalls, slot : Outputs \cup {0}]
    BY <2>2
  <2>4. held = NoFrame => held' = NoFrame
    BY <2>2 DEF NoFrame
  <2>5. TypeOK'
    BY SMTT(40), <1>1, <2>1, <2>2, <2>3, <2>4 DEF ReplacePool, Spend
  <2>6. Budget'
    BY <1>1, <2>1, <2>2, <2>3, <2>4 DEF ReplacePool, Spend
  <2>7. Holding'
    BY <1>1, <2>1, <2>2, <2>3, <2>4 DEF ReplacePool, Spend
  <2> QED
    BY <2>5, <2>6, <2>7
<1>2. ASSUME NEW o \in Outputs, AcquireOutput(o) PROVE TypeInv'
  <2>1. o # 0 /\ o \in Outputs \cup {0}
    BY <1>2, PoolSizeAssumption DEF Outputs
  <2>2. Acquired(pool, o) \in Pools
    BY <1>2, <1>0, <2>1, PoolValues
  <2>3. TypeOK'
    BY <1>2, <2>1, <2>2 DEF AcquireOutput
  <2>4. Budget'
    BY <1>2, <2>1, <2>2 DEF AcquireOutput
  <2>5. Holding'
    BY <1>2, <2>1, <2>2 DEF AcquireOutput
  <2> QED
    BY <2>3, <2>4, <2>5
<1>3. CASE StealOldest
  <2>1. /\ Head(ready) \in Frames /\ Tail(ready) \in Seq(Frames)
        /\ Len(Tail(ready)) <= ReadyCapacity
    BY <1>3, HeadAndTail DEF StealOldest
  <2>2. Head(ready).slot \in Outputs /\ Head(ready).slot # 0
    BY SMTT(40), <1>3, <2>1, PoolSizeAssumption DEF Frames, Outputs
  <2>3. Acquired(Released(AcquireFailed(pool), Head(ready).slot), Head(ready).slot) \in Pools
    BY <1>3, <1>0, <2>2, PoolValues
  <2>4. TypeOK'
    BY <1>3, <2>1, <2>2, <2>3 DEF StealOldest
  <2>5. Budget'
    BY <1>3, <2>1, <2>2, <2>3 DEF StealOldest
  <2>6. Holding'
    BY <1>3, <2>1, <2>2, <2>3 DEF StealOldest
  <2> QED
    BY <2>4, <2>5, <2>6
<1>4. CASE DropPicture
  <2>1. AcquireFailed(pool) \in Pools
    BY <1>4, <1>0, PoolValues
  <2>2. TypeOK'
    BY <1>4, <2>1 DEF DropPicture
  <2>3. Budget'
    BY <1>4, <2>1 DEF DropPicture
  <2>4. Holding'
    BY <1>4, <2>1 DEF DropPicture
  <2> QED
    BY <2>2, <2>3, <2>4
<1>5. CASE EnqueueFrame
  <2>1. NewFrame \in Frames
    BY <1>5, PoolSizeAssumption DEF EnqueueFrame, NewFrame, Frames, Outputs
  <2>2. Len(ready) >= ReadyCapacity => ready # <<>>
    BY <1>5, EmptySeq
  <2>3. Len(ready) >= ReadyCapacity =>
            /\ Head(ready) \in Frames /\ Tail(ready) \in Seq(Frames)
            /\ Len(Tail(ready)) = Len(ready) - 1
    BY <1>5, <2>2, HeadAndTail
  <2>4. /\ ready' = IF Len(ready) >= ReadyCapacity THEN Append(Tail(ready), NewFrame)
                 ELSE Append(ready, NewFrame)
        /\ pool' = IF Len(ready) >= ReadyCapacity THEN Released(pool, Head(ready).slot)
                 ELSE pool
    BY <1>5 DEF EnqueueFrame
  <2>5. ready' \in Seq(Frames) /\ Len(ready') <= ReadyCapacity
    BY <1>0, <2>1, <2>3, <2>4
  <2>6. Len(ready) >= ReadyCapacity => Head(ready).slot \in Outputs
    BY <2>3 DEF Frames
  <2>7. pool' \in Pools
    BY <1>0, <2>4, <2>6, PoolValues
  <2>8. TypeOK'
    BY <1>5, <2>1, <2>2, <2>3, <2>4, <2>5, <2>6, <2>7 DEF EnqueueFrame
  <2>9. Budget'
    BY <1>5, <2>1, <2>2, <2>3, <2>4, <2>5, <2>6, <2>7 DEF EnqueueFrame
  <2>10. Holding'
    BY <1>5, <2>1, <2>2, <2>3, <2>4, <2>5, <2>6, <2>7 DEF EnqueueFrame
  <2> QED
    BY <2>8, <2>9, <2>10
<1>6. CASE CopyFails
  <2>1. Released(pool, output) \in Pools
    BY <1>6, <1>0, PoolValues
  <2>2. TypeOK'
    BY <1>6, <2>1 DEF CopyFails
  <2>3. Budget'
    BY <1>6, <2>1 DEF CopyFails
  <2>4. Holding'
    BY <1>6, <2>1 DEF CopyFails
  <2> QED
    BY <2>2, <2>3, <2>4
<1>7. CASE NotifyFrame
  <2>1. pending' \in BOOLEAN
    BY <1>7 DEF NotifyFrame
  <2>2. TypeOK'
    BY <1>7, <2>1 DEF NotifyFrame, Wake
  <2>3. Budget'
    BY <1>7, <2>1 DEF NotifyFrame, Wake
  <2>4. Holding'
    BY <1>7, <2>1 DEF NotifyFrame, Wake
  <2> QED
    BY <2>2, <2>3, <2>4
<1>8. CASE WorkerExits
  <2>1. TypeOK'
    BY <1>8 DEF WorkerExits
  <2>2. Budget'
    BY <1>8 DEF WorkerExits
  <2>3. Holding'
    BY <1>8 DEF WorkerExits
  <2> QED
    BY <2>1, <2>2, <2>3
<1> QED
  BY <1>1, <1>2, <1>3, <1>4, <1>5, <1>6, <1>7, <1>8 DEF Worker

(* The publisher.                                                          *)
LEMMA TypePublisher ==
    ASSUME TypeInv, Publisher \/ \E o \in Outputs : SinkReleases(o)
    PROVE  TypeInv'
<1> USE StreamManagerAssumption
        DEF TypeInv, TypeOK, Budget, Holding, manager, mailbox, control, rtsp,
            decoder, frames, publish
<1>0. /\ pool \in Pools /\ ready \in Seq(Frames) /\ held.slot \in Outputs \cup {0}
      /\ batch \in Seq(Reports) /\ reports \in Seq(Reports) /\ <<>> \in Seq(Reports)
      /\ <<>> \in Seq(Frames) /\ Len(<<>>) = 0 /\ Len(ready) <= ReadyCapacity
  OBVIOUS
<1>1. CASE TestPending
  <2>1. pending' \in BOOLEAN
    BY <1>1, Zenon DEF TestPending
  <2>2. publisher' \in {"exited", "swap", "asleep"}
    BY <1>1 DEF TestPending
  <2>3. TypeOK'
    BY <1>1, <2>1, <2>2 DEF TestPending
  <2>4. Budget'
    BY <1>1, <2>1, <2>2 DEF TestPending
  <2>5. Holding'
    BY <1>1, <2>1, <2>2 DEF TestPending
  <2> QED
    BY <2>3, <2>4, <2>5
<1>2. CASE SwapReports
  <2>1. /\ batch' \in Seq(Reports) /\ reports' \in Seq(Reports)
        /\ (publisher' = "snapshot" /\ batch' = <<>>) \/ (publisher' = "apply" /\ batch' # <<>>)
    BY <1>2, <1>0 DEF SwapReports
  <2>2. TypeOK'
    BY <1>2, <2>1 DEF SwapReports
  <2>3. Budget'
    BY <1>2, <2>1 DEF SwapReports
  <2>4. Holding'
    BY <1>2, <2>1 DEF SwapReports
  <2> QED
    BY <2>2, <2>3, <2>4
<1>3. CASE ApplyReport
  <2>1. /\ Head(batch) \in Reports /\ Tail(batch) \in Seq(Reports)
    BY <1>3, <1>0, HeadAndTail DEF ApplyReport
  <2>2. state' \in {"Ready", "Starting", "Streaming", "Stopping", "Stopped",
                    "Deleting", "Error", "Erased"}
    BY <1>3, <2>1 DEF ApplyReport, After, Reports
  <2>3. ClearReady => ready' = <<>> /\ pool' \in Pools
    BY <1>3, ClearedReady
  <2>4. (ready' = ready /\ pool' = pool) \/ (ready' = <<>> /\ pool' \in Pools)
    BY <1>3, <2>3 DEF ApplyReport
  <2>5. ready' \in Seq(Frames) /\ pool' \in Pools
    BY <1>0, <2>4
  <2>6. Len(ready') <= ReadyCapacity
    BY <1>0, <2>4
  <2>7. TypeOK'
    BY <1>3, <2>1, <2>2, <2>3, <2>4, <2>5, <2>6 DEF ApplyReport
  <2>8. Budget'
    BY <1>3, <2>1, <2>2, <2>3, <2>4, <2>5, <2>6 DEF ApplyReport
  <2>9. Holding'
    BY <1>3, <2>1, <2>2, <2>3, <2>4, <2>5, <2>6 DEF ApplyReport
  <2> QED
    BY <2>7, <2>8, <2>9
<1>4. CASE Snapshot
  <2>1. publisher' \in {"drain", "test"}
    BY <1>4 DEF Snapshot
  <2>2. TypeOK'
    BY <1>4, <2>1 DEF Snapshot
  <2>3. Budget'
    BY <1>4, <2>1 DEF Snapshot
  <2>4. Holding'
    BY <1>4, <2>1 DEF Snapshot
  <2> QED
    BY <2>2, <2>3, <2>4
<1>5. CASE TakeFrame
  <2>1. /\ Head(ready) \in Frames /\ Tail(ready) \in Seq(Frames)
        /\ Len(Tail(ready)) <= ReadyCapacity
    BY <1>5, HeadAndTail DEF TakeFrame
  <2>2. Head(ready) \in [run : 0 .. MaxCalls, slot : Outputs \cup {0}]
    BY SMTT(40), <1>5, <2>1 DEF Frames
  <2>3. TypeOK'
    BY <1>5, <2>1, <2>2 DEF TakeFrame
  <2>4. Budget'
    BY <1>5, <2>1, <2>2 DEF TakeFrame
  <2>5. Holding'
    BY <1>5, <2>1, <2>2 DEF TakeFrame
  <2> QED
    BY <2>3, <2>4, <2>5
<1>6. CASE NoFrameLeft
  <2>1. TypeOK'
    BY <1>6 DEF NoFrameLeft
  <2>2. Budget'
    BY <1>6 DEF NoFrameLeft
  <2>3. Holding'
    BY <1>6 DEF NoFrameLeft
  <2> QED
    BY <2>1, <2>2, <2>3
<1>7. CASE PublishFrame
  <2>1. Released(pool, held.slot) \in Pools
    BY <1>7, <1>0, PoolValues
  <2>2. /\ pool' \in Pools /\ publisher' \in {"calling", "drain"}
        /\ held' = held \/ (held' = NoFrame /\ publisher' = "drain")
        /\ publisher' = "drain" => held' = NoFrame
    BY <1>7, <2>1 DEF PublishFrame
  <2>3. held' \in [run : 0 .. MaxCalls, slot : Outputs \cup {0}]
    BY <1>7, <2>2 DEF NoFrame
  <2>4. TypeOK'
    BY <1>7, <2>1, <2>2, <2>3 DEF PublishFrame
  <2>5. Budget'
    BY <1>7, <2>1, <2>2, <2>3 DEF PublishFrame
  <2>6. Holding'
    BY <1>7, <2>1, <2>2, <2>3 DEF PublishFrame
  <2> QED
    BY <2>4, <2>5, <2>6
<1>8. CASE SinksReturn
  <2>1. Released(pool, held.slot) \in Pools
    BY <1>8, <1>0, PoolValues
  <2>2. pool' \in Pools /\ leases' \in SUBSET Outputs
    BY <1>8, <1>0, <2>1 DEF SinksReturn
  <2>3. held' \in [run : 0 .. MaxCalls, slot : Outputs \cup {0}]
    BY <1>8 DEF SinksReturn, NoFrame
  <2>4. TypeOK'
    BY <1>8, <2>1, <2>2, <2>3 DEF SinksReturn
  <2>5. Budget'
    BY <1>8, <2>1, <2>2, <2>3 DEF SinksReturn
  <2>6. Holding'
    BY <1>8, <2>1, <2>2, <2>3 DEF SinksReturn
  <2> QED
    BY <2>4, <2>5, <2>6
<1>9. ASSUME NEW o \in Outputs, SinkReleases(o) PROVE TypeInv'
  <2>1. Released(pool, o) \in Pools
    BY <1>9, <1>0, PoolValues
  <2>2. TypeOK'
    BY <1>9, <2>1 DEF SinkReleases
  <2>3. Budget'
    BY <1>9, <2>1 DEF SinkReleases
  <2>4. Holding'
    BY <1>9, <2>1 DEF SinkReleases
  <2> QED
    BY <2>2, <2>3, <2>4
<1> QED
  BY <1>1, <1>2, <1>3, <1>4, <1>5, <1>6, <1>7, <1>8, <1>9 DEF Publisher

LEMMA TypeNext == TypeInv /\ [Next]_vars => TypeInv'
<1>1. ASSUME TypeInv, Next PROVE TypeInv'
  BY <1>1, TypeCalls, TypeClient, TypeEvents, TypeWorker, TypePublisher DEF Next
<1>2. ASSUME TypeInv, UNCHANGED vars PROVE TypeInv'
  <2>1. TypeOK'
    BY <1>2 DEF TypeInv, TypeOK, vars, manager, mailbox, control, rtsp, decoder, frames,
                publish
  <2>2. Budget' /\ Holding'
    BY <1>2 DEF TypeInv, Budget, Holding, vars, manager, mailbox, control, rtsp, decoder,
                frames, publish
  <2> QED
    BY <2>1, <2>2 DEF TypeInv
<1> QED
  BY <1>1, <1>2

(* The type invariant of the manager of a stream.                          *)
THEOREM StreamManagerType == Spec => []TypeOK
<1>1. TypeInv => TypeOK
  BY DEF TypeInv
<1> QED
  BY <1>1, TypeInit, TypeNext, PTL DEF Spec
-----------------------------------------------------------------------------
(* The order in which stop() and delStream() silence a stream: the event   *)
(* thread has gone before the worker is released, and both before the ready*)
(* queue is cleared for the last time. A deleted stream stays silent.      *)
Silent == event = "none" /\ worker = "none"

Stilled ==
    /\ at \in {"stopWorker", "joinWorker"} /\ call # "start" => event = "none"
    /\ at \in {"finish", "closeHub"} => Silent
    /\ at = "closeHub" => ready = <<>>
    /\ state = "Erased" =>
           /\ at \in {"idle", "lock", "joinPublisher"} /\ hub = "closed"
           /\ Silent /\ ready = <<>> /\ publisher # "calling"
(* Where the slots are, in terms of what SlotsAccounted looks at.          *)
Distinct(r) == \A i, j \in DOMAIN r : r[i].slot = r[j].slot => i = j

Accounts(used, l, r, o, h) ==
    /\ used = l \cup SlotsOf(r) \cup ({o, h} \ {0})
    /\ l \cap (SlotsOf(r) \cup {o, h}) = {}
    /\ SlotsOf(r) \cap {o, h} = {}
    /\ o = h => o = 0
    /\ Distinct(r)

LEMMA AccountsIsInvariant ==
    SlotsAccounted <=> Accounts(pool.inUse, leases, ready, output, held.slot)
BY DEF SlotsAccounted, Accounts, Distinct

(* The ready queue without its oldest frame                                *)
LEMMA ReadyTail ==
    ASSUME NEW r \in Seq(Frames), r # <<>>, Distinct(r)
    PROVE  /\ Head(r).slot \in SlotsOf(r) /\ Head(r).slot \in Outputs
           /\ SlotsOf(Tail(r)) = SlotsOf(r) \ {Head(r).slot}
           /\ Distinct(Tail(r))
<1>1. /\ Len(r) \in Nat /\ Len(r) >= 1 /\ DOMAIN r = 1 .. Len(r) /\ Head(r) = r[1]
      /\ Head(r) \in Frames
  BY EmptySeq
<1>2. /\ Tail(r) \in Seq(Frames) /\ Len(Tail(r)) = Len(r) - 1
      /\ DOMAIN Tail(r) = 1 .. (Len(r) - 1)
      /\ \A i \in 1 .. (Len(r) - 1) : Tail(r)[i] = r[i + 1]
  BY <1>1
<1>3. Head(r).slot \in SlotsOf(r) /\ Head(r).slot \in Outputs
  BY <1>1 DEF SlotsOf, Frames
<1>4. Distinct(Tail(r))
  <2> SUFFICES ASSUME NEW i \in DOMAIN Tail(r), NEW j \in DOMAIN Tail(r),
                      Tail(r)[i].slot = Tail(r)[j].slot
               PROVE  i = j
    BY DEF Distinct
  <2>1. i + 1 \in DOMAIN r /\ j + 1 \in DOMAIN r /\ r[i + 1].slot = r[j + 1].slot
    BY <1>1, <1>2
  <2>2. i + 1 = j + 1
    BY <2>1 DEF Distinct
  <2> QED
    BY <1>2, <2>2
<1>5. ASSUME NEW i \in DOMAIN Tail(r)
      PROVE  Tail(r)[i].slot \in SlotsOf(r) /\ Tail(r)[i].slot # Head(r).slot
  <2>1. i + 1 \in DOMAIN r /\ i + 1 # 1 /\ 1 \in DOMAIN r /\ Tail(r)[i] = r[i + 1]
    BY <1>1, <1>2
  <2>2. r[i + 1].slot # r[1].slot
    BY <2>1 DEF Distinct
  <2> QED
    BY <1>1, <2>1, <2>2 DEF SlotsOf
<1>6. ASSUME NEW i \in DOMAIN r, r[i].slot # Head(r).slot
      PROVE  r[i].slot \in SlotsOf(Tail(r))
  <2> DEFINE k == i - 1
  <2>1. k \in DOMAIN Tail(r) /\ Tail(r)[k] = r[i]
    BY <1>1, <1>2, <1>6
  <2> QED
    BY <2>1 DEF SlotsOf
<1>7. SlotsOf(Tail(r)) = SlotsOf(r) \ {Head(r).slot}
  BY <1>5, <1>6 DEF SlotsOf
<1> QED
  BY <1>3, <1>4, <1>7

(* The ready queue with a frame in a slot that it did not have             *)
LEMMA ReadyAppend ==
    ASSUME NEW r \in Seq(Frames), NEW f \in Frames, Distinct(r), f.slot \notin SlotsOf(r)
    PROVE  /\ SlotsOf(Append(r, f)) = SlotsOf(r) \cup {f.slot}
           /\ Distinct(Append(r, f))
<1> DEFINE n == Len(r) + 1
           a == Append(r, f)
<1>1. /\ Len(r) \in Nat /\ DOMAIN r = 1 .. Len(r) /\ DOMAIN a = 1 .. n
      /\ n \in 1 .. n /\ n \notin DOMAIN r /\ a[n] = f
      /\ \A i \in 1 .. Len(r) : a[i] = r[i] /\ i \in 1 .. n
      /\ \A i \in 1 .. n : i = n \/ i \in 1 .. Len(r)
  OBVIOUS
<1> HIDE DEF a, n
<1>2. SlotsOf(a) = SlotsOf(r) \cup {f.slot}
  BY <1>1 DEF SlotsOf
<1>3. Distinct(a)
  <2> SUFFICES ASSUME NEW i \in 1 .. n, NEW j \in 1 .. n, a[i].slot = a[j].slot
               PROVE  i = j
    BY <1>1 DEF Distinct
  <2>1. \A k \in 1 .. Len(r) : a[k].slot # a[n].slot
    BY <1>1 DEF SlotsOf
  <2>2. CASE i \in 1 .. Len(r) /\ j \in 1 .. Len(r)
    BY <1>1, <2>2 DEF Distinct
  <2> QED
    BY <1>1, <2>1, <2>2
<1> QED
  BY <1>2, <1>3 DEF a

(* What the queues do to the account: the ready queue is cleared, gives up *)
(* its oldest frame, hands it to the worker or to the publisher, or gets a *)
(* frame of the worker.                                                    *)
LEMMA AccountsReady ==
    ASSUME NEW used, NEW l \in SUBSET Outputs, NEW r \in Seq(Frames),
           NEW o \in Outputs \cup {0}, NEW h \in Outputs \cup {0},
           Accounts(used, l, r, o, h)
    PROVE  /\ Accounts(used \ SlotsOf(r), l, <<>>, o, h)
           /\ r # <<>> =>
                 /\ Accounts(used \ {Head(r).slot}, l, Tail(r), o, h)
                 /\ o = 0 => Accounts((used \ {Head(r).slot}) \cup {Head(r).slot},
                                      l, Tail(r), Head(r).slot, h)
                 /\ h = 0 => Accounts(used, l, Tail(r), o, Head(r).slot)
           /\ \A f \in Frames : f.slot = o => Accounts(used, l, Append(r, f), 0, h)
<1>0. \A f \in Frames : f.slot \in Outputs /\ f.slot # 0
  BY PoolSizeAssumption DEF Frames, Outputs
<1>1. SlotsOf(<<>>) = {} /\ Distinct(<<>>)
  BY DEF SlotsOf, Distinct
<1>2. Accounts(used \ SlotsOf(r), l, <<>>, o, h)
  BY <1>1 DEF Accounts
<1>3. ASSUME r # <<>>
      PROVE  /\ Accounts(used \ {Head(r).slot}, l, Tail(r), o, h)
             /\ o = 0 => Accounts((used \ {Head(r).slot}) \cup {Head(r).slot},
                                  l, Tail(r), Head(r).slot, h)
             /\ h = 0 => Accounts(used, l, Tail(r), o, Head(r).slot)
  <2> DEFINE q == Head(r).slot
             t == Tail(r)
  <2>1. Distinct(r)
    BY DEF Accounts
  <2>2. q \in SlotsOf(r) /\ q \in Outputs /\ SlotsOf(t) = SlotsOf(r) \ {q} /\ Distinct(t)
    BY <1>3, <2>1, ReadyTail
  <2>3. q # 0
    BY <2>2, PoolSizeAssumption DEF Outputs
  <2> HIDE DEF q, t
  <2>4. Accounts(used \ {q}, l, t, o, h)
    BY <2>2, <2>3 DEF Accounts
  <2>5. o = 0 => Accounts((used \ {q}) \cup {q}, l, t, q, h)
    BY <2>2, <2>3 DEF Accounts
  <2>6. h = 0 => Accounts(used, l, t, o, q)
    BY <2>2, <2>3 DEF Accounts
  <2> QED
    BY <2>4, <2>5, <2>6 DEF q, t
<1>4. ASSUME NEW f \in Frames, f.slot = o PROVE Accounts(used, l, Append(r, f), 0, h)
  <2>1. Distinct(r) /\ f.slot \notin SlotsOf(r) /\ o # 0
    BY <1>0, <1>4 DEF Accounts
  <2>2. SlotsOf(Append(r, f)) = SlotsOf(r) \cup {o} /\ Distinct(Append(r, f))
    BY <1>4, <2>1, ReadyAppend
  <2>3. l \cap {0} = {} /\ 0 \notin SlotsOf(r)
    BY <1>0, PoolSizeAssumption DEF Outputs, SlotsOf
  <2> QED
    BY <2>1, <2>2, <2>3 DEF Accounts
<1> QED
  BY <1>2, <1>3, <1>4

(* What the worker, the publisher and the sinks do: a slot is acquired,    *)
(* the worker or the publisher gives its slot up, the publisher leaves its *)
(* slot to a sink, and a sink gives it up.                                 *)
LEMMA AccountsSlot ==
    ASSUME NEW used, NEW l \in SUBSET Outputs, NEW r \in Seq(Frames),
           NEW o \in Outputs \cup {0}, NEW h \in Outputs \cup {0},
           Accounts(used, l, r, o, h)
    PROVE  /\ o = 0 => \A q \in Outputs \ used : Accounts(used \cup {q}, l, r, q, h)
           /\ Accounts(used \ {o}, l, r, 0, h)
           /\ Accounts(used \ {h}, l, r, o, 0)
           /\ Accounts(used, l \cup ({h} \ {0}), r, o, 0)
           /\ \A q \in l : Accounts(used \ {q}, l \ {q}, r, o, h)
<1>1. 0 \notin l /\ 0 \notin SlotsOf(r) /\ 0 \notin Outputs
  <2>1. 0 \notin Outputs
    BY PoolSizeAssumption DEF Outputs
  <2>2. \A i \in DOMAIN r : r[i] \in Frames
    OBVIOUS
  <2> QED
    BY <2>1, <2>2 DEF SlotsOf, Frames
<1> HIDE DEF Outputs
<1>2. o = 0 => \A q \in Outputs \ used : Accounts(used \cup {q}, l, r, q, h)
  BY <1>1 DEF Accounts
<1>3. Accounts(used \ {o}, l, r, 0, h)
  BY <1>1 DEF Accounts
<1>4. Accounts(used \ {h}, l, r, o, 0)
  BY <1>1 DEF Accounts
<1>5. Accounts(used, l \cup ({h} \ {0}), r, o, 0)
  BY <1>1 DEF Accounts
<1>6. \A q \in l : Accounts(used \ {q}, l \ {q}, r, o, h)
  BY <1>1 DEF Accounts
<1> QED
  BY <1>2, <1>3, <1>4, <1>5, <1>6

(* Steps that leave the slots where they are, and steps that clear the     *)
(* ready queue                                                             *)
LEMMA AccountsKept ==
    ASSUME SlotsAccounted, UNCHANGED <<pool, leases, ready, output, held>>
    PROVE  SlotsAccounted'
BY DEF SlotsAccounted, SlotsOf

LEMMA AccountsTyped ==
    ASSUME TypeInv
    PROVE  /\ pool \in Pools /\ leases \in SUBSET Outputs /\ ready \in Seq(Frames)
           /\ output \in Outputs \cup {0} /\ held.slot \in Outputs \cup {0}
           /\ pool.inUse \in SUBSET Outputs
BY DEF TypeInv, TypeOK, Pools

LEMMA AccountsCleared ==
    ASSUME TypeInv, SlotsAccounted, ClearReady, UNCHANGED <<leases, output, held>>
    PROVE  SlotsAccounted'
<1>1. ready' = <<>> /\ pool'.inUse = pool.inUse \ SlotsOf(ready)
  BY ClearedReady DEF TypeInv
<1>2. Accounts(pool.inUse, leases, ready, output, held.slot)
  BY AccountsIsInvariant
<1>3. Accounts(pool.inUse \ SlotsOf(ready), leases, <<>>, output, held.slot)
  BY <1>2, AccountsTyped, AccountsReady
<1>4. Accounts(pool'.inUse, leases', ready', output', held'.slot)
  BY <1>1, <1>3
<1> QED
  BY <1>4, AccountsIsInvariant DEF SlotsAccounted, Accounts, Distinct, SlotsOf

LEMMA AccountsWorker ==
    ASSUME TypeInv, SlotsAccounted,
           ReplacePool \/ (\E o \in Outputs : AcquireOutput(o)) \/ StealOldest
           \/ DropPicture \/ Worker
    PROVE  SlotsAccounted'
<1> DEFINE used == pool.inUse
<1>1. SUFFICES Accounts(pool'.inUse, leases', ready', output', held'.slot)
  BY DEF SlotsAccounted, Accounts, Distinct, SlotsOf
<1>2. Accounts(used, leases, ready, output, held.slot)
  BY AccountsIsInvariant
<1>3. /\ pool \in Pools /\ leases \in SUBSET Outputs /\ ready \in Seq(Frames)
      /\ output \in Outputs \cup {0} /\ held.slot \in Outputs \cup {0}
  BY AccountsTyped
<1>4. /\ Accounts(used \ {output}, leases, ready, 0, held.slot)
      /\ output = 0 => \A q \in Outputs \ used :
                           Accounts(used \cup {q}, leases, ready, q, held.slot)
  BY <1>2, <1>3, AccountsSlot
<1>5. /\ ready # <<>> =>
            /\ Accounts(used \ {Head(ready).slot}, leases, Tail(ready), output, held.slot)
            /\ output = 0 => Accounts((used \ {Head(ready).slot}) \cup {Head(ready).slot},
                                      leases, Tail(ready), Head(ready).slot, held.slot)
      /\ \A f \in Frames : f.slot = output =>
             Accounts(used, leases, Append(ready, f), 0, held.slot)
  BY <1>2, <1>3, AccountsReady
<1>6. ready # <<>> => Head(ready) \in Frames /\ Head(ready).slot \in Outputs \cup {0}
  <2>1. ready # <<>> => Head(ready) \in Frames
    BY <1>3, HeadAndTail
  <2> QED
    BY <2>1 DEF Frames
<1>7. Decoding => output = 0
  BY DEF Decoding, TypeInv, Holding
<1> HIDE DEF used
<1>8. CASE ReplacePool
  <2>1. /\ pool'.inUse = {} /\ leases' = {} /\ ready' = <<>> /\ output' = 0
        /\ held'.slot = 0
    BY <1>7, <1>8 DEF ReplacePool, NewPool, decoder, TypeInv, TypeOK
  <2>2. Accounts({}, {}, <<>>, 0, 0)
    BY DEF Accounts, SlotsOf, Distinct
  <2> QED
    BY <2>1, <2>2
<1>9. ASSUME NEW o \in Outputs, AcquireOutput(o)
      PROVE  Accounts(pool'.inUse, leases', ready', output', held'.slot)
  <2>1. o \in Outputs \ used /\ output = 0
    BY <1>7, <1>9 DEF AcquireOutput, IsFirstFree, used
  <2>2. pool' = Acquired(pool, o) /\ output' = o /\ UNCHANGED <<ready, leases, held>>
    BY <1>9 DEF AcquireOutput, publish
  <2>3. pool'.inUse = used \cup {o}
    BY <1>3, <2>1, <2>2, PoolValues, PoolSizeAssumption DEF Outputs, used
  <2> QED
    BY <1>4, <2>1, <2>2, <2>3
<1>10. CASE StealOldest
  <2>1. /\ ready # <<>> /\ output = 0 /\ ready' = Tail(ready)
        /\ output' = Head(ready).slot /\ UNCHANGED <<leases, held>>
        /\ pool' = Acquired(Released(AcquireFailed(pool), Head(ready).slot),
                            Head(ready).slot)
    BY <1>7, <1>10 DEF StealOldest, publish
  <2>2. Head(ready).slot \in Outputs /\ Head(ready).slot # 0
    BY <1>6, <2>1, PoolSizeAssumption DEF Frames, Outputs
  <2>3. pool'.inUse = (used \ {Head(ready).slot}) \cup {Head(ready).slot}
    <3>1. AcquireFailed(pool) \in Pools /\ AcquireFailed(pool).inUse = used
      BY <1>3, PoolValues DEF used
    <3>2. /\ Released(AcquireFailed(pool), Head(ready).slot) \in Pools
          /\ Released(AcquireFailed(pool), Head(ready).slot).inUse
                 = used \ {Head(ready).slot}
      BY <2>2, <3>1, PoolValues
    <3> QED
      BY <2>1, <2>2, <3>2, PoolValues
  <2> QED
    BY <1>5, <2>1, <2>3
<1>11. CASE DropPicture
  <2>1. pool'.inUse = used /\ UNCHANGED <<ready, leases, output, held>>
    BY <1>3, <1>11, PoolValues DEF DropPicture, decoder, publish, used
  <2> QED
    BY <1>2, <2>1 DEF used
<1>12. CASE EnqueueFrame
  <2>1. /\ worker = "copying" /\ output' = 0 /\ UNCHANGED <<leases, held>>
        /\ IF Len(ready) >= ReadyCapacity
           THEN /\ ready' = Append(Tail(ready), NewFrame)
                /\ pool' = Released(pool, Head(ready).slot)
           ELSE ready' = Append(ready, NewFrame) /\ UNCHANGED pool
    BY <1>12 DEF EnqueueFrame, publish
  <2>2. NewFrame \in Frames /\ NewFrame.slot = output
    BY <2>1, StreamManagerAssumption, PoolSizeAssumption
       DEF TypeInv, TypeOK, Holding, NewFrame, Frames, Outputs
  <2>3. CASE Len(ready) >= ReadyCapacity
    <3>1. ready # <<>>
      BY <2>3, StreamManagerAssumption
    <3>2. pool'.inUse = used \ {Head(ready).slot}
      <4>1. pool' = Released(pool, Head(ready).slot)
        BY <2>1, <2>3
      <4>2. Released(pool, Head(ready).slot).inUse = used \ {Head(ready).slot}
        BY <1>3, <1>6, <3>1, PoolValues DEF used
      <4> QED
        BY <4>1, <4>2
    <3>3. Accounts(used \ {Head(ready).slot}, leases, Tail(ready), output, held.slot)
      BY <1>5, <3>1
    <3>4. Tail(ready) \in Seq(Frames)
      BY <1>3, <3>1, HeadAndTail
    <3>5. Accounts(used \ {Head(ready).slot}, leases, Append(Tail(ready), NewFrame), 0,
                   held.slot)
      BY <1>3, <2>2, <3>3, <3>4, AccountsReady
    <3> QED
      BY <2>1, <2>3, <3>2, <3>5
  <2>4. CASE ~(Len(ready) >= ReadyCapacity)
    BY <1>5, <2>1, <2>2, <2>4 DEF used
  <2> QED
    BY <2>3, <2>4
<1>13. CASE CopyFails
  <2>1. pool'.inUse = used \ {output} /\ output' = 0 /\ UNCHANGED <<ready, leases, held>>
    BY <1>3, <1>13, PoolValues DEF CopyFails, publish, used
  <2> QED
    BY <1>4, <2>1
<1>14. CASE NotifyFrame \/ WorkerExits
  BY <1>2, <1>14 DEF NotifyFrame, WorkerExits, frames, publish, used
<1> QED
  BY <1>8, <1>9, <1>10, <1>11, <1>12, <1>13, <1>14 DEF Worker

LEMMA AccountsPublisher ==
    ASSUME TypeInv, SlotsAccounted, Publisher \/ \E o \in Outputs : SinkReleases(o)
    PROVE  SlotsAccounted'
<1> DEFINE used == pool.inUse
<1>1. SUFFICES Accounts(pool'.inUse, leases', ready', output', held'.slot)
  BY DEF SlotsAccounted, Accounts, Distinct, SlotsOf
<1>2. Accounts(used, leases, ready, output, held.slot)
  BY AccountsIsInvariant
<1>3. /\ pool \in Pools /\ leases \in SUBSET Outputs /\ ready \in Seq(Frames)
      /\ output \in Outputs \cup {0} /\ held.slot \in Outputs \cup {0}
  BY AccountsTyped
<1>4. /\ Accounts(used \ {held.slot}, leases, ready, output, 0)
      /\ Accounts(used, leases \cup ({held.slot} \ {0}), ready, output, 0)
      /\ \A q \in leases : Accounts(used \ {q}, leases \ {q}, ready, output, held.slot)
  BY <1>2, <1>3, AccountsSlot
<1>5. /\ Released(pool, held.slot).inUse = used \ {held.slot}
      /\ \A q \in Outputs : Released(pool, q).inUse = used \ {q}
      /\ NoFrame.slot = 0
  BY <1>3, PoolValues DEF NoFrame
<1> HIDE DEF used
<1>6. CASE TestPending \/ SwapReports \/ Snapshot \/ NoFrameLeft
  BY <1>2, <1>6 DEF TestPending, SwapReports, Snapshot, NoFrameLeft, frames, decoder, used
<1>7. CASE ApplyReport
  <2>1. UNCHANGED <<leases, output, held>> /\ (ClearReady \/ UNCHANGED <<pool, ready>>)
    BY <1>7 DEF ApplyReport, decoder
  <2>2. SlotsAccounted'
    BY <2>1, AccountsKept, AccountsCleared
  <2> QED
    BY <2>2 DEF SlotsAccounted, Accounts, Distinct, SlotsOf
<1>8. CASE TakeFrame
  <2>1. /\ ready # <<>> /\ held' = Head(ready) /\ ready' = Tail(ready)
        /\ UNCHANGED <<pool, leases, output>> /\ held = NoFrame
    BY <1>8 DEF TakeFrame, decoder, TypeInv, Holding
  <2>2. Accounts(used, leases, Tail(ready), output, Head(ready).slot)
    BY <1>2, <1>3, <1>5, <2>1, AccountsReady
  <2> QED
    BY <2>1, <2>2 DEF used
<1>9. CASE PublishFrame
  <2>1. /\ UNCHANGED <<ready, leases, output>>
        /\ \/ UNCHANGED <<pool, held>>
           \/ pool' = Released(pool, held.slot) /\ held' = NoFrame
    BY <1>9 DEF PublishFrame, decoder
  <2> QED
    BY <1>2, <1>4, <1>5, <2>1 DEF used
<1>10. CASE SinksReturn
  <2>1. /\ UNCHANGED <<ready, output>> /\ held' = NoFrame
        /\ \/ leases' = leases \cup ({held.slot} \ {0}) /\ UNCHANGED pool
           \/ pool' = Released(pool, held.slot) /\ UNCHANGED leases
    BY <1>10 DEF SinksReturn, decoder
  <2> QED
    BY <1>4, <1>5, <2>1 DEF used
<1>11. ASSUME NEW o \in Outputs, SinkReleases(o)
       PROVE  Accounts(pool'.inUse, leases', ready', output', held'.slot)
  <2>1. /\ o \in leases /\ leases' = leases \ {o} /\ pool' = Released(pool, o)
        /\ UNCHANGED <<ready, output, held>>
    BY <1>11 DEF SinkReleases, decoder, publish
  <2> QED
    BY <1>4, <1>5, <2>1
<1> QED
  BY <1>6, <1>7, <1>8, <1>9, <1>10, <1>11 DEF Publisher

LEMMA AccountsClient ==
    ASSUME TypeInv, SlotsAccounted, Client
    PROVE  SlotsAccounted'
<1> USE DEF decoder, frames, publish
<1>1. CASE Refused \/ LockStop \/ StopAll \/ StopWorker \/ JoinWorker \/ SignalEvent
  BY <1>1, AccountsKept
     DEF Refused, LockStop, StopAll, StopWorker, JoinWorker, SignalEvent
<1>2. CASE JoinEvent \/ CloseHub \/ JoinPublisher
  BY <1>2, AccountsKept DEF JoinEvent, CloseHub, JoinPublisher
<1>3. CASE LockStart \/ StartAll \/ FinishStop \/ FinishDelete
  <2>1. ClearReady /\ UNCHANGED <<leases, output, held>>
    BY <1>3 DEF LockStart, StartAll, BeginRun, FinishStop, FinishDelete
  <2> QED
    BY <2>1, AccountsCleared
<1> QED
  BY <1>1, <1>2, <1>3 DEF Client

LEMMA AccountsEvents ==
    ASSUME SlotsAccounted, \/ (\E c \in Calls : CallStart(c) \/ CallStop(c)) \/ CallShutdown
                           \/ Plays \/ Fails \/ Event \/ Stalls \/ Recovers
    PROVE  SlotsAccounted'
<1>1. UNCHANGED <<pool, leases, ready, output, held>>
  BY DEF CallStart, CallStop, CallShutdown, Plays, Fails, Event, ReportFailure, LeaveLoop,
         EndEvent, Stalls, Recovers, decoder, frames, publish
<1> QED
  BY <1>1, AccountsKept

LEMMA AccountsNext == TypeInv /\ SlotsAccounted /\ [Next]_vars => SlotsAccounted'
<1>1. ASSUME TypeInv, SlotsAccounted, Next PROVE SlotsAccounted'
  BY <1>1, AccountsClient, AccountsEvents, AccountsWorker, AccountsPublisher DEF Next
<1>2. ASSUME SlotsAccounted, UNCHANGED vars PROVE SlotsAccounted'
  BY <1>2, AccountsKept DEF vars, decoder, frames, publish
<1> QED
  BY <1>1, <1>2

(* SlotsAccounted: eviction, a cleared queue, a restart, a replaced pool   *)
(* and a deletion neither leak an output slot nor give it to two users.    *)
THEOREM SlotsStayAccounted == Spec => []SlotsAccounted
<1>1. Init => SlotsAccounted
  BY DEF Init, SlotsAccounted, SlotsOf, NewPool, NoFrame
<1> QED
  BY <1>1, TypeInit, TypeNext, AccountsNext, PTL DEF Spec
-----------------------------------------------------------------------------
(* Stopping.                                                               *)
LEMMA StilledCalls ==
    ASSUME TypeInv, Stilled,
           (\E c \in Calls : CallStart(c) \/ CallStop(c)) \/ CallShutdown \/ Client
    PROVE  Stilled'
<1> USE DEF Stilled, Silent, Return, manager, mailbox, control, rtsp, decoder, frames,
            publish
<1>1. ASSUME NEW c \in Calls, CallStart(c) \/ CallStop(c) PROVE Stilled'
  BY <1>1 DEF CallStart, CallStop
<1>2. CASE CallShutdown
  BY <1>2 DEF CallShutdown, Wake
<1>3. CASE Refused \/ LockStop \/ StopAll
  BY <1>3 DEF Refused, LockStop, StopAll
<1>4. CASE LockStart \/ StartAll
  BY <1>4 DEF LockStart, StartAll, BeginRun, ClearReady
<1>5. CASE StopWorker \/ SignalEvent
  BY <1>5 DEF StopWorker, SignalEvent
<1>6. CASE JoinWorker
  BY <1>6 DEF JoinWorker
<1>7. CASE JoinEvent
  BY <1>7 DEF JoinEvent
<1>8. CASE FinishStop
  BY <1>8 DEF FinishStop
<1>9. CASE FinishDelete
  BY <1>9 DEF FinishDelete, ClearReady
<1>10. CASE CloseHub
  BY <1>10 DEF CloseHub
<1>11. CASE JoinPublisher
  BY <1>11 DEF JoinPublisher
<1> QED
  BY <1>1, <1>2, <1>3, <1>4, <1>5, <1>6, <1>7, <1>8, <1>9, <1>10, <1>11 DEF Client

LEMMA StilledThreads ==
    ASSUME TypeInv, Stilled, Plays \/ Fails \/ Event \/ Stalls \/ Recovers
    PROVE  Stilled'
<1>1. \A s \in {"Connecting", "Streaming", "Stopped", "Error"} :
          Report(s) => publisher' = publisher \/ publisher' = "test"
  BY Reported DEF TypeInv
<1>2. /\ UNCHANGED <<state, gen, hub, call, at, worker, ready>>
      /\ publisher' = publisher \/ publisher' = "test"
      /\ event = "none" <=> event' = "none"
  BY <1>1 DEF Plays, Fails, Event, ReportFailure, LeaveLoop, EndEvent, Stalls, Recovers,
              manager, control, rtsp, decoder, frames, publish
<1> QED
  BY <1>2 DEF Stilled, Silent

LEMMA StilledWorker ==
    ASSUME TypeInv, Stilled, ReplacePool \/ (\E o \in Outputs : AcquireOutput(o))
                             \/ StealOldest \/ DropPicture \/ Worker
    PROVE  Stilled'
<1>1. /\ worker # "none" /\ worker' # "none"
      /\ UNCHANGED <<state, hub, call, at, event>>
  BY DEF ReplacePool, AcquireOutput, StealOldest, DropPicture, Decoding, Worker,
         EnqueueFrame, CopyFails, NotifyFrame, WorkerExits, manager, control, rtsp, decoder
<1> QED
  BY <1>1 DEF Stilled, Silent

LEMMA StilledPublisher ==
    ASSUME TypeInv, Stilled, Publisher \/ \E o \in Outputs : SinkReleases(o)
    PROVE  Stilled'
<1>1. UNCHANGED <<hub, call, at, event, worker>>
  BY DEF Publisher, TestPending, SwapReports, ApplyReport, Snapshot, TakeFrame, NoFrameLeft,
         PublishFrame, SinksReturn, SinkReleases, control, rtsp, decoder
<1>2. ready = <<>> => ready' = <<>>
  BY DEF Publisher, TestPending, SwapReports, ApplyReport, ClearReady, Snapshot, TakeFrame,
         NoFrameLeft, PublishFrame, SinksReturn, SinkReleases, frames
<1>3. state' = "Erased" <=> state = "Erased"
  <2>1. CASE ApplyReport
    <3>1. Head(batch) \in Reports
      BY <2>1, HeadAndTail DEF ApplyReport, TypeInv, TypeOK, Holding
    <3> QED
      BY <2>1, <3>1 DEF ApplyReport, After, Counts, Connected, Reports
  <2> QED
    BY <2>1 DEF Publisher, TestPending, SwapReports, Snapshot, TakeFrame, NoFrameLeft,
                PublishFrame, SinksReturn, SinkReleases, manager
<1>4. hub = "closed" /\ publisher # "calling" => publisher' # "calling"
  BY DEF Publisher, TestPending, SwapReports, ApplyReport, Snapshot, TakeFrame, NoFrameLeft,
         PublishFrame, SinksReturn, SinkReleases, publish
<1> QED
  BY <1>1, <1>2, <1>3, <1>4 DEF Stilled, Silent

LEMMA StilledNext == TypeInv /\ Stilled /\ [Next]_vars => Stilled'
<1>1. ASSUME TypeInv, Stilled, Next PROVE Stilled'
  BY <1>1, StilledCalls, StilledThreads, StilledWorker, StilledPublisher DEF Next
<1>2. ASSUME Stilled, UNCHANGED vars PROVE Stilled'
  BY <1>2 DEF Stilled, Silent, vars, manager, control, rtsp, decoder, frames, publish
<1> QED
  BY <1>1, <1>2

(* StopIsComplete: a stop leaves no thread of the stream and no frame that *)
(* waits, and a deleted stream stays silent.                               *)
THEOREM StopsAreComplete == Spec => StopIsComplete
<1> DEFINE A == at = "finish" /\ at' = "idle"
                    => event' = "none" /\ worker' = "none" /\ ready' = <<>>
<1>1. Init => Stilled
  BY DEF Init, Stilled
<1>2. Stilled => DeletedIsSilent
  BY DEF Stilled, Silent, DeletedIsSilent
<1>3. TypeInv /\ Stilled /\ [Next]_vars => [A]_vars
  <2> SUFFICES ASSUME Stilled, Next, at = "finish", at' = "idle"
               PROVE  event' = "none" /\ worker' = "none" /\ ready' = <<>>
    OBVIOUS
  <2>1. FinishStop
    BY DEF Next, Client, CallStart, CallStop, CallShutdown, Refused, LockStart, StartAll,
           LockStop, StopAll, StopWorker, JoinWorker, SignalEvent, JoinEvent, FinishDelete,
           CloseHub, JoinPublisher, Plays, Fails, Event, ReportFailure, LeaveLoop, EndEvent,
           Stalls, Recovers, ReplacePool, AcquireOutput, StealOldest, DropPicture, Worker,
           EnqueueFrame, CopyFails, NotifyFrame, WorkerExits, Publisher, TestPending,
           SwapReports, ApplyReport, Snapshot, TakeFrame, NoFrameLeft, PublishFrame,
           SinksReturn, SinkReleases, control
  <2> QED
    BY <2>1 DEF FinishStop, ClearReady, Stilled, Silent, rtsp, decoder
<1> QED
  BY <1>1, <1>2, <1>3, TypeInit, TypeNext, StilledNext, PTL DEF Spec, StopIsComplete
=============================================================================
